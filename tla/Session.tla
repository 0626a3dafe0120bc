------------------------------ MODULE Session ------------------------------
(***************************************************************************)
(* Server-side sessions of Ceasy under concurrent requests.                *)
(*                                                                         *)
(* ceasy_run forks one child process per connection.  A child loads the    *)
(* session named by the request's cookie lazily, lets the application's    *)
(* handler change it in memory, and writes it back in session_commit,      *)
(* which every response runs before its first byte is sent.  Children      *)
(* share nothing but the ceasy_sessions table, one SQL statement at a      *)
(* time: there is no transaction around load and commit, nor around the    *)
(* DELETE and the INSERT of a regenerating commit.                         *)
(*                                                                         *)
(* An application handler is any sequence of calls of the session, auth,   *)
(* flash and csrf APIs and of context_send_*, in any order.                *)
(***************************************************************************)
EXTENDS Naturals, FiniteSets

CONSTANTS
    Requests,    \* connections, each handled by a child process of its own
    Clients,     \* browsers, each with a cookie jar
    Tokens,      \* session tokens session_generate_token can draw
    CsrfTokens,  \* tokens csrf_token can draw
    Users,       \* user ids, positive integers in the code
    AppKeys,     \* session keys of the application
    AppValues,   \* values it stores under them
    None,        \* no token, no row, no value
    Unset,       \* not set at all, as opposed to set to None
    Faults,      \* the failures that may happen: subset of FaultKinds
    MaxOverlap,  \* bound: requests in progress at a time
    MaxCalls,    \* bound: API calls a handler makes
    MaxEntries,  \* SESSION_MAX_BYTES, counted in entries of the session
    MaxTime,     \* bound on the clock
    TTL          \* ceasy_session_ttl_seconds()

\* "load" is memory that runs out in session_load, "mem" anywhere else.
FaultKinds == {"db", "load", "mem", "net", "crash"}

\* A flash message, made unique by the call that set it.
Messages == Requests \X (0 .. MaxCalls)

Data == [user : Users \cup {None}, csrf : CsrfTokens \cup {None},
         flash : Messages \cup {None}, app : [AppKeys -> AppValues \cup {None}]]

EmptyData == [user |-> None, csrf |-> None, flash |-> None,
              app |-> [k \in AppKeys |-> None]]

Rows == [data : Data, expires : 0 .. MaxTime + TTL]

SessionRecords ==
    [values : Data, token : Tokens \cup {None}, loaded : BOOLEAN,
     exists : BOOLEAN, dirty : BOOLEAN, regenerate : BOOLEAN, destroy : BOOLEAN]

NewSession ==
    [values |-> EmptyData, token |-> None, loaded |-> FALSE, exists |-> FALSE,
     dirty |-> FALSE, regenerate |-> FALSE, destroy |-> FALSE]

PCs == {"idle", "verify", "dispatch", "unrouted", "asset", "handler", "reap", "send",
        "insert", "transmit", "close", "done"}

ASSUME SessionAssumption ==
    /\ None # Unset
    /\ {None, Unset} \cap (Tokens \cup CsrfTokens \cup Users) = {}
    /\ None \notin Clients \cup AppValues \cup Rows \cup Messages
    /\ Faults \subseteq FaultKinds
    /\ MaxCalls \in Nat /\ MaxOverlap \in Nat /\ MaxEntries \in Nat
    /\ MaxTime \in Nat /\ TTL \in Nat \ {0}

VARIABLES
    sessions,    \* the ceasy_sessions table, by token (the code keys it by digest)
    now,         \* time(NULL)
    jar,         \* each browser's session cookie
    pc,          \* where each child is
    after,       \* where a child goes on after a reap or a send
    client,      \* the browser a request comes from
    method,      \* the request's method: GET, or one of the unsafe ones
    cookie,      \* the session cookie of the request
    form,        \* the _csrf field of its form, until csrf_verify has compared it
    sess,        \* context->session
    setCookie,   \* the response's last Set-Cookie: a token, None (delete), Unset
    sent,        \* context->response_sent
    calls,       \* API calls made by the handler
    \* Bookkeeping that the code does not have.  tokenFor and csrfFor stand for
    \* the randomness of the tokens: one that was drawn is never drawn again.
    tokenFor,    \* the browser a session token was drawn for
    csrfFor,     \* the browser a csrf token was drawn for
    owner,       \* who a token's session belonged to when first stored
    destroyed,   \* tokens whose session was destroyed
    seen,        \* flash messages a request read before its response was sent;
                 \* once it has ended, those that its browser was shown
    delivered,   \* running requests whose response has reached the browser
    faulted      \* running requests that have met a failure

vars == <<sessions, now, jar, pc, after, client, method, cookie, form, sess,
          setCookie, sent, calls, tokenFor, csrfFor, owner, destroyed, seen, delivered, faulted>>

\* Groups of variables for UNCHANGED.
table == <<sessions, owner, destroyed>>
drawn == <<tokenFor, csrfFor>>
req == <<client, method, cookie, form>>
response == <<setCookie, sent>>
world == <<jar, delivered>>

\* The type of every variable.
TypeOK ==
    /\ sessions \in [Tokens -> Rows \cup {None}]
    /\ now \in 0 .. MaxTime
    /\ jar \in [Clients -> Tokens \cup {None}]
    /\ pc \in [Requests -> PCs]
    /\ after \in [Requests -> PCs]
    /\ client \in [Requests -> Clients \cup {None}]
    /\ method \in [Requests -> {"GET", "POST"}]
    /\ cookie \in [Requests -> Tokens \cup {None}]
    /\ form \in [Requests -> CsrfTokens \cup {None}]
    /\ sess \in [Requests -> SessionRecords]
    /\ setCookie \in [Requests -> Tokens \cup {None, Unset}]
    /\ sent \in [Requests -> BOOLEAN]
    /\ calls \in [Requests -> 0 .. MaxCalls]
    /\ tokenFor \in [Tokens -> Clients \cup {None}]
    /\ csrfFor \in [CsrfTokens -> Clients \cup {None}]
    /\ owner \in [Tokens -> Users \cup {None, Unset}]
    /\ destroyed \subseteq Tokens
    /\ seen \in [Requests -> SUBSET Messages]
    /\ delivered \subseteq Requests
    /\ faulted \subseteq Requests

Init ==
    /\ sessions = [t \in Tokens |-> None]
    /\ now = 0
    /\ jar = [c \in Clients |-> None]
    /\ pc = [r \in Requests |-> "idle"]
    /\ after = [r \in Requests |-> "close"]
    /\ client = [r \in Requests |-> None]
    /\ method = [r \in Requests |-> "GET"]
    /\ cookie = [r \in Requests |-> None]
    /\ form = [r \in Requests |-> None]
    /\ sess = [r \in Requests |-> NewSession]
    /\ setCookie = [r \in Requests |-> Unset]
    /\ sent = [r \in Requests |-> FALSE]
    /\ calls = [r \in Requests |-> 0]
    /\ tokenFor = [t \in Tokens |-> None]
    /\ csrfFor = [c \in CsrfTokens |-> None]
    /\ owner = [t \in Tokens |-> Unset]
    /\ destroyed = {}
    /\ seen = [r \in Requests |-> {}]
    /\ delivered = {}
    /\ faulted = {}

----------------------------------------------------------------------------
(* The in-memory session (session.c).                                      *)

SetUser(s, u) ==
    [s EXCEPT !.values.user = u, !.destroy = FALSE, !.dirty = TRUE]

SetCsrf(s, c) ==
    [s EXCEPT !.values.csrf = c, !.destroy = FALSE, !.dirty = TRUE]

SetFlash(s, m) ==
    [s EXCEPT !.values.flash = m, !.destroy = FALSE, !.dirty = TRUE]

SetApp(s, k, v) ==
    [s EXCEPT !.values.app[k] = v, !.destroy = FALSE, !.dirty = TRUE]

\* Mutant: the deletion is not noticed by the commit.
DeleteFlashUnsaved(s) == [s EXCEPT !.values.flash = None]

\* session_delete marks the session dirty only if the key was there.
DeleteFlash(s) ==
    IF s.values.flash = None THEN s
    ELSE [s EXCEPT !.values.flash = None, !.dirty = TRUE]

DeleteApp(s, k) ==
    IF s.values.app[k] = None THEN s
    ELSE [s EXCEPT !.values.app[k] = None, !.dirty = TRUE]

Clear(s) == [s EXCEPT !.values = EmptyData, !.dirty = TRUE]

Regenerate(s) == [s EXCEPT !.regenerate = TRUE, !.dirty = TRUE]

\* Mutant: the next commit stores under the destroyed token again.
DestroyedKeepsToken(s) ==
    [s EXCEPT !.values = EmptyData, !.destroy = TRUE, !.dirty = FALSE, !.exists = FALSE]

\* session_destroy keeps the token: regenerate makes the next commit replace it.
Destroyed(s) ==
    [s EXCEPT !.values = EmptyData, !.destroy = TRUE, !.regenerate = TRUE,
              !.dirty = FALSE, !.exists = FALSE]

\* Mutant: a sign-in that keeps the token.
LoginKeepsToken(s, u) == SetUser(s, u)

Login(s, u) == SetUser(Regenerate(s), u)

\* session_commit has something to write.
NeedsSave(s) == s.loaded /\ s.dirty /\ ~s.destroy

\* The commit deletes the row of the token it is about to replace.
ReplacesRow(s) == s.regenerate /\ s.token # None

\* Mutant: a generator that may repeat itself.
CommitTokensRepeat(s) ==
    IF s.token = None \/ s.regenerate THEN Tokens ELSE {s.token}

\* Tokens under which the commit may store: the session's own, or a fresh one.
CommitTokens(s) ==
    IF s.token = None \/ s.regenerate THEN {t \in Tokens : tokenFor[t] = None} ELSE {s.token}

Entries(d) ==
    Cardinality({k \in {"user", "csrf", "flash"} : d[k] # None})
      + Cardinality({k \in AppKeys : d.app[k] # None})

\* session_serialize stays within SESSION_MAX_BYTES.
Fits(d) == Entries(d) <= MaxEntries

----------------------------------------------------------------------------
(* Steps of a child process (ceasy_handle_client and what it calls).       *)

Goto(r, l) == pc' = [pc EXCEPT ![r] = l]

SetSess(r, s) == sess' = [sess EXCEPT ![r] = s]

\* The child meets a failure of kind f.
Fault(r, f) == f \in Faults /\ faulted' = faulted \cup {r}

\* A send: go on at l when it has succeeded or failed.
StartSend(r, l) == Goto(r, "send") /\ after' = [after EXCEPT ![r] = l]

Active == {r \in Requests : pc[r] \notin {"idle", "done"}}

\* A connection is accepted and its request parsed; an unsafe request with a
\* form body goes to csrf_verify, any other straight to the router.  f is the
\* form's _csrf field: a token that any page ever carried, or nothing.
Begin(r, c, m, l, f) ==
    /\ pc[r] = "idle"
    /\ Cardinality(Active) < MaxOverlap
    /\ m = "GET" => l = "dispatch"
    /\ f # None => l = "verify" /\ csrfFor[f] # None
    /\ Goto(r, l)
    /\ client' = [client EXCEPT ![r] = c]
    /\ method' = [method EXCEPT ![r] = m]
    /\ cookie' = [cookie EXCEPT ![r] = jar[c]]
    /\ form' = [form EXCEPT ![r] = f]
    /\ UNCHANGED <<table, now, world, after, sess, response, calls, drawn, seen, faulted>>

\* 400 or 413 for what cannot be parsed, 500 when the database cannot be opened:
\* a send with the session untouched.
BeginRefused(r, c) ==
    /\ pc[r] = "idle"
    /\ Cardinality(Active) < MaxOverlap
    /\ StartSend(r, "close")
    /\ client' = [client EXCEPT ![r] = c]
    /\ cookie' = [cookie EXCEPT ![r] = jar[c]]
    /\ UNCHANGED <<table, now, world, method, form, sess, response, calls, drawn, seen, faulted>>

\* The server's fork fails, or the child's arena_init: the connection is closed.
ForkFails(r) ==
    /\ pc[r] = "idle"
    /\ "mem" \in Faults
    /\ Goto(r, "done")
    /\ UNCHANGED <<table, now, world, after, req, sess, response, calls, drawn, seen, faulted>>

----------------------------------------------------------------------------
(* session_load, run by the first call that needs the session.             *)

Row(r) == IF cookie[r] = None THEN None ELSE sessions[cookie[r]]

Live(row) == row.expires > now

Loaded(s, d, t, e) ==
    [s EXCEPT !.loaded = TRUE, !.values = d, !.token = t, !.exists = e]

\* What a deserialization that runs out of memory leaves in the map.
Parts(d) ==
    {p \in Data : /\ \A f \in {"user", "csrf", "flash"} : p[f] \in {None, d[f]}
                  /\ \A k \in AppKeys : p.app[k] \in {None, d.app[k]}}

Loading(r) ==
    /\ pc[r] \in {"verify", "handler"}
    /\ ~sess[r].loaded
    /\ UNCHANGED <<table, now, world, req, response, calls, drawn, seen>>

LoadMiss(r) ==
    /\ Loading(r)
    /\ Row(r) = None
    /\ SetSess(r, Loaded(sess[r], EmptyData, None, FALSE))
    /\ UNCHANGED <<pc, after, faulted>>

LoadRow(r) ==
    /\ Loading(r)
    /\ Row(r) # None
    /\ Live(Row(r))
    /\ SetSess(r, Loaded(sess[r], Row(r).data, cookie[r], TRUE))
    /\ UNCHANGED <<pc, after, faulted>>

\* An expired row, or one whose deserialization fails, is deleted; what was
\* deserialized stays.
LoadStale(r) ==
    /\ Loading(r)
    /\ Row(r) # None
    /\ \/ /\ ~Live(Row(r))
          /\ SetSess(r, Loaded(sess[r], EmptyData, None, FALSE))
          /\ UNCHANGED faulted
       \/ /\ Live(Row(r))
          /\ Fault(r, "load")
          /\ \E d \in Parts(Row(r).data) :
                SetSess(r, Loaded(sess[r], d, None, FALSE))
    /\ Goto(r, "reap")
    /\ after' = [after EXCEPT ![r] = pc[r]]

\* The SELECT fails, or the copy of the cookie's token: the call fails, yet the
\* session counts as loaded from then on.
LoadFails(r) ==
    /\ Loading(r)
    /\ \/ /\ cookie[r] # None
          /\ Fault(r, "db")
          /\ SetSess(r, Loaded(sess[r], EmptyData, None, FALSE))
       \/ /\ Row(r) # None
          /\ Live(Row(r))
          /\ Fault(r, "load")
          /\ SetSess(r, Loaded(sess[r], Row(r).data, None, TRUE))
    /\ UNCHANGED <<pc, after>>

\* The DELETE of a stale row, by token; its failure is ignored.
Reap(r) ==
    /\ pc[r] = "reap"
    /\ \/ /\ sessions' = [sessions EXCEPT ![cookie[r]] = None]
          /\ UNCHANGED faulted
       \/ /\ Fault(r, "db")
          /\ UNCHANGED sessions
    /\ Goto(r, after[r])
    /\ UNCHANGED <<now, world, after, req, sess, response, calls, drawn, owner, destroyed, seen>>

----------------------------------------------------------------------------
(* csrf_verify and the router.                                             *)

\* The session's csrf token, drawn if it has none; None if that fails.
ExpectedCsrf(r) ==
    IF sess[r].values.csrf # None THEN {sess[r].values.csrf}
    ELSE {c \in CsrfTokens : csrfFor[c] = None}

\* csrf_token: the new session, and the token as drawn for this browser.
HasCsrf(r, c) ==
    /\ SetSess(r, IF sess[r].values.csrf = c THEN sess[r] ELSE SetCsrf(sess[r], c))
    /\ csrfFor' = [csrfFor EXCEPT ![c] = IF @ = None THEN client[r] ELSE @]
    /\ UNCHANGED <<tokenFor, faulted>>

\* No csrf token can be had: out of memory (or of the model's tokens).
NoCsrf(r) ==
    /\ sess[r].values.csrf = None
    /\ "mem" \in Faults \/ ExpectedCsrf(r) = {}
    /\ faulted' = faulted \cup {r}
    /\ UNCHANGED <<sess, drawn>>

\* Mutant: the lengths are not compared, so that an empty token matches any.
MatchesPrefix(expected, presented) == expected # None /\ presented \in {None, expected}

Matches(expected, presented) == expected # None /\ expected = presented

CsrfVerify(r) ==
    /\ pc[r] = "verify"
    /\ sess[r].loaded
    /\ \E expected \in ExpectedCsrf(r) \cup {None} :
          /\ \/ expected = None /\ NoCsrf(r)
             \/ expected # None /\ HasCsrf(r, expected)
          /\ IF Matches(expected, form[r])
             THEN Goto(r, "dispatch") /\ UNCHANGED after
             ELSE StartSend(r, "close")
    /\ form' = [form EXCEPT ![r] = None]
    /\ UNCHANGED <<table, now, world, client, method, cookie, response, calls, seen>>

\* router_dispatch: a route's handler runs, or one response is sent (405, 404, 500
\* if the path cannot be copied), or no route has the path: then a GET may name
\* an asset, and nothing is sent for another method.
Dispatch(r) ==
    /\ pc[r] = "dispatch"
    /\ \/ Goto(r, "handler") /\ UNCHANGED after
       \/ StartSend(r, "close")
       \/ method[r] = "GET" /\ StartSend(r, "asset")
       \/ method[r] # "GET" /\ Goto(r, "unrouted") /\ UNCHANGED after
    /\ UNCHANGED <<table, now, world, req, sess, response, calls, drawn, seen, faulted>>

----------------------------------------------------------------------------
(* Calls of an application handler.                                        *)

Calling(r) ==
    /\ pc[r] = "handler"
    /\ calls[r] < MaxCalls
    /\ calls' = [calls EXCEPT ![r] = @ + 1]
    /\ UNCHANGED <<now, world, req, sent, tokenFor>>

\* A call that changes nothing but the session in memory, to s.
InMemory(r, s) ==
    /\ Calling(r)
    /\ sess[r].loaded
    /\ SetSess(r, s)
    /\ UNCHANGED <<table, pc, after, setCookie, csrfFor, faulted>>

session_set(r, k, v) == InMemory(r, SetApp(sess[r], k, v)) /\ UNCHANGED seen

session_delete(r, k) == InMemory(r, DeleteApp(sess[r], k)) /\ UNCHANGED seen

session_clear(r) == InMemory(r, Clear(sess[r])) /\ UNCHANGED seen

session_regenerate(r) == InMemory(r, Regenerate(sess[r])) /\ UNCHANGED seen

auth_login(r, u) == InMemory(r, Login(sess[r], u)) /\ UNCHANGED seen

flash_set(r) == InMemory(r, SetFlash(sess[r], <<r, calls[r]>>)) /\ UNCHANGED seen

\* The message can still be shown only if the response is not out yet.
flash_get(r) ==
    /\ sess[r].values.flash # None
    /\ InMemory(r, DeleteFlash(sess[r]))
    /\ seen' = IF sent[r] THEN seen
               ELSE [seen EXCEPT ![r] = @ \cup {sess[r].values.flash}]

csrf_token(r) ==
    /\ Calling(r)
    /\ sess[r].loaded
    /\ sess[r].values.csrf = None
    /\ \/ \E c \in ExpectedCsrf(r) : HasCsrf(r, c)
       \/ NoCsrf(r)
    /\ UNCHANGED <<table, pc, after, setCookie, seen>>

\* The DELETE of the session's row, if it has one.
DeleteRow(r) ==
    sessions' = IF sess[r].token = None THEN sessions
                ELSE [sessions EXCEPT ![sess[r].token] = None]

\* auth_logout is session_destroy.  The DELETE may fail, and then nothing has
\* changed; that the deletion of the cookie may fail is ignored.
session_destroy(r) ==
    /\ Calling(r)
    /\ sess[r].loaded
    /\ \/ /\ DeleteRow(r)
          /\ SetSess(r, Destroyed(sess[r]))
          /\ destroyed' = destroyed \cup ({sess[r].token} \ {None})
          /\ \/ setCookie' = [setCookie EXCEPT ![r] = None] /\ UNCHANGED faulted
             \/ Fault(r, "mem") /\ UNCHANGED setCookie
       \/ /\ sess[r].token # None
          /\ Fault(r, "db")
          /\ UNCHANGED <<sessions, destroyed, sess, setCookie>>
    /\ UNCHANGED <<pc, after, csrfFor, owner, seen>>

\* context_send_* and context_redirect.
context_send(r) ==
    /\ ~sent[r]
    /\ Calling(r)
    /\ StartSend(r, "handler")
    /\ UNCHANGED <<table, sess, setCookie, csrfFor, seen, faulted>>

\* Mutant: no 204 for a handler that has sent nothing.
HandlerReturnSilent(r) ==
    /\ pc[r] \in {"handler", "asset"}
    /\ Goto(r, "close")
    /\ UNCHANGED <<table, now, world, after, req, sess, response, calls, drawn, seen, faulted>>

\* The handler returns, or asset_serve; ceasy_handle_client answers, 204 or 404,
\* if nothing was sent.
HandlerReturn(r) ==
    /\ pc[r] \in {"handler", "asset"}
    /\ IF sent[r] THEN Goto(r, "close") /\ UNCHANGED after
                  ELSE StartSend(r, "close")
    /\ UNCHANGED <<table, now, world, req, sess, response, calls, drawn, seen, faulted>>

----------------------------------------------------------------------------
(* session_commit, then the bytes of the response.                         *)

\* Mutant: the send is tried again until it succeeds.
SendRetries(r) == Goto(r, "send") /\ UNCHANGED after

\* The send returns false.
SendFails(r) == Goto(r, after[r]) /\ UNCHANGED after

Committing(r) ==
    UNCHANGED <<now, world, after, req, sent, calls, csrfFor, destroyed, seen>>

CommitSkip(r) ==
    /\ pc[r] = "send"
    /\ ~NeedsSave(sess[r])
    /\ Goto(r, "transmit")
    /\ Committing(r)
    /\ UNCHANGED <<sessions, owner, sess, setCookie, tokenFor, faulted>>

\* The row of the token to be replaced is deleted, in a statement of its own.
CommitDelete(r) ==
    /\ pc[r] = "send"
    /\ NeedsSave(sess[r])
    /\ ReplacesRow(sess[r])
    /\ \/ DeleteRow(r) /\ Goto(r, "insert") /\ UNCHANGED faulted
       \/ Fault(r, "db") /\ SendFails(r) /\ UNCHANGED sessions
    /\ Committing(r)
    /\ UNCHANGED <<owner, sess, setCookie, tokenFor>>

AtInsert(r) ==
    \/ pc[r] = "insert"
    \/ pc[r] = "send" /\ NeedsSave(sess[r]) /\ ~ReplacesRow(sess[r])

\* The token to store under, drawn for this browser if it is a new one.
TakeToken(r, t) ==
    /\ t \in CommitTokens(sess[r])
    /\ tokenFor' = [tokenFor EXCEPT ![t] = IF @ = None THEN client[r] ELSE @]

WithToken(s, t) == [s EXCEPT !.token = t]

Saved(s, t) ==
    [s EXCEPT !.token = t, !.exists = TRUE, !.dirty = FALSE, !.regenerate = FALSE]

\* No token can be drawn: out of memory (or of the model's tokens).  The failed
\* copy has taken the old token's place.
CommitNoToken(r) ==
    /\ AtInsert(r)
    /\ sess[r].token = None \/ sess[r].regenerate
    /\ "mem" \in Faults \/ CommitTokens(sess[r]) = {}
    /\ faulted' = faulted \cup {r}
    /\ SetSess(r, WithToken(sess[r], None))
    /\ SendFails(r)
    /\ Committing(r)
    /\ UNCHANGED <<sessions, owner, setCookie, tokenFor>>

\* Mutant: the result of the INSERT is ignored.
CommitIgnoresFailure(r, t) ==
    /\ AtInsert(r)
    /\ TakeToken(r, t)
    /\ Fault(r, "db")
    /\ SetSess(r, Saved(sess[r], t))
    /\ setCookie' = [setCookie EXCEPT ![r] = t]
    /\ Goto(r, "transmit")
    /\ Committing(r)
    /\ UNCHANGED <<sessions, owner>>

\* The session is too large or its INSERT fails: it keeps the new token.
CommitFails(r, t) ==
    /\ AtInsert(r)
    /\ TakeToken(r, t)
    /\ IF Fits(sess[r].values) THEN Fault(r, "db") ELSE faulted' = faulted \cup {r}
    /\ SetSess(r, WithToken(sess[r], t))
    /\ SendFails(r)
    /\ Committing(r)
    /\ UNCHANGED <<sessions, owner, setCookie>>

SetSessionCookie(r, t) == setCookie' = [setCookie EXCEPT ![r] = t]

\* INSERT OR REPLACE under t; the Set-Cookie that follows may find no room, and
\* then the session stays to be saved.
Commit(r, t) ==
    /\ AtInsert(r)
    /\ TakeToken(r, t)
    /\ Fits(sess[r].values)
    /\ sessions' = [sessions EXCEPT ![t] =
                      [data |-> sess[r].values, expires |-> now + TTL]]
    /\ owner' = [owner EXCEPT ![t] = IF @ = Unset THEN sess[r].values.user ELSE @]
    /\ \/ /\ SetSess(r, Saved(sess[r], t))
          /\ SetSessionCookie(r, t)
          /\ Goto(r, "transmit")
          /\ UNCHANGED faulted
       \/ /\ Fault(r, "mem")
          /\ SetSess(r, WithToken(sess[r], t))
          /\ SendFails(r)
          /\ UNCHANGED setCookie
    /\ Committing(r)

\* Mutant: a response without Set-Cookie clobbers the cookie.
JarAfterAlways(r) == [jar EXCEPT ![client[r]] = setCookie[r]]

\* What the browser makes of the response's Set-Cookie.
JarAfter(r) ==
    IF setCookie[r] = Unset THEN jar
    ELSE [jar EXCEPT ![client[r]] = setCookie[r]]

\* The response arrives, is lost on the way although every send succeeded, or
\* cannot be written, or only its header can.
Transmit(r) ==
    /\ pc[r] = "transmit"
    /\ \/ /\ sent' = [sent EXCEPT ![r] = TRUE]
          /\ jar' = JarAfter(r)
          /\ delivered' = delivered \cup {r}
          /\ UNCHANGED faulted
       \/ /\ Fault(r, "net")
          /\ sent' = [sent EXCEPT ![r] = TRUE]
          /\ UNCHANGED world
       \/ /\ Fault(r, "net")
          /\ jar' \in {jar, JarAfter(r)}
          /\ UNCHANGED <<sent, delivered>>
    /\ Goto(r, after[r])
    /\ UNCHANGED <<table, now, after, req, sess, setCookie, calls, drawn, seen>>

\* The child is gone and its memory with it.
Exit(r) ==
    /\ Goto(r, "done")
    /\ after' = [after EXCEPT ![r] = "close"]
    /\ method' = [method EXCEPT ![r] = "GET"]
    /\ cookie' = [cookie EXCEPT ![r] = None]
    /\ form' = [form EXCEPT ![r] = None]
    /\ SetSess(r, NewSession)
    /\ setCookie' = [setCookie EXCEPT ![r] = Unset]
    /\ sent' = [sent EXCEPT ![r] = FALSE]
    /\ calls' = [calls EXCEPT ![r] = 0]
    /\ seen' = IF r \in delivered THEN seen ELSE [seen EXCEPT ![r] = {}]
    /\ delivered' = delivered \ {r}
    /\ faulted' = faulted \ {r}
    /\ UNCHANGED <<table, now, jar, client, drawn>>

\* database_close, arena_destroy, close and _exit.
Close(r) == pc[r] \in {"close", "unrouted"} /\ Exit(r)

----------------------------------------------------------------------------
(* The environment.                                                        *)

\* The child is killed, by SIGPIPE for instance.
Crash(r) ==
    /\ pc[r] \notin {"idle", "done"}
    /\ "crash" \in Faults
    /\ Exit(r)

Tick ==
    /\ now < MaxTime
    /\ now' = now + 1
    /\ UNCHANGED <<table, world, pc, after, req, sess, response, calls, drawn, seen, faulted>>

\* The command-line tool's sessions cleanup.
sessions_cleanup ==
    /\ \E t \in Tokens : sessions[t] # None /\ ~Live(sessions[t])
    /\ sessions' = [t \in Tokens |->
                      IF sessions[t] # None /\ ~Live(sessions[t]) THEN None
                      ELSE sessions[t]]
    /\ UNCHANGED <<now, world, pc, after, req, sess, response, calls, drawn, owner,
                   destroyed, seen, faulted>>

----------------------------------------------------------------------------

Load(r) == LoadMiss(r) \/ LoadRow(r) \/ LoadStale(r) \/ LoadFails(r) \/ Reap(r)

Call(r) ==
    \/ \E k \in AppKeys : session_delete(r, k) \/ \E v \in AppValues : session_set(r, k, v)
    \/ session_clear(r) \/ session_regenerate(r) \/ session_destroy(r)
    \/ \E u \in Users : auth_login(r, u)
    \/ flash_set(r) \/ flash_get(r) \/ csrf_token(r) \/ context_send(r)

Send(r) ==
    \/ CommitSkip(r) \/ CommitDelete(r) \/ CommitNoToken(r)
    \/ \E t \in Tokens : CommitFails(r, t) \/ Commit(r, t)
    \/ Transmit(r)

\* What a child does by itself once it runs.
Step(r) ==
    \/ Load(r) \/ CsrfVerify(r) \/ Dispatch(r) \/ Call(r) \/ HandlerReturn(r)
    \/ Send(r) \/ Close(r)

Start(r) ==
    \/ \E c \in Clients :
          \/ \E m \in {"GET", "POST"}, l \in {"verify", "dispatch"}, f \in CsrfTokens \cup {None} :
                Begin(r, c, m, l, f)
          \/ BeginRefused(r, c)
    \/ ForkFails(r)

Next ==
    \/ \E r \in Requests : Start(r) \/ Step(r) \/ Crash(r)
    \/ Tick
    \/ sessions_cleanup

Spec == Init /\ [][Next]_vars

\* A child that can run does: the kernel schedules it, its statements and sends
\* return, and handlers return.
FairSpec == Spec /\ \A r \in Requests : WF_vars(Step(r))

----------------------------------------------------------------------------
(* Properties.                                                             *)

\* A token never changes hands: the session stored under it is signed in, if at
\* all, as the user it was signed in as when the token was first stored.  So a
\* token handed out before auth_login never becomes a signed-in one, whatever
\* concurrent requests, failures and retries do (session_commit, auth_login).
TokenIdentity ==
    \A t \in Tokens :
        sessions[t] # None => sessions[t].data.user \in {None, owner[t]}

\* TokenIdentity is not inductive.  It needs that a token that was not drawn is
\* nowhere in use, that a token drawn but not yet stored is held by one child
\* only, and that a child's session is the token owner's unless it is about to be
\* given another token.
ActiveClient == \A r \in Active : client[r] \in Clients

FreshTokens ==
    \A t \in Tokens :
        tokenFor[t] = None => /\ sessions[t] = None
                              /\ owner[t] = Unset
                              /\ \A r \in Requests : sess[r].token # t

RowsOwned ==
    \A t \in Tokens :
        sessions[t] # None => /\ owner[t] # Unset
                              /\ sessions[t].data.user \in {None, owner[t]}

HeldByOwner ==
    \A r \in Requests :
        /\ sess[r].token # None
        /\ ~sess[r].regenerate
        /\ sess[r].values.user # None
        => owner[sess[r].token] \in {Unset, sess[r].values.user}

OneHolder ==
    \A r, q \in Requests :
        /\ sess[r].token # None
        /\ sess[r].token = sess[q].token
        /\ owner[sess[r].token] = Unset
        => r = q

CookiesKnown ==
    /\ \A c \in Clients : jar[c] # None => owner[jar[c]] # Unset
    /\ \A r \in Requests : setCookie[r] \in Tokens => owner[setCookie[r]] # Unset

IdentityInv ==
    /\ ActiveClient
    /\ FreshTokens
    /\ RowsOwned
    /\ HeldByOwner
    /\ OneHolder
    /\ CookiesKnown

\* Whatever a child holds of a session, or a browser's cookie names, was made
\* for the browser it serves: token, csrf token and flash message never cross
\* from one browser to another (session_load, session_generate_token, csrf_token).
ClientIsolation ==
    /\ \A c \in Clients : jar[c] # None => tokenFor[jar[c]] = c
    /\ \A r \in Requests :
          /\ sess[r].token # None => tokenFor[sess[r].token] = client[r]
          /\ sess[r].values.csrf # None => csrfFor[sess[r].values.csrf] = client[r]
          /\ sess[r].values.flash # None => client[sess[r].values.flash[1]] = client[r]

\* A browser is never given a token under which nothing was ever stored, however
\* the INSERT and the Set-Cookie of session_commit fail.
CookieStored ==
    \A c \in Clients : jar[c] # None => owner[jar[c]] # Unset

\* A form passes csrf_verify only if what it presents is the csrf token that the
\* session its cookie names already held, and that was drawn for its own browser;
\* in particular not with nothing, nor with the token that csrf_verify draws
\* itself when there is none.
CsrfBinding ==
    [][\A r \in Requests :
          pc[r] = "verify" /\ pc'[r] = "dispatch" =>
             /\ form[r] # None
             /\ form[r] = sess[r].values.csrf
             /\ csrfFor[form[r]] = client[r]]_vars

\* Once session_destroy has deleted a session's row, nothing is stored under its
\* token again, not even by the rest of the same request.
LogoutIsFinal == \A t \in destroyed : sessions[t] = None

\* What sessions_destroy of the posts example tells its user, "You have been
\* signed out.": after a successful auth_logout the token signs no one in.
SignedOut ==
    \A t \in destroyed : sessions[t] # None => sessions[t].data.user = None

\* A flash message is shown on at most one page: flash_get's deletion is saved
\* before the page that shows the message goes out.
Shown(r) == IF pc[r] = "done" \/ r \in delivered THEN seen[r] ELSE {}

FlashAtMostOnce ==
    \A r \in Requests, q \in Requests : r # q => Shown(r) \cap Shown(q) = {}

\* Every connection is answered before it is closed, unless a failure was met; only
\* what router_dispatch finds no route for, and is not a GET, is closed unanswered
\* (ceasy_handle_client).
AnsweredUnlessFault ==
    \A r \in Requests :
        /\ pc[r] = "close" /\ ~sent[r] => r \in faulted
        /\ pc[r] = "unrouted" => method[r] # "GET"

\* Every connection that is accepted is closed in the end (close in
\* ceasy_handle_client), whichever way its send, commit and handler go.
EveryRequestEnds == \A r \in Requests : r \in Active ~> pc[r] = "done"

============================================================================
