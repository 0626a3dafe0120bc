--------------------------- MODULE SessionProofs ---------------------------
(* Theorems about Session, for any number of requests, browsers, tokens. *)
EXTENDS Session, FiniteSetTheorems, TLAPS

\* The session operators stay within the session records.
LEMMA DataTypes ==
    /\ EmptyData \in Data
    /\ NewSession \in SessionRecords
  BY DEF EmptyData, Data, NewSession, SessionRecords

\* Storing a value (session_set_*) keeps the session record in its type.
LEMMA SetTypes ==
    ASSUME NEW s \in SessionRecords
    PROVE  /\ \A u \in Users : SetUser(s, u) \in SessionRecords
           /\ \A c \in CsrfTokens : SetCsrf(s, c) \in SessionRecords
           /\ \A m \in Messages : SetFlash(s, m) \in SessionRecords
           /\ \A k \in AppKeys, v \in AppValues : SetApp(s, k, v) \in SessionRecords
           /\ DeleteFlash(s) \in SessionRecords
           /\ \A k \in AppKeys : DeleteApp(s, k) \in SessionRecords
<1>1. /\ \A u \in Users : SetUser(s, u) \in SessionRecords
      /\ \A c \in CsrfTokens : SetCsrf(s, c) \in SessionRecords
  BY DEF SetUser, SetCsrf, SessionRecords, Data
<1>2. \A m \in Messages : SetFlash(s, m) \in SessionRecords
  BY DEF SetFlash, SessionRecords, Data
<1>3. \A k \in AppKeys, v \in AppValues : SetApp(s, k, v) \in SessionRecords
  BY DEF SetApp, SessionRecords, Data
<1>4. DeleteFlash(s) \in SessionRecords
  BY DEF DeleteFlash, SessionRecords, Data
<1>5. \A k \in AppKeys : DeleteApp(s, k) \in SessionRecords
  BY DEF DeleteApp, SessionRecords, Data
<1> QED
  BY <1>1, <1>2, <1>3, <1>4, <1>5

\* So do deleting, clearing, regenerating, destroying and a commit.
LEMMA FlagTypes ==
    ASSUME NEW s \in SessionRecords
    PROVE  /\ Clear(s) \in SessionRecords
           /\ Regenerate(s) \in SessionRecords
           /\ Destroyed(s) \in SessionRecords
           /\ \A t \in Tokens \cup {None} : WithToken(s, t) \in SessionRecords
           /\ \A t \in Tokens : Saved(s, t) \in SessionRecords
           /\ \A d \in Data, t \in Tokens \cup {None}, e \in BOOLEAN :
                 Loaded(s, d, t, e) \in SessionRecords
  BY DataTypes DEF Clear, Regenerate, Destroyed, WithToken, Saved, Loaded, SessionRecords

\* So does auth_login, which sets the user and asks for a new token.
LEMMA LoginType ==
    ASSUME NEW s \in SessionRecords, NEW u \in Users
    PROVE  Login(s, u) \in SessionRecords
  BY FlagTypes, SetTypes DEF Login

\* The steps that only move a child, or start it, keep the types.
LEMMA MoveTypes ==
    ASSUME TypeOK, NEW r \in Requests,
           \/ \E c \in Clients :
                 \/ \E m \in {"GET", "POST"}, l \in {"verify", "dispatch"}, f \in CsrfTokens \cup {None} :
                       Begin(r, c, m, l, f)
                 \/ BeginRefused(r, c)
           \/ ForkFails(r) \/ Dispatch(r) \/ HandlerReturn(r) \/ CommitSkip(r)
           \/ CommitNoToken(r)
    PROVE  TypeOK'
<1>1. ASSUME NEW c \in Clients, NEW m \in {"GET", "POST"},
             NEW l \in {"verify", "dispatch"}, NEW f \in CsrfTokens \cup {None},
             Begin(r, c, m, l, f)
      PROVE  TypeOK'
  BY <1>1 DEF TypeOK, Begin, Goto, PCs, table, drawn, response, world
<1>2. ASSUME NEW c \in Clients, BeginRefused(r, c)
      PROVE  TypeOK'
  BY <1>2 DEF TypeOK, BeginRefused, StartSend, Goto, PCs, table, drawn, response, world
<1>3. CASE ForkFails(r)
  BY <1>3 DEF TypeOK, ForkFails, Fault, Goto, PCs, table, drawn, req, response, world
<1>4. CASE Dispatch(r)
  BY <1>4 DEF TypeOK, Dispatch, StartSend, Goto, PCs, table, drawn, req, response, world
<1>5. CASE HandlerReturn(r)
  BY <1>5 DEF TypeOK, HandlerReturn, StartSend, Goto, PCs, table, drawn, req, response, world
<1>6. CASE CommitSkip(r)
  BY <1>6 DEF TypeOK, CommitSkip, Committing, Goto, PCs, req, world
<1>7. CASE CommitNoToken(r)
  <2>1. WithToken(sess[r], None) \in SessionRecords
    BY FlagTypes DEF TypeOK
  <2> QED
    BY <1>7, <2>1 DEF TypeOK, CommitNoToken, Committing, SendFails, SetSess, Goto, req, world
<1> QED
  BY <1>1, <1>2, <1>3, <1>4, <1>5, <1>6, <1>7

\* A child that ends, by itself or killed, leaves every variable in its type.
LEMMA ExitTypes ==
    ASSUME TypeOK, NEW r \in Requests, Close(r) \/ Crash(r)
    PROVE  TypeOK'
<1>1. Exit(r) /\ faulted' \subseteq Requests
  BY DEF Close, Crash, Exit, TypeOK
<1>2. calls' \in [Requests -> 0 .. MaxCalls]
  BY <1>1, SessionAssumption DEF TypeOK, Exit
<1>3. sess' \in [Requests -> SessionRecords]
  BY <1>1, DataTypes DEF TypeOK, Exit, SetSess
<1> QED
  BY <1>1, <1>2, <1>3 DEF TypeOK, Exit, Goto, PCs, table, drawn, world

\* A row a child reads holds data.
LEMMA RowType ==
    ASSUME TypeOK, NEW r \in Requests, Row(r) # None
    PROVE  /\ cookie[r] \in Tokens
           /\ Row(r) = sessions[cookie[r]]
           /\ Row(r) \in Rows
           /\ Row(r).data \in Data
  BY DEF TypeOK, Row, Rows

\* session_load, however it ends, keeps the types.
LEMMA LoadTypes ==
    ASSUME TypeOK, NEW r \in Requests, Load(r)
    PROVE  TypeOK'
<1>s. sess[r] \in SessionRecords
  BY DEF TypeOK
<1>1. CASE LoadMiss(r)
  <2>1. Loaded(sess[r], EmptyData, None, FALSE) \in SessionRecords
    BY <1>s, FlagTypes, DataTypes
  <2> QED
    BY <1>1, <2>1 DEF TypeOK, LoadMiss, Loading, SetSess, table, drawn, req, response, world
<1>2. CASE LoadRow(r)
  <2>1. Loaded(sess[r], Row(r).data, cookie[r], TRUE) \in SessionRecords
    BY <1>2, <1>s, FlagTypes, RowType DEF LoadRow
  <2> QED
    BY <1>2, <2>1 DEF TypeOK, LoadRow, Loading, SetSess, table, drawn, req, response, world
<1>3. CASE LoadStale(r)
  <2>1. PICK d \in Data : SetSess(r, Loaded(sess[r], d, None, FALSE))
    BY <1>3, DataTypes DEF LoadStale, Parts
  <2>2. Loaded(sess[r], d, None, FALSE) \in SessionRecords
    BY <1>s, FlagTypes
  <2>3. faulted' \subseteq Requests
    BY <1>3 DEF LoadStale, Fault, TypeOK
  <2> QED
    BY <1>3, <2>1, <2>2, <2>3
    DEF TypeOK, LoadStale, Loading, SetSess, Goto, PCs, table, drawn, req, response, world
<1>4. CASE LoadFails(r)
  <2>1. PICK d \in Data, e \in BOOLEAN : SetSess(r, Loaded(sess[r], d, None, e))
    BY <1>4, DataTypes, RowType DEF LoadFails
  <2>2. Loaded(sess[r], d, None, e) \in SessionRecords
    BY <1>s, FlagTypes
  <2> QED
    BY <1>4, <2>1, <2>2
    DEF TypeOK, LoadFails, Fault, Loading, SetSess, table, drawn, req, response, world
<1>5. CASE Reap(r)
  BY <1>5 DEF TypeOK, Reap, Fault, Goto, drawn, req, response, world
<1> QED
  BY <1>1, <1>2, <1>3, <1>4, <1>5 DEF Load

\* Drawing a csrf token, or failing to.
LEMMA CsrfTypes ==
    ASSUME TypeOK, NEW r \in Requests,
           NoCsrf(r) \/ \E c \in ExpectedCsrf(r) : HasCsrf(r, c)
    PROVE  /\ sess' \in [Requests -> SessionRecords]
           /\ csrfFor' \in [CsrfTokens -> Clients \cup {None}]
           /\ UNCHANGED tokenFor
           /\ faulted' \subseteq Requests
<1>1. CASE NoCsrf(r)
  BY <1>1 DEF NoCsrf, TypeOK, drawn
<1>2. ASSUME NEW c \in ExpectedCsrf(r), HasCsrf(r, c)
      PROVE  /\ sess' \in [Requests -> SessionRecords]
             /\ csrfFor' \in [CsrfTokens -> Clients \cup {None}]
             /\ UNCHANGED tokenFor
             /\ faulted' \subseteq Requests
  <2>1. sess[r] \in SessionRecords
    BY DEF TypeOK
  <2>2. c \in CsrfTokens
    BY <2>1 DEF ExpectedCsrf, SessionRecords, Data
  <2>3. SetCsrf(sess[r], c) \in SessionRecords
    BY <2>1, <2>2, SetTypes
  <2> QED
    BY <1>2, <2>1, <2>2, <2>3 DEF HasCsrf, SetSess, TypeOK
<1> QED
  BY <1>1, <1>2

\* csrf_verify keeps the types.
LEMMA VerifyTypes ==
    ASSUME TypeOK, NEW r \in Requests, CsrfVerify(r)
    PROVE  TypeOK'
<1>1. NoCsrf(r) \/ \E c \in ExpectedCsrf(r) : HasCsrf(r, c)
  BY DEF CsrfVerify
<1>2. pc' \in [Requests -> PCs] /\ after' \in [Requests -> PCs]
  BY DEF CsrfVerify, Goto, StartSend, TypeOK, PCs
<1>3. form' \in [Requests -> CsrfTokens \cup {None}]
  BY DEF CsrfVerify, TypeOK
<1> QED
  BY <1>1, <1>2, <1>3, CsrfTypes DEF CsrfVerify, TypeOK, table, response, world

\* A call counts itself and leaves most of the state alone.
LEMMA CallingTypes ==
    ASSUME TypeOK, NEW r \in Requests, Calling(r)
    PROVE  calls' \in [Requests -> 0 .. MaxCalls]
  BY SessionAssumption DEF Calling, TypeOK

\* A call that changes only the session in memory keeps the types.
LEMMA InMemoryTypes ==
    ASSUME TypeOK, NEW r \in Requests, NEW s \in SessionRecords, InMemory(r, s),
           seen' \in [Requests -> SUBSET Messages]
    PROVE  TypeOK'
<1>1. calls' \in [Requests -> 0 .. MaxCalls]
  BY CallingTypes DEF InMemory
<1> QED
  BY <1>1 DEF InMemory, Calling, SetSess, TypeOK, table, req, world

\* Every call a handler can make keeps the types.
LEMMA CallTypes ==
    ASSUME TypeOK, NEW r \in Requests, Call(r)
    PROVE  TypeOK'
<1>s. sess[r] \in SessionRecords
  BY DEF TypeOK
<1>n. ASSUME UNCHANGED seen
      PROVE  seen' \in [Requests -> SUBSET Messages]
  BY <1>n DEF TypeOK
<1>1. ASSUME NEW k \in AppKeys, session_delete(r, k)
      PROVE  TypeOK'
  BY <1>1, <1>s, <1>n, SetTypes, InMemoryTypes DEF session_delete
<1>2. ASSUME NEW k \in AppKeys, NEW v \in AppValues, session_set(r, k, v)
      PROVE  TypeOK'
  BY <1>2, <1>s, <1>n, SetTypes, InMemoryTypes DEF session_set
<1>3. CASE session_clear(r)
  BY <1>3, <1>s, <1>n, FlagTypes, InMemoryTypes DEF session_clear
<1>4. CASE session_regenerate(r)
  BY <1>4, <1>s, <1>n, FlagTypes, InMemoryTypes DEF session_regenerate
<1>5. ASSUME NEW u \in Users, auth_login(r, u)
      PROVE  TypeOK'
  BY <1>5, <1>s, <1>n, LoginType, InMemoryTypes DEF auth_login
<1>6. CASE flash_set(r)
  <2>1. <<r, calls[r]>> \in Messages
    BY DEF TypeOK, Messages
  <2>2. SetFlash(sess[r], <<r, calls[r]>>) \in SessionRecords
    BY <2>1, <1>s, SetTypes
  <2> QED
    BY <1>6, <2>2, <1>n, InMemoryTypes DEF flash_set
<1>7. CASE flash_get(r)
  <2>1. sess[r].values.flash \in Messages
    BY <1>7, <1>s DEF flash_get, SessionRecords, Data
  <2>2. seen' \in [Requests -> SUBSET Messages]
    BY <1>7, <2>1 DEF flash_get, TypeOK
  <2>3. DeleteFlash(sess[r]) \in SessionRecords
    BY <1>s, SetTypes
  <2> QED
    BY <1>7, <2>2, <2>3, InMemoryTypes DEF flash_get
<1>8. CASE csrf_token(r)
  <2>1. Calling(r) /\ (NoCsrf(r) \/ \E c \in ExpectedCsrf(r) : HasCsrf(r, c))
    BY <1>8 DEF csrf_token
  <2> QED
    BY <1>8, <2>1, CsrfTypes, CallingTypes
    DEF csrf_token, Calling, TypeOK, table, req, world
<1>9. CASE session_destroy(r)
  <2>1. Calling(r)
    BY <1>9 DEF session_destroy
  <2>2. sess' \in [Requests -> SessionRecords]
    BY <1>9, <1>s, FlagTypes DEF session_destroy, SetSess, TypeOK
  <2>3. sessions' \in [Tokens -> Rows \cup {None}]
    BY <1>9, <1>s DEF session_destroy, DeleteRow, TypeOK
  <2>4. destroyed' \subseteq Tokens
    BY <1>9, <1>s DEF session_destroy, TypeOK, SessionRecords
  <2>5. setCookie' \in [Requests -> Tokens \cup {None, Unset}] /\ faulted' \subseteq Requests
    BY <1>9 DEF session_destroy, Fault, TypeOK
  <2> QED
    BY <1>9, <2>1, <2>2, <2>3, <2>4, <2>5, CallingTypes
    DEF session_destroy, Calling, TypeOK, req, world
<1>10. CASE context_send(r)
  <2>1. Calling(r)
    BY <1>10 DEF context_send
  <2> QED
    BY <1>10, <2>1, CallingTypes
    DEF context_send, Calling, StartSend, Goto, TypeOK, PCs, table, req, world
<1> QED
  BY <1>1, <1>2, <1>3, <1>4, <1>5, <1>6, <1>7, <1>8, <1>9, <1>10 DEF Call

\* The token of a commit is a token, and is noted as drawn for a browser.
LEMMA TakeTokenTypes ==
    ASSUME TypeOK, NEW r \in Requests, NEW t \in Tokens, TakeToken(r, t)
    PROVE  tokenFor' \in [Tokens -> Clients \cup {None}]
  BY DEF TypeOK, TakeToken

\* session_commit and the sending of the response keep the types.
LEMMA SendTypes ==
    ASSUME TypeOK, NEW r \in Requests, Send(r)
    PROVE  TypeOK'
<1>s. sess[r] \in SessionRecords
  BY DEF TypeOK
<1>1. CASE CommitSkip(r) \/ CommitNoToken(r)
  BY <1>1, MoveTypes
<1>2. CASE CommitDelete(r)
  <2>1. sessions' \in [Tokens -> Rows \cup {None}]
    BY <1>2 DEF CommitDelete, DeleteRow, TypeOK
  <2>2. pc' \in [Requests -> PCs] /\ faulted' \subseteq Requests
    BY <1>2 DEF CommitDelete, Goto, SendFails, Fault, TypeOK, PCs
  <2> QED
    BY <1>2, <2>1, <2>2 DEF CommitDelete, Committing, TypeOK, req, world
<1>3. ASSUME NEW t \in Tokens, CommitFails(r, t)
      PROVE  TypeOK'
  <2>1. WithToken(sess[r], t) \in SessionRecords
    BY <1>s, FlagTypes
  <2>2. tokenFor' \in [Tokens -> Clients \cup {None}]
    BY <1>3, TakeTokenTypes DEF CommitFails
  <2>3. pc' \in [Requests -> PCs] /\ faulted' \subseteq Requests
    BY <1>3 DEF CommitFails, Goto, SendFails, Fault, TypeOK
  <2> QED
    BY <1>3, <2>1, <2>2, <2>3 DEF CommitFails, Committing, SetSess, TypeOK, req, world
<1>4. ASSUME NEW t \in Tokens, Commit(r, t)
      PROVE  TypeOK'
  <2>1. WithToken(sess[r], t) \in SessionRecords /\ Saved(sess[r], t) \in SessionRecords
    BY <1>s, FlagTypes
  <2>2. tokenFor' \in [Tokens -> Clients \cup {None}]
    BY <1>4, TakeTokenTypes DEF Commit
  <2>3. pc' \in [Requests -> PCs] /\ faulted' \subseteq Requests
    BY <1>4 DEF Commit, Goto, SendFails, Fault, TypeOK, PCs
  <2>4. now + TTL \in 0 .. MaxTime + TTL
    BY SessionAssumption DEF TypeOK
  <2>5. [data |-> sess[r].values, expires |-> now + TTL] \in Rows
    BY <1>s, <2>4 DEF Rows, SessionRecords
  <2>6. sessions' \in [Tokens -> Rows \cup {None}]
    BY <1>4, <2>5 DEF Commit, TypeOK
  <2>7. owner' \in [Tokens -> Users \cup {None, Unset}]
    BY <1>4, <1>s DEF Commit, TypeOK, SessionRecords, Data
  <2>8. sess' \in [Requests -> SessionRecords]
    BY <1>4, <2>1 DEF Commit, SetSess, TypeOK
  <2>9. setCookie' \in [Requests -> Tokens \cup {None, Unset}]
    BY <1>4 DEF Commit, SetSessionCookie, TypeOK
  <2> QED
    BY <1>4, <2>2, <2>3, <2>6, <2>7, <2>8, <2>9 DEF Commit, Committing, TypeOK, req, world
<1>5. CASE Transmit(r)
  <2>1. jar' \in [Clients -> Tokens \cup {None}]
    BY <1>5, SessionAssumption DEF Transmit, JarAfter, TypeOK, world
  <2>2. delivered' \subseteq Requests /\ sent' \in [Requests -> BOOLEAN]
          /\ faulted' \subseteq Requests
    BY <1>5 DEF Transmit, Fault, TypeOK, world
  <2> QED
    BY <1>5, <2>1, <2>2 DEF Transmit, Goto, TypeOK, table, req, drawn
<1> QED
  BY <1>1, <1>2, <1>3, <1>4, <1>5 DEF Send

\* The clock and the cleanup of expired sessions keep the types.
LEMMA EnvironmentTypes ==
    ASSUME TypeOK, Tick \/ sessions_cleanup
    PROVE  TypeOK'
<1>1. CASE Tick
  <2>1. now' \in 0 .. MaxTime
    BY <1>1, SessionAssumption DEF Tick, TypeOK
  <2> QED
    BY <1>1, <2>1 DEF Tick, TypeOK, table, drawn, req, response, world
<1>2. CASE sessions_cleanup
  <2>1. sessions' \in [Tokens -> Rows \cup {None}]
    BY <1>2 DEF sessions_cleanup, TypeOK
  <2> QED
    BY <1>2, <2>1 DEF sessions_cleanup, TypeOK, drawn, req, response, world
<1> QED
  BY <1>1, <1>2

\* The initial state has its type.
LEMMA TypeInit == Init => TypeOK
  BY SessionAssumption, DataTypes DEF Init, TypeOK, PCs

\* Every step keeps the types.
LEMMA TypeStep == TypeOK /\ [Next]_vars => TypeOK'
<1> SUFFICES ASSUME TypeOK, [Next]_vars PROVE TypeOK'
  OBVIOUS
<1>1. CASE UNCHANGED vars
  BY <1>1 DEF vars, TypeOK
<1>2. ASSUME NEW r \in Requests, Start(r) PROVE TypeOK'
  BY <1>2, MoveTypes DEF Start
<1>3. ASSUME NEW r \in Requests, Step(r) PROVE TypeOK'
  BY <1>3, LoadTypes, VerifyTypes, MoveTypes, CallTypes, SendTypes, ExitTypes DEF Step
<1>4. ASSUME NEW r \in Requests, Crash(r) PROVE TypeOK'
  BY <1>4, ExitTypes
<1>5. CASE Tick \/ sessions_cleanup
  BY <1>5, EnvironmentTypes
<1> QED
  BY <1>1, <1>2, <1>3, <1>4, <1>5 DEF Next

\* Every reachable state is well typed: no call, failure or retry leaves a
\* session, a row or a cookie outside its type.
THEOREM TypeCorrect == Spec => []TypeOK
  BY TypeInit, TypeStep, PTL DEF Spec

----------------------------------------------------------------------------
(* TokenIdentity.                                                          *)

\* From session x a step made session y without giving it a token or, unless it
\* is to get another one, a user.
Keeps(x, y) ==
    /\ y.token \in {None, x.token}
    /\ \/ y.token = None \/ y.regenerate \/ y.values.user = None
       \/ ~x.regenerate /\ y.values.user = x.values.user

\* A step that draws no token and stores nothing.
Quiet(r) ==
    /\ UNCHANGED <<owner, tokenFor, jar>>
    /\ \A t \in Tokens : sessions'[t] \in {sessions[t], None}
    /\ \A q \in Requests : setCookie'[q] \in {setCookie[q], None, Unset}
    /\ \A q \in Requests \ {r} : sess'[q] = sess[q]
    /\ Keeps(sess[r], sess'[r])
    /\ ActiveClient'

\* Every request but r keeps its place and its browser.
MovesOnly(r) ==
    /\ \A q \in Requests \ {r} : pc'[q] = pc[q] /\ client'[q] = client[q]
    /\ r \in Active' => client'[r] \in Clients

\* A step that moves one child, and gives it a browser if it is active, keeps
\* ActiveClient.
LEMMA MovesOnlyActive ==
    ASSUME ActiveClient, NEW r \in Requests, MovesOnly(r)
    PROVE  ActiveClient'
  BY DEF ActiveClient, Active, MovesOnly

\* A step that draws no token and stores nothing keeps IdentityInv.
LEMMA QuietStep ==
    ASSUME TypeOK, TypeOK', IdentityInv, NEW r \in Requests, Quiet(r)
    PROVE  IdentityInv'
<1>1. FreshTokens'
  BY SessionAssumption DEF IdentityInv, FreshTokens, Quiet, Keeps
<1>2. RowsOwned'
  BY DEF IdentityInv, RowsOwned, Quiet
<1>3. HeldByOwner'
  BY DEF IdentityInv, HeldByOwner, Quiet, Keeps
<1>4. OneHolder'
  BY DEF IdentityInv, OneHolder, Quiet, Keeps
<1>5. CookiesKnown'
  BY SessionAssumption DEF IdentityInv, CookiesKnown, Quiet
<1> QED
  BY <1>1, <1>2, <1>3, <1>4, <1>5 DEF IdentityInv, Quiet

\* Every operator on sessions keeps the token, gives it up or marks it for
\* replacement before another user is set.
LEMMA KeepsSession ==
    ASSUME NEW x \in SessionRecords
    PROVE  /\ Keeps(x, x)
           /\ Keeps(x, NewSession)
           /\ \A d \in Data, e \in BOOLEAN : Keeps(x, Loaded(x, d, None, e))
           /\ \A u \in Users : Keeps(x, Login(x, u))
           /\ \A c \in CsrfTokens : Keeps(x, SetCsrf(x, c))
           /\ \A m \in Messages : Keeps(x, SetFlash(x, m))
           /\ \A k \in AppKeys, v \in AppValues : Keeps(x, SetApp(x, k, v))
           /\ \A k \in AppKeys : Keeps(x, DeleteApp(x, k))
           /\ Keeps(x, DeleteFlash(x))
           /\ Keeps(x, Clear(x))
           /\ Keeps(x, Regenerate(x))
           /\ Keeps(x, Destroyed(x))
<1>1. Keeps(x, x) /\ Keeps(x, NewSession) /\ Keeps(x, Regenerate(x))
  BY DEF Keeps, NewSession, Regenerate, SessionRecords
<1>2. \A d \in Data, e \in BOOLEAN : Keeps(x, Loaded(x, d, None, e))
  BY DEF Keeps, Loaded, SessionRecords
<1>3. \A u \in Users : Keeps(x, Login(x, u))
  BY DEF Keeps, Login, SetUser, Regenerate, SessionRecords
<1>4. /\ \A c \in CsrfTokens : Keeps(x, SetCsrf(x, c))
      /\ \A m \in Messages : Keeps(x, SetFlash(x, m))
      /\ \A k \in AppKeys, v \in AppValues : Keeps(x, SetApp(x, k, v))
  BY DEF Keeps, SetCsrf, SetFlash, SetApp, SessionRecords, Data
<1>5. Keeps(x, DeleteFlash(x)) /\ \A k \in AppKeys : Keeps(x, DeleteApp(x, k))
  BY DEF Keeps, DeleteFlash, DeleteApp, SessionRecords, Data
<1>6. Keeps(x, Clear(x)) /\ Keeps(x, Destroyed(x))
  BY DEF Keeps, Clear, Destroyed, EmptyData, SessionRecords
<1> QED
  BY <1>1, <1>2, <1>3, <1>4, <1>5, <1>6

\* A commit that finds no token takes the old one from the session, and nothing else.
LEMMA NoTokenSession ==
    ASSUME TypeOK, NEW r \in Requests, CommitNoToken(r)
    PROVE  /\ \A q \in Requests \ {r} : sess'[q] = sess[q]
           /\ sess'[r] = [sess[r] EXCEPT !.token = None]
           /\ sess'[r].token = None
           /\ sess'[r].values = sess[r].values
           /\ sess'[r].loaded = sess[r].loaded
           /\ sess'[r].dirty = sess[r].dirty
           /\ sess'[r].regenerate = sess[r].regenerate
           /\ sess'[r].destroy = sess[r].destroy
<1>1. sess[r] \in SessionRecords
  BY DEF TypeOK
<1>2. /\ \A q \in Requests \ {r} : sess'[q] = sess[q]
      /\ sess'[r] = [sess[r] EXCEPT !.token = None]
  BY DEF CommitNoToken, SetSess, WithToken, TypeOK
<1> QED
  BY <1>1, <1>2 DEF SessionRecords

\* The steps that leave the session in memory alone, or take its token from it.
LEMMA MoveIdentity ==
    ASSUME TypeOK, TypeOK', IdentityInv, NEW r \in Requests,
           \/ \E c \in Clients :
                 \/ \E m \in {"GET", "POST"}, l \in {"verify", "dispatch"}, f \in CsrfTokens \cup {None} :
                       Begin(r, c, m, l, f)
                 \/ BeginRefused(r, c)
           \/ ForkFails(r) \/ Dispatch(r) \/ HandlerReturn(r) \/ CommitSkip(r)
           \/ CommitNoToken(r) \/ CommitDelete(r) \/ Reap(r) \/ context_send(r)
    PROVE  IdentityInv'
<1>1. MovesOnly(r)
  <2>1. ASSUME NEW c \in Clients, NEW m \in {"GET", "POST"},
               NEW l \in {"verify", "dispatch"}, NEW f \in CsrfTokens \cup {None},
               Begin(r, c, m, l, f)
        PROVE  MovesOnly(r)
    BY <2>1 DEF MovesOnly, Begin, Goto, TypeOK
  <2>2. ASSUME NEW c \in Clients, BeginRefused(r, c)
        PROVE  MovesOnly(r)
    BY <2>2 DEF MovesOnly, BeginRefused, StartSend, Goto, TypeOK
  <2>3. CASE ForkFails(r)
    BY <2>3 DEF MovesOnly, ForkFails, Goto, Active, TypeOK, req
  <2>4. CASE Dispatch(r) \/ HandlerReturn(r) \/ context_send(r)
    BY <2>4 DEF MovesOnly, Dispatch, HandlerReturn, context_send, Calling, StartSend, Goto,
                Active, TypeOK, IdentityInv, ActiveClient, req
  <2>5. CASE CommitSkip(r) \/ CommitNoToken(r) \/ CommitDelete(r) \/ Reap(r)
    BY <2>5 DEF MovesOnly, CommitSkip, CommitNoToken, CommitDelete, AtInsert, Reap, Committing,
                SendFails, Goto, Active, TypeOK, IdentityInv, ActiveClient, req
  <2> QED
    BY <2>1, <2>2, <2>3, <2>4, <2>5
<1>2. UNCHANGED <<owner, tokenFor, jar, setCookie>> /\ (UNCHANGED sess \/ CommitNoToken(r))
  BY DEF Begin, BeginRefused, ForkFails, Dispatch, HandlerReturn, CommitSkip,
         CommitNoToken, CommitDelete, Reap, context_send, Calling, Committing,
         table, drawn, response, world
<1>3. \A t \in Tokens : sessions'[t] \in {sessions[t], None}
  BY DEF Begin, BeginRefused, ForkFails, Dispatch, HandlerReturn, CommitSkip,
         CommitNoToken, CommitDelete, DeleteRow, Reap, context_send, table, TypeOK
<1>4. Keeps(sess[r], sess'[r]) /\ \A q \in Requests \ {r} : sess'[q] = sess[q]
  <2>1. CASE UNCHANGED sess
    BY <2>1, KeepsSession DEF TypeOK
  <2>2. CASE CommitNoToken(r)
    BY <2>2, NoTokenSession DEF Keeps
  <2> QED
    BY <1>2, <2>1, <2>2
<1> QED
  BY <1>1, <1>2, <1>3, <1>4, MovesOnlyActive, QuietStep DEF Quiet, IdentityInv

\* Expired rows may vanish at any time.
LEMMA EnvironmentIdentity ==
    ASSUME TypeOK, TypeOK', IdentityInv, Tick \/ sessions_cleanup
    PROVE  IdentityInv'
  BY DEF IdentityInv, ActiveClient, Active, FreshTokens, RowsOwned, HeldByOwner, OneHolder,
         CookiesKnown, Tick, sessions_cleanup, TypeOK, table, drawn, req, response, world

\* A step by which child r changes its session in memory and stores nothing.
LEMMA SessionIdentity ==
    ASSUME TypeOK, TypeOK', IdentityInv, NEW r \in Requests,
           NEW x \in SessionRecords, Keeps(sess[r], x), SetSess(r, x), MovesOnly(r),
           \A t \in Tokens : sessions'[t] \in {sessions[t], None},
           \A q \in Requests : setCookie'[q] \in {setCookie[q], None, Unset},
           UNCHANGED <<owner, tokenFor, jar>>
    PROVE  IdentityInv'
<1>1. /\ \A q \in Requests \ {r} : sess'[q] = sess[q]
      /\ sess'[r] = x
  BY DEF SetSess, TypeOK
<1> QED
  BY <1>1, MovesOnlyActive, QuietStep DEF Quiet, IdentityInv

\* session_load takes over a row together with the token that names it.
LEMMA LoadIdentity ==
    ASSUME TypeOK, TypeOK', IdentityInv, NEW r \in Requests, Load(r)
    PROVE  IdentityInv'
<1>s. sess[r] \in SessionRecords
  BY DEF TypeOK
<1>1. CASE Reap(r)
  BY <1>1, MoveIdentity
<1>2. CASE LoadRow(r)
  <2>1. /\ sess'[r].token = cookie[r] /\ sess'[r].values = sessions[cookie[r]].data
        /\ \A q \in Requests \ {r} : sess'[q] = sess[q]
    BY <1>2, <1>s, RowType DEF LoadRow, SetSess, Loaded, TypeOK, SessionRecords
  <2>2. cookie[r] \in Tokens /\ sessions[cookie[r]] # None
    BY <1>2, RowType DEF LoadRow
  <2>3. UNCHANGED <<owner, tokenFor, jar, sessions, setCookie, pc, client>>
    BY <1>2 DEF LoadRow, Loading, table, drawn, world, response, req
  <2>4. owner[cookie[r]] # Unset /\ sessions[cookie[r]].data.user \in {None, owner[cookie[r]]}
    BY <2>2 DEF IdentityInv, RowsOwned
  <2>5. FreshTokens'
    BY <2>1, <2>2, <2>3 DEF IdentityInv, FreshTokens
  <2>6. RowsOwned' /\ CookiesKnown' /\ ActiveClient'
    BY <2>3 DEF IdentityInv, RowsOwned, CookiesKnown, ActiveClient, Active
  <2>7. HeldByOwner'
    BY <2>1, <2>3, <2>4 DEF IdentityInv, HeldByOwner
  <2>8. OneHolder'
    BY <2>1, <2>3, <2>4 DEF IdentityInv, OneHolder
  <2> QED
    BY <2>5, <2>6, <2>7, <2>8 DEF IdentityInv
<1>3. CASE LoadMiss(r) \/ LoadStale(r) \/ LoadFails(r)
  <2>1. PICK d \in Data, e \in BOOLEAN : SetSess(r, Loaded(sess[r], d, None, e))
    BY <1>3, DataTypes, RowType DEF LoadMiss, LoadStale, LoadFails, Parts
  <2>2. Loaded(sess[r], d, None, e) \in SessionRecords
          /\ Keeps(sess[r], Loaded(sess[r], d, None, e))
    BY <1>s, FlagTypes, KeepsSession
  <2>3. UNCHANGED <<owner, tokenFor, jar, sessions, setCookie, client>>
    BY <1>3 DEF LoadMiss, LoadStale, LoadFails, Loading, table, drawn, world, response, req
  <2>4. r \in Active
    BY <1>3 DEF LoadMiss, LoadStale, LoadFails, Loading, Active
  <2>5. MovesOnly(r)
    BY <1>3, <2>3, <2>4
    DEF LoadMiss, LoadStale, LoadFails, MovesOnly, Goto, IdentityInv, ActiveClient, TypeOK
  <2> QED
    BY <2>1, <2>2, <2>3, <2>5, SessionIdentity
<1> QED
  BY <1>1, <1>2, <1>3 DEF Load

\* The session after csrf_token or csrf_verify.
LEMMA CsrfKeeps ==
    ASSUME TypeOK, NEW r \in Requests,
           NoCsrf(r) \/ \E c \in ExpectedCsrf(r) : HasCsrf(r, c)
    PROVE  /\ \A q \in Requests \ {r} : sess'[q] = sess[q]
           /\ Keeps(sess[r], sess'[r])
           /\ UNCHANGED tokenFor
<1>s. sess[r] \in SessionRecords
  BY DEF TypeOK
<1>1. CASE NoCsrf(r)
  BY <1>1, <1>s, KeepsSession DEF NoCsrf, drawn
<1>2. ASSUME NEW c \in ExpectedCsrf(r), HasCsrf(r, c)
      PROVE  /\ \A q \in Requests \ {r} : sess'[q] = sess[q]
             /\ Keeps(sess[r], sess'[r])
             /\ UNCHANGED tokenFor
  <2>1. c \in CsrfTokens
    BY <1>s DEF ExpectedCsrf, SessionRecords, Data
  <2>2. Keeps(sess[r], sess[r]) /\ Keeps(sess[r], SetCsrf(sess[r], c))
    BY <2>1, <1>s, KeepsSession
  <2> QED
    BY <1>2, <2>2 DEF HasCsrf, SetSess, TypeOK
<1> QED
  BY <1>1, <1>2

\* csrf_verify touches neither the token nor the user.
LEMMA VerifyIdentity ==
    ASSUME TypeOK, TypeOK', IdentityInv, NEW r \in Requests,
           CsrfVerify(r)
    PROVE  IdentityInv'
<1>1. NoCsrf(r) \/ \E c \in ExpectedCsrf(r) : HasCsrf(r, c)
  BY DEF CsrfVerify
<1>2. MovesOnly(r)
  BY DEF CsrfVerify, MovesOnly, StartSend, Goto, Active, IdentityInv, ActiveClient, TypeOK, req
<1>3. UNCHANGED <<owner, jar, sessions, setCookie>>
  BY DEF CsrfVerify, table, world, response
<1> QED
  BY <1>1, <1>2, <1>3, CsrfKeeps, MovesOnlyActive, QuietStep DEF Quiet, IdentityInv

\* A call of the handler moves no other child.
LEMMA CallingMoves ==
    ASSUME TypeOK, IdentityInv, NEW r \in Requests, Calling(r), UNCHANGED pc
    PROVE  MovesOnly(r) /\ UNCHANGED <<tokenFor, jar>>
  BY DEF Calling, MovesOnly, Active, IdentityInv, ActiveClient, req, world

\* A call in memory keeps IdentityInv if the session it makes does.
LEMMA InMemoryIdentity ==
    ASSUME TypeOK, TypeOK', IdentityInv, NEW r \in Requests, NEW x \in SessionRecords,
           Keeps(sess[r], x), InMemory(r, x)
    PROVE  IdentityInv'
  BY CallingMoves, SessionIdentity DEF InMemory, table

\* Every call a handler can make keeps IdentityInv; auth_login sets regenerate.
LEMMA CallIdentity ==
    ASSUME TypeOK, TypeOK', IdentityInv, NEW r \in Requests, Call(r)
    PROVE  IdentityInv'
<1>s. sess[r] \in SessionRecords
  BY DEF TypeOK
<1>1. ASSUME NEW k \in AppKeys, session_delete(r, k)
      PROVE  IdentityInv'
  BY <1>1, <1>s, SetTypes, KeepsSession, InMemoryIdentity DEF session_delete
<1>2. ASSUME NEW k \in AppKeys, NEW v \in AppValues, session_set(r, k, v)
      PROVE  IdentityInv'
  BY <1>2, <1>s, SetTypes, KeepsSession, InMemoryIdentity DEF session_set
<1>3. CASE session_clear(r) \/ session_regenerate(r)
  BY <1>3, <1>s, FlagTypes, KeepsSession, InMemoryIdentity DEF session_clear, session_regenerate
<1>4. ASSUME NEW u \in Users, auth_login(r, u)
      PROVE  IdentityInv'
  BY <1>4, <1>s, LoginType, KeepsSession, InMemoryIdentity DEF auth_login
<1>5. CASE flash_set(r)
  <2>1. <<r, calls[r]>> \in Messages
    BY DEF TypeOK, Messages
  <2>2. /\ SetFlash(sess[r], <<r, calls[r]>>) \in SessionRecords
        /\ Keeps(sess[r], SetFlash(sess[r], <<r, calls[r]>>))
    BY <2>1, <1>s, SetTypes, KeepsSession
  <2> QED
    BY <1>5, <2>2, InMemoryIdentity DEF flash_set
<1>6. CASE flash_get(r)
  BY <1>6, <1>s, SetTypes, KeepsSession, InMemoryIdentity DEF flash_get
<1>7. CASE csrf_token(r)
  <2>1. /\ NoCsrf(r) \/ \E c \in ExpectedCsrf(r) : HasCsrf(r, c)
        /\ Calling(r) /\ UNCHANGED <<pc, sessions, owner, setCookie>>
    BY <1>7 DEF csrf_token, table
  <2>2. MovesOnly(r) /\ UNCHANGED <<tokenFor, jar>>
    BY <2>1, CallingMoves
  <2> QED
    BY <2>1, <2>2, CsrfKeeps, MovesOnlyActive, QuietStep DEF Quiet, IdentityInv
<1>8. CASE session_destroy(r)
  <2>1. Calling(r) /\ UNCHANGED <<pc, owner>>
    BY <1>8 DEF session_destroy
  <2>2. MovesOnly(r) /\ UNCHANGED <<tokenFor, jar>>
    BY <2>1, CallingMoves
  <2>3. \A t \in Tokens : sessions'[t] \in {sessions[t], None}
    BY <1>8 DEF session_destroy, DeleteRow, TypeOK
  <2>4. \A q \in Requests : setCookie'[q] \in {setCookie[q], None, Unset}
    BY <1>8 DEF session_destroy, TypeOK
  <2>5. /\ \A q \in Requests \ {r} : sess'[q] = sess[q]
        /\ sess'[r] \in {sess[r], Destroyed(sess[r])}
    BY <1>8 DEF session_destroy, SetSess, TypeOK
  <2>6. Keeps(sess[r], sess'[r])
    BY <2>5, <1>s, KeepsSession
  <2> QED
    BY <2>1, <2>2, <2>3, <2>4, <2>5, <2>6, MovesOnlyActive, QuietStep DEF Quiet, IdentityInv
<1>9. CASE context_send(r)
  BY <1>9, MoveIdentity
<1> QED
  BY <1>1, <1>2, <1>3, <1>4, <1>5, <1>6, <1>7, <1>8, <1>9 DEF Call

\* A child that ends gives up its token.
LEMMA ExitIdentity ==
    ASSUME TypeOK, TypeOK', IdentityInv, NEW r \in Requests, Close(r) \/ Crash(r)
    PROVE  IdentityInv'
<1>1. Exit(r)
  BY DEF Close, Crash
<1>2. MovesOnly(r)
  BY <1>1 DEF Exit, MovesOnly, Goto, Active, TypeOK
<1>3. /\ UNCHANGED <<owner, tokenFor, jar, sessions>>
      /\ \A q \in Requests : setCookie'[q] \in {setCookie[q], None, Unset}
  BY <1>1 DEF Exit, table, world, drawn, TypeOK
<1>4. SetSess(r, NewSession) /\ NewSession \in SessionRecords /\ Keeps(sess[r], NewSession)
  BY <1>1, DataTypes, KeepsSession DEF Exit, TypeOK
<1> QED
  BY <1>2, <1>3, <1>4, SessionIdentity

\* The token of a commit is the session's own, or one nobody has seen before.
LEMMA TokenOfCommit ==
    ASSUME TypeOK, IdentityInv, NEW r \in Requests, NEW t \in Tokens, TakeToken(r, t), AtInsert(r)
    PROVE  /\ \/ t = sess[r].token /\ ~sess[r].regenerate /\ tokenFor[t] # None
              \/ /\ tokenFor[t] = None /\ owner[t] = Unset
                 /\ \A q \in Requests : sess[q].token # t
           /\ tokenFor'[t] # None
           /\ \A u \in Tokens \ {t} : tokenFor'[u] = tokenFor[u]
<1>1. client[r] \in Clients /\ None \notin Clients
  BY SessionAssumption DEF AtInsert, IdentityInv, ActiveClient, Active
<1>2. \/ t = sess[r].token /\ ~sess[r].regenerate
      \/ tokenFor[t] = None
  BY DEF TakeToken, CommitTokens
<1>3. CASE t = sess[r].token /\ ~sess[r].regenerate
  <2>1. tokenFor[t] # None
    BY <1>3 DEF IdentityInv, FreshTokens
  <2> QED
    BY <1>3, <2>1 DEF TakeToken, TypeOK
<1>4. CASE tokenFor[t] = None
  BY <1>4, <1>1 DEF TakeToken, TypeOK, IdentityInv, FreshTokens
<1> QED
  BY <1>2, <1>3, <1>4

\* A step of a commit moves only the child that makes it.
LEMMA CommitMoves ==
    ASSUME TypeOK, IdentityInv, NEW r \in Requests, AtInsert(r), Committing(r),
           Goto(r, "transmit") \/ SendFails(r)
    PROVE  MovesOnly(r) /\ UNCHANGED jar
  BY DEF MovesOnly, AtInsert, Committing, SendFails, Goto, Active, IdentityInv, ActiveClient,
         TypeOK, req, world

\* A commit whose INSERT fails holds a token nobody else has.
LEMMA CommitFailsIdentity ==
    ASSUME TypeOK, TypeOK', IdentityInv, NEW r \in Requests, NEW t \in Tokens, CommitFails(r, t)
    PROVE  IdentityInv'
<1>1. /\ AtInsert(r) /\ TakeToken(r, t) /\ Committing(r) /\ SendFails(r)
      /\ UNCHANGED <<sessions, owner, setCookie>>
      /\ SetSess(r, WithToken(sess[r], t))
  BY DEF CommitFails
<1>2. /\ sess'[r].token = t /\ sess'[r].values = sess[r].values
      /\ sess'[r].regenerate = sess[r].regenerate
      /\ \A q \in Requests \ {r} : sess'[q] = sess[q]
  BY <1>1 DEF SetSess, WithToken, TypeOK, SessionRecords
<1>3. ActiveClient' /\ UNCHANGED jar
  BY <1>1, CommitMoves, MovesOnlyActive DEF IdentityInv
<1>4. FreshTokens'
  BY <1>1, <1>2, TokenOfCommit DEF IdentityInv, FreshTokens
<1>5. RowsOwned' /\ CookiesKnown'
  BY <1>1, <1>3 DEF IdentityInv, RowsOwned, CookiesKnown
<1>6. HeldByOwner'
  BY <1>1, <1>2, TokenOfCommit DEF IdentityInv, HeldByOwner
<1>7. OneHolder'
  BY <1>1, <1>2, TokenOfCommit DEF IdentityInv, OneHolder
<1> QED
  BY <1>3, <1>4, <1>5, <1>6, <1>7 DEF IdentityInv

\* A commit that stores makes its user the owner of a new token.
LEMMA CommitIdentity ==
    ASSUME TypeOK, TypeOK', IdentityInv, NEW r \in Requests, NEW t \in Tokens, Commit(r, t)
    PROVE  IdentityInv'
<1> DEFINE u == sess[r].values.user
<1>1. AtInsert(r) /\ TakeToken(r, t) /\ Committing(r) /\ (Goto(r, "transmit") \/ SendFails(r))
  BY DEF Commit
<1>2. /\ sess'[r].token = t /\ sess'[r].values = sess[r].values
      /\ \A q \in Requests \ {r} : sess'[q] = sess[q]
  <2>1. SetSess(r, Saved(sess[r], t)) \/ SetSess(r, WithToken(sess[r], t))
    BY DEF Commit
  <2>2. /\ sess'[r] = Saved(sess[r], t) \/ sess'[r] = WithToken(sess[r], t)
        /\ \A q \in Requests \ {r} : sess'[q] = sess[q]
    BY <2>1 DEF SetSess, TypeOK
  <2>3. sess[r] \in SessionRecords
    BY DEF TypeOK
  <2>4. /\ Saved(sess[r], t).token = t /\ WithToken(sess[r], t).token = t
        /\ Saved(sess[r], t).values = sess[r].values
        /\ WithToken(sess[r], t).values = sess[r].values
    BY <2>3 DEF Saved, WithToken, SessionRecords
  <2> QED
    BY <2>2, <2>4
<1>3. /\ sessions'[t].data = sess[r].values
      /\ \A v \in Tokens \ {t} : sessions'[v] = sessions[v]
      /\ owner'[t] = IF owner[t] = Unset THEN u ELSE owner[t]
      /\ \A v \in Tokens \ {t} : owner'[v] = owner[v]
  BY DEF Commit, TypeOK
<1>4. u # Unset
  BY SessionAssumption DEF TypeOK, SessionRecords, Data
<1>5. sess[r].token = t \/ owner[t] = Unset
  BY <1>1, TokenOfCommit
<1>6. owner'[t] # Unset /\ u \in {None, owner'[t]}
  <2>1. CASE owner[t] = Unset
    BY <2>1, <1>3, <1>4
  <2>2. CASE owner[t] # Unset
    <3>1. sess[r].token = t /\ ~sess[r].regenerate /\ t # None
      BY <2>2, <1>1, TokenOfCommit, SessionAssumption
    <3> QED
      BY <3>1, <2>2, <1>3 DEF IdentityInv, HeldByOwner
  <2> QED
    BY <2>1, <2>2
<1>7. ActiveClient' /\ UNCHANGED jar
  BY <1>1, CommitMoves, MovesOnlyActive DEF IdentityInv
<1>8. FreshTokens'
  BY <1>1, <1>2, <1>3, TokenOfCommit DEF IdentityInv, FreshTokens
<1>9. RowsOwned'
  BY <1>3, <1>6 DEF IdentityInv, RowsOwned
<1>10. \A q \in Requests \ {r} : sess[q].token = t => owner[t] # Unset
  <2>1. t # None
    BY SessionAssumption
  <2>2. t = sess[r].token \/ \A q \in Requests : sess[q].token # t
    BY <1>1, TokenOfCommit
  <2> QED
    BY <2>1, <2>2 DEF IdentityInv, OneHolder
<1>11. HeldByOwner'
  <2>1. ASSUME NEW q \in Requests, sess'[q].token # None, ~sess'[q].regenerate,
               sess'[q].values.user # None
        PROVE  owner'[sess'[q].token] \in {Unset, sess'[q].values.user}
    <3>1. CASE q = r
      BY <3>1, <2>1, <1>2, <1>6
    <3>2. CASE q # r
      <4>1. owner[sess[q].token] \in {Unset, sess[q].values.user} /\ sess'[q] = sess[q]
        BY <3>2, <2>1, <1>2 DEF IdentityInv, HeldByOwner
      <4>2. sess[q].token \in Tokens
        BY <4>1, <2>1 DEF TypeOK, SessionRecords
      <4> QED
        BY <4>1, <4>2, <3>2, <1>3, <1>10
    <3> QED
      BY <3>1, <3>2
  <2> QED
    BY <2>1 DEF HeldByOwner
<1>12. OneHolder'
  <2>1. ASSUME NEW p \in Requests, NEW q \in Requests, sess'[p].token # None,
               sess'[p].token = sess'[q].token, owner'[sess'[p].token] = Unset
        PROVE  p = q
    <3>1. sess'[p].token # t
      BY <2>1, <1>6
    <3>2. p # r /\ q # r
      BY <3>1, <2>1, <1>2
    <3>3. sess'[p].token \in Tokens
      BY <2>1 DEF TypeOK, SessionRecords
    <3> QED
      BY <3>1, <3>2, <3>3, <2>1, <1>2, <1>3 DEF IdentityInv, OneHolder
  <2> QED
    BY <2>1 DEF OneHolder
<1>13. CookiesKnown'
  <2>1. \A q \in Requests : setCookie'[q] \in {setCookie[q], t}
    BY DEF Commit, SetSessionCookie, TypeOK
  <2>2. \A v \in Tokens : owner[v] # Unset => owner'[v] # Unset
    BY <1>3, <1>6
  <2>3. \A c \in Clients : jar[c] # None => jar[c] \in Tokens
    BY DEF TypeOK
  <2> QED
    BY <1>6, <1>7, <2>1, <2>2, <2>3 DEF IdentityInv, CookiesKnown
<1> QED
  BY <1>7, <1>8, <1>9, <1>11, <1>12, <1>13 DEF IdentityInv

\* A browser is given only a token under which a session was stored.
LEMMA TransmitIdentity ==
    ASSUME TypeOK, TypeOK', IdentityInv, NEW r \in Requests, Transmit(r)
    PROVE  IdentityInv'
<1>1. UNCHANGED <<sessions, owner, tokenFor, sess, setCookie>>
  BY DEF Transmit, table, drawn
<1>2. MovesOnly(r)
  BY DEF Transmit, MovesOnly, Goto, Active, IdentityInv, ActiveClient, TypeOK, req
<1>3. \A c \in Clients : jar'[c] = jar[c] \/ jar'[c] = None
                           \/ (jar'[c] = setCookie[r] /\ setCookie[r] \in Tokens)
  BY DEF Transmit, JarAfter, TypeOK, world
<1>4. CookiesKnown'
  BY <1>1, <1>3 DEF IdentityInv, CookiesKnown
<1>5. FreshTokens' /\ RowsOwned' /\ HeldByOwner' /\ OneHolder'
  BY <1>1 DEF IdentityInv, FreshTokens, RowsOwned, HeldByOwner, OneHolder
<1> QED
  BY <1>2, <1>4, <1>5, MovesOnlyActive DEF IdentityInv

\* IdentityInv holds initially.
LEMMA IdentityInit == Init => IdentityInv
  BY SessionAssumption
  DEF Init, IdentityInv, ActiveClient, Active, FreshTokens, RowsOwned, HeldByOwner, OneHolder,
      CookiesKnown, NewSession

\* Every step keeps IdentityInv.
LEMMA IdentityStep == TypeOK /\ TypeOK' /\ IdentityInv /\ [Next]_vars => IdentityInv'
<1> SUFFICES ASSUME TypeOK, TypeOK', IdentityInv, [Next]_vars PROVE IdentityInv'
  OBVIOUS
<1>1. CASE UNCHANGED vars
  BY <1>1 DEF vars, IdentityInv, ActiveClient, Active, FreshTokens, RowsOwned, HeldByOwner,
              OneHolder, CookiesKnown
<1>2. ASSUME NEW r \in Requests, Start(r) PROVE IdentityInv'
  BY <1>2, MoveIdentity DEF Start
<1>3. ASSUME NEW r \in Requests, Send(r) PROVE IdentityInv'
  BY <1>3, MoveIdentity, CommitFailsIdentity, CommitIdentity, TransmitIdentity DEF Send
<1>4. ASSUME NEW r \in Requests, Step(r) PROVE IdentityInv'
  BY <1>4, <1>3, LoadIdentity, VerifyIdentity, MoveIdentity, CallIdentity, ExitIdentity DEF Step
<1>5. ASSUME NEW r \in Requests, Crash(r) PROVE IdentityInv'
  BY <1>5, ExitIdentity
<1>6. CASE Tick \/ sessions_cleanup
  BY <1>6, EnvironmentIdentity
<1> QED
  BY <1>1, <1>2, <1>4, <1>5, <1>6 DEF Next

\* IdentityInv is an invariant of the specification.
LEMMA IdentityInvariant == Spec => []IdentityInv
  BY IdentityInit, IdentityStep, TypeCorrect, PTL DEF Spec

\* No token ever changes hands, for any number of concurrent requests, browsers
\* and users and under every failure: session fixation is impossible.
THEOREM IdentityTheorem == Spec => []TokenIdentity
<1>1. IdentityInv => TokenIdentity
  BY DEF IdentityInv, RowsOwned, TokenIdentity
<1> QED
  BY <1>1, IdentityInvariant, PTL

\* A browser's cookie always names a session that was stored at some time.
THEOREM CookieTheorem == Spec => []CookieStored
<1>1. IdentityInv => CookieStored
  BY DEF IdentityInv, CookiesKnown, CookieStored
<1> QED
  BY <1>1, IdentityInvariant, PTL

----------------------------------------------------------------------------
(* AnsweredUnlessFault.                                                    *)

\* Where a child goes on: a reap is part of a call that loads, a send is the
\* handler's, that of a static file or the last one, a response that could not be
\* sent has met a failure, and only an unsafe request is found no route for.
AnswerOf(r) ==
    /\ pc[r] = "reap" => after[r] \in {"verify", "handler"}
    /\ pc[r] \in {"send", "insert", "transmit"} => after[r] \in {"handler", "close", "asset"}
    /\ pc[r] = "close" /\ ~sent[r] => r \in faulted
    /\ pc[r] = "unrouted" => method[r] # "GET"

AnswerInv == \A r \in Requests : AnswerOf(r)

\* A step of child r leaves the others where they are, and their failures noted.
OthersStay(r) ==
    \A q \in Requests \ {r} :
        /\ pc'[q] = pc[q] /\ after'[q] = after[q] /\ sent'[q] = sent[q] /\ method'[q] = method[q]
        /\ q \in faulted => q \in faulted'

\* A step of one child keeps AnswerInv if that child does.
LEMMA AnswerStays ==
    ASSUME AnswerInv, NEW r \in Requests, OthersStay(r), AnswerOf(r)'
    PROVE  AnswerInv'
  BY DEF AnswerInv, AnswerOf, OthersStay

\* A step by which child r neither moves nor sends.
LEMMA AnswerSame ==
    ASSUME AnswerInv, UNCHANGED <<pc, after, sent, method>>, faulted \subseteq faulted'
    PROVE  AnswerInv'
  BY DEF AnswerInv, AnswerOf

\* Starting and ending a child.
LEMMA StartAnswer ==
    ASSUME TypeOK, AnswerInv, NEW r \in Requests, Start(r) \/ Close(r) \/ Crash(r)
    PROVE  AnswerInv'
<1>1. ASSUME NEW c \in Clients, NEW m \in {"GET", "POST"},
             NEW l \in {"verify", "dispatch"}, NEW f \in CsrfTokens \cup {None},
             Begin(r, c, m, l, f)
      PROVE  AnswerInv'
  <2>1. OthersStay(r) /\ AnswerOf(r)'
    BY <1>1 DEF Begin, Goto, OthersStay, AnswerOf, TypeOK, response
  <2> QED
    BY <2>1, AnswerStays
<1>2. ASSUME NEW c \in Clients, BeginRefused(r, c)
      PROVE  AnswerInv'
  <2>1. OthersStay(r) /\ AnswerOf(r)'
    BY <1>2 DEF BeginRefused, StartSend, Goto, OthersStay, AnswerOf, TypeOK, response
  <2> QED
    BY <2>1, AnswerStays
<1>3. CASE ForkFails(r)
  <2>1. OthersStay(r) /\ AnswerOf(r)'
    BY <1>3 DEF ForkFails, Goto, OthersStay, AnswerOf, TypeOK, response, req
  <2> QED
    BY <2>1, AnswerStays
<1>4. CASE Close(r) \/ Crash(r)
  <2>1. OthersStay(r) /\ AnswerOf(r)'
    BY <1>4 DEF Close, Crash, Exit, Goto, OthersStay, AnswerOf, TypeOK
  <2> QED
    BY <2>1, AnswerStays
<1> QED
  BY <1>1, <1>2, <1>3, <1>4 DEF Start

\* Loading the session, verifying a form and dispatching.
LEMMA ServeAnswer ==
    ASSUME TypeOK, AnswerInv, NEW r \in Requests,
           \/ Load(r) \/ Dispatch(r) \/ HandlerReturn(r)
           \/ CsrfVerify(r)
    PROVE  AnswerInv'
<1>1. CASE LoadMiss(r) \/ LoadRow(r) \/ LoadFails(r)
  <2>1. UNCHANGED <<pc, after, sent, method>> /\ faulted \subseteq faulted'
    BY <1>1 DEF LoadMiss, LoadRow, LoadFails, Loading, Fault, response, req
  <2> QED
    BY <2>1, AnswerSame
<1>2. CASE LoadStale(r)
  <2>1. OthersStay(r) /\ AnswerOf(r)'
    BY <1>2 DEF LoadStale, Loading, Fault, Goto, OthersStay, AnswerOf, TypeOK, response, req
  <2> QED
    BY <2>1, AnswerStays
<1>3. CASE Reap(r)
  <2>1. after[r] \in {"verify", "handler"}
    BY <1>3 DEF Reap, AnswerInv, AnswerOf
  <2>2. OthersStay(r) /\ AnswerOf(r)'
    BY <1>3, <2>1 DEF Reap, Fault, Goto, OthersStay, AnswerOf, TypeOK, response, req
  <2> QED
    BY <2>2, AnswerStays
<1>4. CASE Dispatch(r) \/ HandlerReturn(r)
  <2>1. OthersStay(r) /\ AnswerOf(r)'
    BY <1>4
    DEF Dispatch, HandlerReturn, StartSend, Goto, OthersStay, AnswerOf, TypeOK, response, req
  <2> QED
    BY <2>1, AnswerStays
<1>5. CASE CsrfVerify(r)
  <2>1. faulted \subseteq faulted'
    BY <1>5 DEF CsrfVerify, NoCsrf, HasCsrf
  <2>2. OthersStay(r) /\ AnswerOf(r)'
    BY <1>5, <2>1 DEF CsrfVerify, StartSend, Goto, OthersStay, AnswerOf, TypeOK, response, req
  <2> QED
    BY <2>2, AnswerStays
<1> QED
  BY <1>1, <1>2, <1>3, <1>4, <1>5 DEF Load

\* The calls of a handler: only context_send moves it.
LEMMA CallAnswer ==
    ASSUME TypeOK, AnswerInv, NEW r \in Requests, Call(r)
    PROVE  AnswerInv'
<1>1. CASE context_send(r)
  <2>1. OthersStay(r) /\ AnswerOf(r)'
    BY <1>1 DEF context_send, Calling, StartSend, Goto, OthersStay, AnswerOf, TypeOK, req
  <2> QED
    BY <2>1, AnswerStays
<1>2. CASE \/ \E s : InMemory(r, s)
           \/ csrf_token(r) \/ session_destroy(r)
  <2>1. UNCHANGED <<pc, after, sent, method>>
    BY <1>2 DEF InMemory, csrf_token, session_destroy, Calling, req
  <2>2. faulted \subseteq faulted'
    BY <1>2 DEF InMemory, csrf_token, session_destroy, Fault, NoCsrf, HasCsrf
  <2> QED
    BY <2>1, <2>2, AnswerSame
<1>3. \/ context_send(r) \/ \E s : InMemory(r, s)
      \/ csrf_token(r) \/ session_destroy(r)
  BY DEF Call, session_set, session_delete, session_clear, session_regenerate, auth_login,
         flash_set, flash_get
<1> QED
  BY <1>1, <1>2, <1>3

\* A send ends in transmit, with a failure noted, or with the response out.
LEMMA SendAnswer ==
    ASSUME TypeOK, AnswerInv, NEW r \in Requests, Send(r)
    PROVE  AnswerInv'
<1>1. after[r] \in {"handler", "close", "asset"}
  BY DEF Send, CommitSkip, CommitDelete, CommitNoToken, CommitFails, Commit, AtInsert, Transmit,
         AnswerInv, AnswerOf
<1>2. UNCHANGED <<after, method>> /\ faulted \subseteq faulted'
  BY DEF Send, CommitSkip, CommitDelete, CommitNoToken, CommitFails, Commit, SendFails,
         Transmit, Fault, Committing, req
<1>3. /\ \A q \in Requests \ {r} : pc'[q] = pc[q] /\ sent'[q] = sent[q]
      /\ \/ Goto(r, "transmit") \/ Goto(r, "insert")
         \/ Goto(r, after[r]) /\ (r \in faulted' \/ sent'[r])
  <2>1. CASE CommitSkip(r) \/ CommitDelete(r) \/ CommitNoToken(r)
    BY <2>1 DEF CommitSkip, CommitDelete, CommitNoToken, SendFails, Fault, Goto, Committing,
                TypeOK
  <2>2. ASSUME NEW t \in Tokens, CommitFails(r, t) \/ Commit(r, t)
        PROVE  /\ \A q \in Requests \ {r} : pc'[q] = pc[q] /\ sent'[q] = sent[q]
               /\ \/ Goto(r, "transmit") \/ Goto(r, "insert")
                  \/ Goto(r, after[r]) /\ (r \in faulted' \/ sent'[r])
    BY <2>2 DEF CommitFails, Commit, SendFails, Fault, Goto, Committing, TypeOK
  <2>3. CASE Transmit(r)
    BY <2>3 DEF Transmit, Fault, Goto, TypeOK
  <2> QED
    BY <2>1, <2>2, <2>3 DEF Send
<1>4. OthersStay(r) /\ AnswerOf(r)'
  BY <1>1, <1>2, <1>3 DEF OthersStay, AnswerOf, Goto, TypeOK
<1> QED
  BY <1>4, AnswerStays

\* Every step keeps AnswerInv.
LEMMA AnswerStep == TypeOK /\ AnswerInv /\ [Next]_vars => AnswerInv'
<1> SUFFICES ASSUME TypeOK, AnswerInv, [Next]_vars PROVE AnswerInv'
  OBVIOUS
<1>1. CASE UNCHANGED vars
  BY <1>1 DEF vars, AnswerInv, AnswerOf
<1>2. CASE Tick \/ sessions_cleanup
  BY <1>2, AnswerSame DEF Tick, sessions_cleanup, req, response
<1>3. ASSUME NEW r \in Requests, Step(r) PROVE AnswerInv'
  BY <1>3, StartAnswer, ServeAnswer, CallAnswer, SendAnswer DEF Step
<1>4. ASSUME NEW r \in Requests, Start(r) \/ Crash(r) PROVE AnswerInv'
  BY <1>4, StartAnswer
<1> QED
  BY <1>1, <1>2, <1>3, <1>4 DEF Next

\* AnswerInv is an invariant of the specification.
LEMMA AnswerInvariant == Spec => []AnswerInv
<1>1. Init => AnswerInv
  BY DEF Init, AnswerInv, AnswerOf
<1> QED
  BY <1>1, AnswerStep, TypeCorrect, PTL DEF Spec

\* No connection is closed without an answer, unless a failure was met or
\* router_dispatch found no route for it, and then it is no GET
\* (ceasy_handle_client), for any number of overlapping requests.
THEOREM AnswerTheorem == Spec => []AnsweredUnlessFault
<1>1. AnswerInv => AnsweredUnlessFault
  BY DEF AnswerInv, AnswerOf, AnsweredUnlessFault
<1> QED
  BY <1>1, AnswerInvariant, PTL

----------------------------------------------------------------------------
(* ClientIsolation and CsrfBinding.                                        *)

\* A token, the contents of a session and a session in memory that are browser
\* c's.
TokenOf(t, c) == t \in Tokens => tokenFor[t] = c

DataOf(d, c) ==
    /\ d.csrf # None => csrfFor[d.csrf] = c
    /\ d.flash # None => client[d.flash[1]] = c

SessionOf(s, c) == TokenOf(s.token, c) /\ DataOf(s.values, c)

\* ClientIsolation is not inductive: it needs that a child that is not running
\* holds nothing, that the cookies on their way in and out of a child are its
\* browser's, and that the rows in between keep to the browser of their token.
IdleIsNew ==
    \A r \in Requests :
        /\ r \notin Active =>
              cookie[r] = None /\ setCookie[r] = Unset /\ sess[r] = NewSession
        /\ pc[r] = "idle" => client[r] = None

JarsOwn == \A c \in Clients : TokenOf(jar[c], c)

RequestsOwn ==
    \A r \in Requests :
        /\ TokenOf(cookie[r], client[r])
        /\ TokenOf(setCookie[r], client[r])
        /\ SessionOf(sess[r], client[r])

RowsOwn ==
    \A t \in Tokens :
        sessions[t] # None => tokenFor[t] \in Clients /\ DataOf(sessions[t].data, tokenFor[t])

BrowserInv == IdleIsNew /\ JarsOwn /\ RequestsOwn /\ RowsOwn

\* What was drawn stays with its browser, and a request with its own.
Settled ==
    /\ \A t \in Tokens : tokenFor[t] # None => tokenFor'[t] = tokenFor[t]
    /\ \A x \in CsrfTokens : csrfFor[x] # None => csrfFor'[x] = csrfFor[x]
    /\ \A q \in Requests : client[q] # None => client'[q] = client[q]

\* A step of child r, seen by every other child, every browser and every row.
Outside(r) ==
    /\ Settled
    /\ \A q \in Requests \ {r} :
          /\ pc'[q] = pc[q] /\ client'[q] = client[q] /\ cookie'[q] = cookie[q]
          /\ setCookie'[q] = setCookie[q] /\ sess'[q] = sess[q]
    /\ \A c \in Clients :
          jar'[c] \in {jar[c], None} \/ (c = client[r] /\ jar'[c] = setCookie[r])
    /\ \A t \in Tokens :
          \/ sessions'[t] \in {sessions[t], None}
          \/ /\ tokenFor'[t] = client[r] /\ client[r] \in Clients
             /\ sessions'[t].data = sess[r].values

\* What child r holds after the step.
OwnAfter(r) ==
    IF r \in Active'
    THEN /\ TokenOf(cookie[r], client[r])'
         /\ TokenOf(setCookie[r], client[r])'
         /\ SessionOf(sess[r], client[r])'
    ELSE /\ cookie'[r] = None /\ setCookie'[r] = Unset /\ sess'[r] = NewSession
         /\ pc'[r] # "idle"

\* What is browser c's stays so.
LEMMA StaysOf ==
    ASSUME TypeOK, Settled, NEW c \in Clients
    PROVE  /\ \A t \in Tokens \cup {None, Unset} : TokenOf(t, c) => TokenOf(t, c)'
           /\ \A d \in Data : DataOf(d, c) => DataOf(d, c)'
<1>1. None \notin Clients
  BY SessionAssumption
<1>2. \A t \in Tokens \cup {None, Unset} : TokenOf(t, c) => TokenOf(t, c)'
  BY <1>1 DEF Settled, TokenOf
<1>3. ASSUME NEW d \in Data, DataOf(d, c)
      PROVE  DataOf(d, c)'
  <2>1. d.csrf # None => d.csrf \in CsrfTokens
    BY DEF Data
  <2>2. d.flash # None => d.flash[1] \in Requests
    BY DEF Data, Messages
  <2> QED
    BY <1>1, <1>3, <2>1, <2>2 DEF Settled, DataOf
<1> QED
  BY <1>2, <1>3

\* Every browser may have a session that is new.
LEMMA NewIsAnyones ==
    \A c : SessionOf(NewSession, c) /\ TokenOf(None, c) /\ TokenOf(Unset, c)
  BY SessionAssumption DEF SessionOf, TokenOf, DataOf, NewSession, EmptyData

\* A step that keeps to its browser keeps BrowserInv.
LEMMA BrowserStep ==
    ASSUME TypeOK, TypeOK', ActiveClient, BrowserInv, NEW r \in Requests, Outside(r), OwnAfter(r)
    PROVE  BrowserInv'
<1>n. None \notin Clients
  BY SessionAssumption
<1>1. IdleIsNew'
  BY DEF BrowserInv, IdleIsNew, Outside, OwnAfter, Active
<1>2. JarsOwn'
  <2>1. ASSUME NEW c \in Clients
        PROVE  TokenOf(jar[c], c)'
    <3>t. PICK t \in Tokens \cup {None} : t = jar'[c]
      BY DEF TypeOK
    <3>1. TokenOf(jar[c], c) /\ TokenOf(None, c)' /\ jar[c] \in Tokens \cup {None, Unset}
      BY SessionAssumption DEF BrowserInv, JarsOwn, TokenOf, TypeOK
    <3>2. c = client[r] => TokenOf(setCookie[r], c)
      BY DEF BrowserInv, RequestsOwn
    <3>3. setCookie[r] \in Tokens \cup {None, Unset}
      BY DEF TypeOK
    <3>4. Settled /\ (jar'[c] \in {jar[c], None} \/ (c = client[r] /\ jar'[c] = setCookie[r]))
      BY DEF Outside
    <3>5. TokenOf(t, c)'
      BY <3>t, <3>1, <3>2, <3>3, <3>4, StaysOf
    <3> QED
      BY <3>t, <3>5 DEF TokenOf
  <2> QED
    BY <2>1 DEF JarsOwn
<1>3. RowsOwn'
  <2>1. ASSUME NEW t \in Tokens, sessions'[t] # None
        PROVE  tokenFor'[t] \in Clients /\ DataOf(sessions[t].data, tokenFor[t])'
    <3>d. PICK d \in Data : d = sessions'[t].data
      BY <2>1 DEF TypeOK, Rows
    <3>1. CASE sessions'[t] = sessions[t]
      <4>1. tokenFor[t] \in Clients /\ DataOf(sessions[t].data, tokenFor[t])
        BY <3>1, <2>1 DEF BrowserInv, RowsOwn
      <4>2. tokenFor'[t] = tokenFor[t] /\ Settled
        BY <4>1, <1>n DEF Outside, Settled
      <4>4. PICK c \in Clients : c = tokenFor'[t]
        BY <4>1, <4>2
      <4>5. DataOf(d, c)'
        BY <3>1, <3>d, <4>1, <4>2, <4>4, StaysOf
      <4> QED
        BY <3>d, <4>4, <4>5 DEF DataOf
    <3>2. CASE /\ tokenFor'[t] = client[r] /\ client[r] \in Clients
               /\ sessions'[t].data = sess[r].values
      <4>1. DataOf(sess[r].values, client[r]) /\ Settled
        BY DEF BrowserInv, RequestsOwn, SessionOf, Outside
      <4>2. PICK c \in Clients : c = tokenFor'[t]
        BY <3>2
      <4>3. DataOf(d, c)'
        BY <3>2, <3>d, <4>1, <4>2, StaysOf
      <4> QED
        BY <3>d, <4>2, <4>3 DEF DataOf
    <3> QED
      BY <2>1, <3>1, <3>2 DEF Outside
  <2> QED
    BY <2>1 DEF RowsOwn
<1>4. RequestsOwn'
  <2>1. ASSUME NEW q \in Requests
        PROVE  /\ TokenOf(cookie[q], client[q])'
               /\ TokenOf(setCookie[q], client[q])'
               /\ SessionOf(sess[q], client[q])'
    <3>1. CASE q \notin Active'
      <4>1. cookie'[q] = None /\ setCookie'[q] = Unset /\ sess'[q] = NewSession
        BY <1>1, <3>1 DEF IdleIsNew
      <4> QED
        BY <4>1, SessionAssumption DEF SessionOf, TokenOf, DataOf, NewSession, EmptyData
    <3>2. CASE q \in Active' /\ q = r
      BY <3>2 DEF OwnAfter
    <3>3. CASE q \in Active' /\ q # r
      <4>1. /\ q \in Active /\ client'[q] = client[q] /\ cookie'[q] = cookie[q]
            /\ setCookie'[q] = setCookie[q] /\ sess'[q] = sess[q]
        BY <3>3 DEF Outside, Active
      <4>2. PICK c \in Clients : c = client[q]
        BY <4>1 DEF ActiveClient
      <4>3. TokenOf(cookie[q], c) /\ TokenOf(setCookie[q], c) /\ TokenOf(sess[q].token, c)
              /\ DataOf(sess[q].values, c)
        BY <4>2 DEF BrowserInv, RequestsOwn, SessionOf
      <4>4. /\ cookie[q] \in Tokens \cup {None, Unset} /\ setCookie[q] \in Tokens \cup {None, Unset}
            /\ sess[q].token \in Tokens \cup {None, Unset} /\ sess[q].values \in Data
        BY DEF TypeOK, SessionRecords
      <4>5. /\ TokenOf(cookie[q], c)' /\ TokenOf(setCookie[q], c)' /\ SessionOf(sess[q], c)'
        <5>1. Settled
          BY DEF Outside
        <5>p. PICK t1 \in Tokens \cup {None, Unset}, t2 \in Tokens \cup {None, Unset},
                   t3 \in Tokens \cup {None, Unset}, d \in Data :
                 t1 = cookie[q] /\ t2 = setCookie[q] /\ t3 = sess[q].token /\ d = sess[q].values
          BY <4>4
        <5>2. TokenOf(t1, c)' /\ TokenOf(t2, c)' /\ TokenOf(t3, c)' /\ DataOf(d, c)'
          BY <5>1, <5>p, <4>3, StaysOf
        <5> QED
          BY <5>2, <5>p, <4>1 DEF TokenOf, SessionOf, DataOf
      <4>6. c = client'[q]
        BY <4>1, <4>2
      <4> QED
        BY <4>5, <4>6 DEF TokenOf, SessionOf, DataOf
    <3> QED
      BY <3>1, <3>2, <3>3
  <2> QED
    BY <2>1 DEF RequestsOwn
<1> QED
  BY <1>1, <1>2, <1>3, <1>4 DEF BrowserInv

\* A step of a running child that stores nothing and draws no session token.
StaysWith(r) ==
    /\ r \in Active /\ r \in Active'
    /\ UNCHANGED <<client, cookie, tokenFor, jar>>
    /\ \A x \in CsrfTokens : csrfFor[x] # None => csrfFor'[x] = csrfFor[x]
    /\ \A q \in Requests \ {r} : pc'[q] = pc[q] /\ setCookie'[q] = setCookie[q] /\ sess'[q] = sess[q]
    /\ setCookie'[r] \in {setCookie[r], None}
    /\ \A t \in Tokens : sessions'[t] \in {sessions[t], None}

\* What child r then has in memory is what it had, or comes from its browser.
TakesOver(r) ==
    /\ sess'[r].token \in {None, sess[r].token, cookie[r]}
    /\ \/ sess'[r].values.csrf \in {None, sess[r].values.csrf}
       \/ csrfFor'[sess'[r].values.csrf] = client[r]
    /\ \/ sess'[r].values.flash \in {None, sess[r].values.flash}
       \/ client[sess'[r].values.flash[1]] = client[r]

\* Such a step keeps BrowserInv.
LEMMA StaysBrowser ==
    ASSUME TypeOK, TypeOK', ActiveClient, BrowserInv, NEW r \in Requests, StaysWith(r), TakesOver(r)
    PROVE  BrowserInv'
<1>1. Outside(r)
  <2>1. Settled
    BY DEF StaysWith, Settled
  <2>2. \A c \in Clients : jar'[c] \in {jar[c], None}
    BY DEF StaysWith
  <2>3. \A q \in Requests \ {r} :
           /\ pc'[q] = pc[q] /\ client'[q] = client[q] /\ cookie'[q] = cookie[q]
           /\ setCookie'[q] = setCookie[q] /\ sess'[q] = sess[q]
    BY DEF StaysWith
  <2>4. \A t \in Tokens :
           \/ sessions'[t] \in {sessions[t], None}
           \/ /\ tokenFor'[t] = client[r] /\ client[r] \in Clients
              /\ sessions'[t].data = sess[r].values
    BY DEF StaysWith
  <2> QED
    BY <2>1, <2>2, <2>3, <2>4 DEF Outside
<1>2. PICK c \in Clients : c = client[r] /\ c = client'[r]
  BY DEF StaysWith, ActiveClient
<1>3. TokenOf(cookie[r], c) /\ TokenOf(setCookie[r], c) /\ TokenOf(sess[r].token, c)
        /\ DataOf(sess[r].values, c)
  BY <1>2 DEF BrowserInv, RequestsOwn, SessionOf
<1>4. TokenOf(cookie[r], c)' /\ TokenOf(setCookie[r], c)' /\ TokenOf(sess[r].token, c)'
  BY <1>3, SessionAssumption DEF StaysWith, TakesOver, TokenOf
<1>5. DataOf(sess[r].values, c)'
  <2>1. sess[r].values \in Data
    BY DEF TypeOK, SessionRecords
  <2>2. sess[r].values.csrf # None => sess[r].values.csrf \in CsrfTokens
    BY <2>1 DEF Data
  <2> QED
    BY <1>2, <1>3, <2>2, SessionAssumption DEF StaysWith, TakesOver, DataOf
<1>6. OwnAfter(r)
  BY <1>2, <1>4, <1>5 DEF OwnAfter, StaysWith, SessionOf, TokenOf, DataOf
<1> QED
  BY <1>1, <1>6, BrowserStep

\* The session operators add neither a token, nor a csrf token, nor a message.
LEMMA OperatorsTakeOver ==
    ASSUME NEW x \in SessionRecords,
           NEW y \in {x, Clear(x), Regenerate(x), Destroyed(x), DeleteFlash(x)}
                       \cup {Login(x, u) : u \in Users}
                       \cup {DeleteApp(x, k) : k \in AppKeys}
                       \cup {SetApp(x, p[1], p[2]) : p \in AppKeys \X AppValues}
    PROVE  /\ y.token = x.token
           /\ y.values.csrf \in {None, x.values.csrf}
           /\ y.values.flash \in {None, x.values.flash}
<1>1. CASE y = x \/ y = Regenerate(x)
  BY <1>1 DEF Regenerate, SessionRecords
<1>7. CASE y = Clear(x)
  BY <1>7 DEF Clear, EmptyData, SessionRecords, Data
<1>5. CASE y = Destroyed(x)
  BY <1>5 DEF Destroyed, EmptyData, SessionRecords, Data
<1>6. CASE y = DeleteFlash(x)
  BY <1>6 DEF DeleteFlash, SessionRecords, Data
<1>2. ASSUME NEW u \in Users, y = Login(x, u)
      PROVE  y.token = x.token /\ y.values.csrf = x.values.csrf /\ y.values.flash = x.values.flash
  BY <1>2 DEF Login, SetUser, Regenerate, SessionRecords, Data
<1>3. ASSUME NEW k \in AppKeys, y = DeleteApp(x, k)
      PROVE  y.token = x.token /\ y.values.csrf = x.values.csrf /\ y.values.flash = x.values.flash
  BY <1>3 DEF DeleteApp, SessionRecords, Data
<1>4. ASSUME NEW k \in AppKeys, NEW v \in AppValues, y = SetApp(x, k, v)
      PROVE  y.token = x.token /\ y.values.csrf = x.values.csrf /\ y.values.flash = x.values.flash
  BY <1>4 DEF SetApp, SessionRecords, Data
<1> QED
  BY <1>1, <1>2, <1>3, <1>4, <1>5, <1>6, <1>7

\* session_load takes a session over from the row of its browser's token.
LEMMA LoadBrowser ==
    ASSUME TypeOK, TypeOK', ActiveClient, AnswerInv, BrowserInv, NEW r \in Requests, Load(r)
    PROVE  BrowserInv'
<1>s. sess[r] \in SessionRecords
  BY DEF TypeOK
<1>1. CASE Reap(r)
  <2>1. \A t \in Tokens : sessions'[t] \in {sessions[t], None}
    BY <1>1 DEF Reap, TypeOK
  <2>2. UNCHANGED <<client, cookie, tokenFor, csrfFor, jar, setCookie, sess>>
    BY <1>1 DEF Reap, req, response, drawn, world
  <2>3. after[r] \in {"verify", "handler"}
    BY <1>1 DEF Reap, AnswerInv, AnswerOf
  <2>4. /\ r \in Active /\ r \in Active'
        /\ \A q \in Requests \ {r} : pc'[q] = pc[q]
    BY <1>1, <2>3 DEF Reap, Goto, Active, TypeOK
  <2> QED
    BY <2>1, <2>2, <2>4, StaysBrowser DEF StaysWith, TakesOver
<1>2. CASE LoadMiss(r) \/ LoadRow(r) \/ LoadStale(r) \/ LoadFails(r)
  <2>1. Loading(r) /\ UNCHANGED <<sessions, client, cookie, tokenFor, csrfFor, jar, setCookie>>
    BY <1>2 DEF LoadMiss, LoadRow, LoadStale, LoadFails, Loading, table, req, response, drawn, world
  <2>2. PICK d \in Data, t \in {None, cookie[r]}, e \in BOOLEAN :
           /\ SetSess(r, Loaded(sess[r], d, t, e))
           /\ \/ d = EmptyData
              \/ /\ Row(r) # None
                 /\ d.csrf \in {None, Row(r).data.csrf} /\ d.flash \in {None, Row(r).data.flash}
    BY <1>2, DataTypes, RowType DEF LoadMiss, LoadRow, LoadStale, LoadFails, Parts
  <2>3. sess'[r].token = t /\ sess'[r].values = d
          /\ \A q \in Requests \ {r} : sess'[q] = sess[q]
    BY <2>2, <1>s DEF SetSess, Loaded, TypeOK, SessionRecords
  <2>4. StaysWith(r)
    <3>1. \A q \in Requests \ {r} : pc'[q] = pc[q]
      BY <1>2 DEF LoadMiss, LoadRow, LoadStale, LoadFails, Goto, TypeOK
    <3>2. r \in Active /\ pc'[r] \notin {"idle", "done"}
      BY <1>2, <2>1 DEF LoadMiss, LoadRow, LoadStale, LoadFails, Loading, Goto, Active, TypeOK
    <3> QED
      BY <2>1, <2>3, <3>1, <3>2 DEF StaysWith, Active
  <2>5. TakesOver(r)
    <3>1. CASE d = EmptyData
      BY <3>1, <2>2, <2>3 DEF TakesOver, EmptyData
    <3>2. CASE Row(r) # None /\ d.csrf \in {None, Row(r).data.csrf}
                /\ d.flash \in {None, Row(r).data.flash}
      <4>1. cookie[r] \in Tokens /\ Row(r) = sessions[cookie[r]]
        BY <3>2, RowType
      <4>2. tokenFor[cookie[r]] = client[r]
        BY <4>1 DEF BrowserInv, RequestsOwn, TokenOf
      <4>3. DataOf(Row(r).data, client[r])
        BY <3>2, <4>1, <4>2 DEF BrowserInv, RowsOwn
      <4> QED
        BY <3>2, <4>3, <2>1, <2>2, <2>3 DEF TakesOver, DataOf
    <3> QED
      BY <3>1, <3>2, <2>2
  <2> QED
    BY <2>4, <2>5, StaysBrowser
<1> QED
  BY <1>1, <1>2 DEF Load

\* Drawing a csrf token notes it as this browser's.
LEMMA CsrfTakesOver ==
    ASSUME TypeOK, ActiveClient, BrowserInv, NEW r \in Active,
           NoCsrf(r) \/ \E c \in ExpectedCsrf(r) : HasCsrf(r, c),
           UNCHANGED client
    PROVE  /\ TakesOver(r)
           /\ \A q \in Requests \ {r} : sess'[q] = sess[q]
           /\ \A x \in CsrfTokens : csrfFor[x] # None => csrfFor'[x] = csrfFor[x]
           /\ UNCHANGED tokenFor
<1>s. sess[r] \in SessionRecords /\ r \in Requests
  BY DEF TypeOK, Active
<1>1. CASE NoCsrf(r)
  BY <1>1 DEF NoCsrf, TakesOver, drawn
<1>2. ASSUME NEW c \in ExpectedCsrf(r), HasCsrf(r, c)
      PROVE  /\ TakesOver(r)
             /\ \A q \in Requests \ {r} : sess'[q] = sess[q]
             /\ \A x \in CsrfTokens : csrfFor[x] # None => csrfFor'[x] = csrfFor[x]
             /\ UNCHANGED tokenFor
  <2>1. c \in CsrfTokens
    BY <1>s DEF ExpectedCsrf, SessionRecords, Data
  <2>2. /\ sess'[r].token = sess[r].token /\ sess'[r].values.flash = sess[r].values.flash
        /\ sess'[r].values.csrf = c
        /\ \A q \in Requests \ {r} : sess'[q] = sess[q]
    BY <1>2, <1>s, <2>1 DEF HasCsrf, SetSess, SetCsrf, TypeOK, SessionRecords, Data
  <2>3. sess[r].values.csrf = c \/ csrfFor[c] = None
    BY DEF ExpectedCsrf
  <2>4. /\ \A x \in CsrfTokens : csrfFor[x] # None => csrfFor'[x] = csrfFor[x]
        /\ sess[r].values.csrf = c \/ csrfFor'[c] = client[r]
        /\ UNCHANGED tokenFor
    BY <1>2, <2>1, <2>3 DEF HasCsrf, TypeOK
  <2> QED
    BY <2>2, <2>4 DEF TakesOver
<1> QED
  BY <1>1, <1>2

\* csrf_verify keeps to the browser.
LEMMA VerifyBrowser ==
    ASSUME TypeOK, TypeOK', ActiveClient, BrowserInv, NEW r \in Requests,
           CsrfVerify(r)
    PROVE  BrowserInv'
<1>1. UNCHANGED <<client, cookie, jar, sessions, setCookie>>
  BY DEF CsrfVerify, req, response, world, table
<1>2. /\ r \in Active /\ r \in Active'
      /\ \A q \in Requests \ {r} : pc'[q] = pc[q]
  BY DEF CsrfVerify, StartSend, Goto, Active, TypeOK
<1>3. NoCsrf(r) \/ \E c \in ExpectedCsrf(r) : HasCsrf(r, c)
  BY DEF CsrfVerify
<1> QED
  BY <1>1, <1>2, <1>3, CsrfTakesOver, StaysBrowser DEF StaysWith

\* A call in memory keeps to the browser if the session it makes does.
LEMMA InMemoryBrowser ==
    ASSUME TypeOK, TypeOK', ActiveClient, BrowserInv, NEW r \in Requests, NEW y, InMemory(r, y),
           y.token = sess[r].token,
           y.values.csrf \in {None, sess[r].values.csrf},
           \/ y.values.flash \in {None, sess[r].values.flash}
           \/ client[y.values.flash[1]] = client[r]
    PROVE  BrowserInv'
<1>1. /\ UNCHANGED <<client, cookie, jar, sessions, setCookie, tokenFor, csrfFor, pc>>
      /\ r \in Active
  BY DEF InMemory, Calling, req, world, table, Active
<1>2. sess'[r] = y /\ \A q \in Requests \ {r} : sess'[q] = sess[q]
  BY DEF InMemory, SetSess, TypeOK
<1>3. TakesOver(r)
  BY <1>2 DEF TakesOver
<1>4. StaysWith(r)
  BY <1>1, <1>2 DEF StaysWith, Active
<1> QED
  BY <1>3, <1>4, StaysBrowser

\* Every call a handler can make keeps to the browser.
LEMMA CallBrowser ==
    ASSUME TypeOK, TypeOK', ActiveClient, BrowserInv, NEW r \in Requests, Call(r)
    PROVE  BrowserInv'
<1>s. sess[r] \in SessionRecords
  BY DEF TypeOK
<1>1. ASSUME NEW k \in AppKeys, session_delete(r, k)
      PROVE  BrowserInv'
  BY <1>1, <1>s, OperatorsTakeOver, InMemoryBrowser DEF session_delete
<1>2. ASSUME NEW k \in AppKeys, NEW v \in AppValues, session_set(r, k, v)
      PROVE  BrowserInv'
  <2>1. PICK y : y = SetApp(sess[r], k, v) /\ InMemory(r, y)
    BY <1>2 DEF session_set
  <2>2. y \in {SetApp(sess[r], p[1], p[2]) : p \in AppKeys \X AppValues}
    <3>1. <<k, v>> \in AppKeys \X AppValues /\ <<k, v>>[1] = k /\ <<k, v>>[2] = v
      OBVIOUS
    <3> QED
      BY <2>1, <3>1
  <2> QED
    BY <2>1, <2>2, <1>s, OperatorsTakeOver, InMemoryBrowser
<1>3. CASE session_clear(r) \/ session_regenerate(r)
  BY <1>3, <1>s, OperatorsTakeOver, InMemoryBrowser DEF session_clear, session_regenerate
<1>4. ASSUME NEW u \in Users, auth_login(r, u)
      PROVE  BrowserInv'
  BY <1>4, <1>s, OperatorsTakeOver, InMemoryBrowser DEF auth_login
<1>5. CASE flash_set(r)
  <2>1. PICK y : y = SetFlash(sess[r], <<r, calls[r]>>) /\ InMemory(r, y)
    BY <1>5 DEF flash_set
  <2>2. /\ y.token = sess[r].token /\ y.values.csrf = sess[r].values.csrf
        /\ y.values.flash = <<r, calls[r]>>
    BY <2>1, <1>s DEF SetFlash, SessionRecords, Data
  <2> QED
    BY <2>1, <2>2, InMemoryBrowser
<1>6. CASE flash_get(r)
  BY <1>6, <1>s, OperatorsTakeOver, InMemoryBrowser DEF flash_get
<1>7. CASE csrf_token(r)
  <2>1. /\ NoCsrf(r) \/ \E c \in ExpectedCsrf(r) : HasCsrf(r, c)
        /\ UNCHANGED <<client, cookie, jar, sessions, setCookie, pc>>
        /\ r \in Active
    BY <1>7 DEF csrf_token, Calling, Active, table, req, world
  <2> QED
    BY <2>1, CsrfTakesOver, StaysBrowser DEF StaysWith, Active
<1>8. CASE session_destroy(r)
  <2>1. UNCHANGED <<client, cookie, jar, tokenFor, csrfFor, pc>> /\ r \in Active
    BY <1>8 DEF session_destroy, Calling, Active, req, world
  <2>2. \A t \in Tokens : sessions'[t] \in {sessions[t], None}
    BY <1>8 DEF session_destroy, DeleteRow, TypeOK
  <2>3. /\ setCookie'[r] \in {setCookie[r], None}
        /\ \A q \in Requests \ {r} : setCookie'[q] = setCookie[q]
    BY <1>8 DEF session_destroy, TypeOK
  <2>4. /\ \A q \in Requests \ {r} : sess'[q] = sess[q]
        /\ sess'[r] \in {sess[r], Destroyed(sess[r])}
    BY <1>8 DEF session_destroy, SetSess, TypeOK
  <2>5. TakesOver(r)
    BY <2>4, <1>s, OperatorsTakeOver DEF TakesOver
  <2> QED
    BY <2>1, <2>2, <2>3, <2>4, <2>5, StaysBrowser DEF StaysWith, Active
<1>9. CASE context_send(r)
  <2>1. /\ UNCHANGED <<client, cookie, jar, sessions, setCookie, tokenFor, csrfFor, sess>>
        /\ r \in Active /\ r \in Active'
        /\ \A q \in Requests \ {r} : pc'[q] = pc[q]
    BY <1>9 DEF context_send, Calling, StartSend, Goto, Active, TypeOK, table, req, world
  <2> QED
    BY <2>1, StaysBrowser DEF StaysWith, TakesOver
<1> QED
  BY <1>1, <1>2, <1>3, <1>4, <1>5, <1>6, <1>7, <1>8, <1>9 DEF Call

\* Accepting a connection gives a child its browser's cookie; a child that ends,
\* or never starts, holds nothing.
LEMMA StartBrowser ==
    ASSUME TypeOK, TypeOK', ActiveClient, BrowserInv, NEW r \in Requests,
           Start(r) \/ Close(r) \/ Crash(r)
    PROVE  BrowserInv'
<1>n. None \notin Clients
  BY SessionAssumption
<1>1. ASSUME NEW c \in Clients,
             \/ \E m \in {"GET", "POST"}, l \in {"verify", "dispatch"}, f \in CsrfTokens \cup {None} :
                   Begin(r, c, m, l, f)
             \/ BeginRefused(r, c)
      PROVE  BrowserInv'
  <2>1. /\ pc[r] = "idle" /\ client' = [client EXCEPT ![r] = c] /\ cookie' = [cookie EXCEPT ![r] = jar[c]]
        /\ \A q \in Requests \ {r} : pc'[q] = pc[q]
        /\ UNCHANGED <<setCookie, sess, jar, sessions, tokenFor, csrfFor>>
    BY <1>1 DEF Begin, BeginRefused, StartSend, Goto, TypeOK, response, world, table, drawn
  <2>2. client[r] = None /\ sess[r] = NewSession /\ setCookie[r] = Unset
    BY <2>1 DEF BrowserInv, IdleIsNew, Active
  <2>3. client'[r] = c /\ cookie'[r] = jar[c]
    BY <2>1 DEF TypeOK
  <2>4. Outside(r)
    <3>1. Settled
      BY <2>1, <2>2 DEF Settled, TypeOK
    <3> QED
      BY <2>1, <3>1 DEF Outside, TypeOK
  <2>5. r \in Active'
    BY <1>1 DEF Begin, BeginRefused, StartSend, Goto, Active, TypeOK
  <2>6. TokenOf(jar[c], c)
    BY DEF BrowserInv, JarsOwn
  <2>7. OwnAfter(r)
    BY <2>1, <2>2, <2>3, <2>5, <2>6, SessionAssumption
    DEF OwnAfter, TokenOf, SessionOf, DataOf, NewSession, EmptyData
  <2> QED
    BY <2>4, <2>7, BrowserStep
<1>2. CASE ForkFails(r)
  <2>1. /\ pc[r] = "idle" /\ pc'[r] = "done" /\ \A q \in Requests \ {r} : pc'[q] = pc[q]
        /\ UNCHANGED <<client, cookie, setCookie, sess, jar, sessions, tokenFor, csrfFor>>
    BY <1>2 DEF ForkFails, Goto, TypeOK, response, world, table, drawn, req
  <2>2. cookie[r] = None /\ sess[r] = NewSession /\ setCookie[r] = Unset
    BY <2>1 DEF BrowserInv, IdleIsNew, Active
  <2> QED
    BY <2>1, <2>2, BrowserStep DEF Outside, Settled, OwnAfter, Active
<1>3. CASE Close(r) \/ Crash(r)
  <2>1. Exit(r)
    BY <1>3 DEF Close, Crash
  <2>2. /\ pc'[r] = "done" /\ cookie'[r] = None /\ setCookie'[r] = Unset /\ sess'[r] = NewSession
        /\ \A q \in Requests \ {r} : /\ pc'[q] = pc[q] /\ cookie'[q] = cookie[q]
                                     /\ setCookie'[q] = setCookie[q] /\ sess'[q] = sess[q]
        /\ UNCHANGED <<client, jar, sessions, tokenFor, csrfFor>>
    BY <2>1 DEF Exit, Goto, SetSess, TypeOK, table, drawn
  <2> QED
    BY <2>2, BrowserStep DEF Outside, Settled, OwnAfter, Active
<1> QED
  BY <1>1, <1>2, <1>3 DEF Start

\* The token a commit stores under is its browser's, old or newly drawn.
LEMMA CommitBrowser ==
    ASSUME TypeOK, TypeOK', AnswerInv, IdentityInv, BrowserInv, NEW r \in Requests, NEW t \in Tokens,
           Commit(r, t) \/ CommitFails(r, t)
    PROVE  BrowserInv'
<1>1. /\ AtInsert(r) /\ TakeToken(r, t) /\ Committing(r) /\ (Goto(r, "transmit") \/ SendFails(r))
  BY DEF Commit, CommitFails
<1>2. r \in Active /\ client[r] \in Clients /\ ActiveClient
  BY <1>1 DEF AtInsert, Active, IdentityInv, ActiveClient
<1>3. tokenFor'[t] = client[r] /\ \A u \in Tokens : tokenFor[u] # None => tokenFor'[u] = tokenFor[u]
  <2>1. t = sess[r].token \/ tokenFor[t] = None
    BY <1>1 DEF TakeToken, CommitTokens
  <2>2. t = sess[r].token => tokenFor[t] = client[r]
    BY DEF BrowserInv, RequestsOwn, SessionOf, TokenOf
  <2> QED
    BY <1>1, <2>1, <2>2 DEF TakeToken, TypeOK
<1>4. /\ sess'[r].token = t /\ sess'[r].values = sess[r].values
      /\ \A q \in Requests \ {r} : sess'[q] = sess[q]
  <2>1. SetSess(r, Saved(sess[r], t)) \/ SetSess(r, WithToken(sess[r], t))
    BY DEF Commit, CommitFails
  <2>2. /\ sess'[r] = Saved(sess[r], t) \/ sess'[r] = WithToken(sess[r], t)
        /\ \A q \in Requests \ {r} : sess'[q] = sess[q]
    BY <2>1 DEF SetSess, TypeOK
  <2>3. sess[r] \in SessionRecords
    BY DEF TypeOK
  <2>4. /\ Saved(sess[r], t).token = t /\ WithToken(sess[r], t).token = t
        /\ Saved(sess[r], t).values = sess[r].values
        /\ WithToken(sess[r], t).values = sess[r].values
    BY <2>3 DEF Saved, WithToken, SessionRecords
  <2> QED
    BY <2>2, <2>4
<1>5. /\ UNCHANGED <<client, cookie, jar, csrfFor>>
      /\ setCookie'[r] \in {setCookie[r], t}
      /\ \A q \in Requests \ {r} : setCookie'[q] = setCookie[q]
  BY <1>1 DEF Commit, CommitFails, SetSessionCookie, Committing, TypeOK, req, world
<1>6. r \in Active' /\ \A q \in Requests \ {r} : pc'[q] = pc[q]
  <2>1. after[r] \in {"handler", "close", "asset"}
    BY <1>1 DEF AtInsert, AnswerInv, AnswerOf
  <2> QED
    BY <1>1, <2>1 DEF SendFails, Goto, Active, TypeOK
<1>7. \A u \in Tokens : \/ sessions'[u] = sessions[u]
                        \/ u = t /\ sessions'[u].data = sess[r].values
  BY DEF Commit, CommitFails, TypeOK
<1>8. Outside(r)
  <2>1. Settled
    BY <1>3, <1>5 DEF Settled
  <2>2. \A u \in Tokens :
           \/ sessions'[u] \in {sessions[u], None}
           \/ /\ tokenFor'[u] = client[r] /\ client[r] \in Clients
              /\ sessions'[u].data = sess[r].values
    BY <1>2, <1>3, <1>7
  <2> QED
    BY <1>4, <1>5, <1>6, <2>1, <2>2 DEF Outside
<1>9. OwnAfter(r)
  <2>1. TokenOf(cookie[r], client[r]) /\ TokenOf(setCookie[r], client[r])
          /\ DataOf(sess[r].values, client[r])
    BY DEF BrowserInv, RequestsOwn, SessionOf
  <2>2. \A v \in Tokens : TokenOf(v, client[r]) => tokenFor'[v] = client[r]
    BY <1>2, <1>3, SessionAssumption DEF TokenOf
  <2> QED
    BY <1>3, <1>4, <1>5, <1>6, <2>1, <2>2 DEF OwnAfter, TokenOf, SessionOf, DataOf
<1> QED
  BY <1>2, <1>8, <1>9, BrowserStep

\* A send keeps to the browser, and so does what its response sets.
LEMMA SendBrowser ==
    ASSUME TypeOK, TypeOK', AnswerInv, IdentityInv, BrowserInv, NEW r \in Requests, Send(r)
    PROVE  BrowserInv'
<1>a. ActiveClient
  BY DEF IdentityInv
<1>1. CASE CommitSkip(r) \/ CommitDelete(r) \/ CommitNoToken(r)
  <2>1. r \in Active /\ after[r] \in {"handler", "close", "asset"}
    BY <1>1 DEF CommitSkip, CommitDelete, CommitNoToken, AtInsert, AnswerInv, AnswerOf, Active
  <2>2. /\ UNCHANGED <<client, cookie, jar, setCookie, tokenFor, csrfFor>>
        /\ r \in Active' /\ \A q \in Requests \ {r} : pc'[q] = pc[q]
    BY <1>1, <2>1 DEF CommitSkip, CommitDelete, CommitNoToken, SendFails, Goto, Committing, Active,
                      TypeOK, req, world
  <2>3. \A t \in Tokens : sessions'[t] \in {sessions[t], None}
    BY <1>1 DEF CommitSkip, CommitDelete, CommitNoToken, DeleteRow, TypeOK
  <2>4. TakesOver(r) /\ \A q \in Requests \ {r} : sess'[q] = sess[q]
    BY <1>1, NoTokenSession DEF CommitSkip, CommitDelete, TakesOver
  <2> QED
    BY <1>a, <2>1, <2>2, <2>3, <2>4, StaysBrowser DEF StaysWith
<1>2. ASSUME NEW t \in Tokens, CommitFails(r, t) \/ Commit(r, t)
      PROVE  BrowserInv'
  BY <1>2, CommitBrowser
<1>3. CASE Transmit(r)
  <2>1. r \in Active /\ after[r] \in {"handler", "close", "asset"}
    BY <1>3 DEF Transmit, AnswerInv, AnswerOf, Active
  <2>2. /\ UNCHANGED <<client, cookie, sessions, sess, setCookie, tokenFor, csrfFor>>
        /\ r \in Active' /\ \A q \in Requests \ {r} : pc'[q] = pc[q]
    BY <1>3, <2>1 DEF Transmit, Goto, Active, TypeOK, req, table, drawn
  <2>3. \A c \in Clients : \/ jar'[c] \in {jar[c], None}
                           \/ c = client[r] /\ jar'[c] = setCookie[r]
    BY <1>3 DEF Transmit, JarAfter, TypeOK, world
  <2>4. Outside(r)
    BY <2>2, <2>3 DEF Outside, Settled
  <2>5. OwnAfter(r)
    BY <2>2 DEF OwnAfter, TokenOf, SessionOf, DataOf, BrowserInv, RequestsOwn
  <2> QED
    BY <1>a, <2>4, <2>5, BrowserStep
<1> QED
  BY <1>1, <1>2, <1>3 DEF Send

\* The clock and the cleanup give nothing to anyone.
LEMMA EnvironmentBrowser ==
    ASSUME TypeOK, BrowserInv, Tick \/ sessions_cleanup
    PROVE  BrowserInv'
<1>1. UNCHANGED <<pc, client, cookie, jar, setCookie, sess, tokenFor, csrfFor>>
  BY DEF Tick, sessions_cleanup, req, response, world, drawn
<1>2. \A t \in Tokens : sessions'[t] \in {sessions[t], None}
  BY DEF Tick, sessions_cleanup, TypeOK, table
<1>3. RowsOwn'
  BY <1>1, <1>2 DEF BrowserInv, RowsOwn, DataOf
<1> QED
  BY <1>1, <1>3 DEF BrowserInv, IdleIsNew, JarsOwn, RequestsOwn, Active, TokenOf, SessionOf, DataOf

\* Every step keeps BrowserInv.
LEMMA BrowserNext ==
    TypeOK /\ TypeOK' /\ AnswerInv /\ IdentityInv /\ BrowserInv /\ [Next]_vars => BrowserInv'
<1> SUFFICES ASSUME TypeOK, TypeOK', AnswerInv, IdentityInv, BrowserInv, [Next]_vars
             PROVE  BrowserInv'
  OBVIOUS
<1>a. ActiveClient
  BY DEF IdentityInv
<1>1. CASE UNCHANGED vars
  BY <1>1 DEF vars, BrowserInv, IdleIsNew, JarsOwn, RequestsOwn, RowsOwn, Active, TokenOf,
              SessionOf, DataOf
<1>2. CASE Tick \/ sessions_cleanup
  BY <1>2, EnvironmentBrowser
<1>3. ASSUME NEW r \in Requests, Start(r) \/ Crash(r) PROVE BrowserInv'
  BY <1>3, <1>a, StartBrowser
<1>4. ASSUME NEW r \in Requests, Dispatch(r) \/ HandlerReturn(r) PROVE BrowserInv'
  <2>1. /\ UNCHANGED <<client, cookie, jar, sessions, sess, setCookie, tokenFor, csrfFor>>
        /\ r \in Active /\ r \in Active' /\ \A q \in Requests \ {r} : pc'[q] = pc[q]
    BY <1>4 DEF Dispatch, HandlerReturn, StartSend, Goto, Active, TypeOK, req, response, table,
                drawn, world
  <2> QED
    BY <1>a, <2>1, StaysBrowser DEF StaysWith, TakesOver
<1>5. ASSUME NEW r \in Requests, Step(r) PROVE BrowserInv'
  BY <1>5, <1>4, <1>a, LoadBrowser, VerifyBrowser, CallBrowser, SendBrowser, StartBrowser DEF Step
<1> QED
  BY <1>1, <1>2, <1>3, <1>5 DEF Next

\* BrowserInv is an invariant of the specification.
LEMMA BrowserInvariant == Spec => []BrowserInv
<1>1. Init => BrowserInv
  BY SessionAssumption DEF Init, BrowserInv, IdleIsNew, JarsOwn, RequestsOwn, RowsOwn, TokenOf, SessionOf,
         DataOf, NewSession, EmptyData
<1> QED
  BY <1>1, BrowserNext, TypeCorrect, AnswerInvariant, IdentityInvariant, PTL DEF Spec

\* Tokens, csrf tokens and flash messages never cross from one browser to
\* another, for any number of browsers and overlapping requests and under every
\* failure (session_load, session_commit, csrf_token).
THEOREM IsolationTheorem == Spec => []ClientIsolation
<1>1. TypeOK /\ BrowserInv => ClientIsolation
  <2> SUFFICES ASSUME TypeOK, BrowserInv PROVE ClientIsolation
    OBVIOUS
  <2>1. \A c \in Clients : jar[c] # None => tokenFor[jar[c]] = c
    BY DEF TypeOK, BrowserInv, JarsOwn, TokenOf
  <2>2. \A r \in Requests : sess[r].token # None => sess[r].token \in Tokens
    BY DEF TypeOK, SessionRecords
  <2> QED
    BY <2>1, <2>2 DEF ClientIsolation, BrowserInv, RequestsOwn, SessionOf, DataOf, TokenOf
<1> QED
  BY <1>1, BrowserInvariant, TypeCorrect, PTL

\* A step of one child moves no other.
LEMMA OthersStand ==
    ASSUME TypeOK, NEW r \in Requests, Start(r) \/ Step(r) \/ Crash(r)
    PROVE  \A q \in Requests \ {r} : pc'[q] = pc[q]
<1>1. CASE Start(r) \/ Crash(r) \/ Close(r)
  BY <1>1 DEF Start, Begin, BeginRefused, ForkFails, Crash, Close, Exit, StartSend, Goto, TypeOK
<1>2. CASE Load(r)
  BY <1>2 DEF Load, LoadMiss, LoadRow, LoadStale, LoadFails, Reap, Goto, TypeOK
<1>3. CASE Dispatch(r) \/ HandlerReturn(r) \/ CsrfVerify(r)
  BY <1>3 DEF Dispatch, HandlerReturn, CsrfVerify, StartSend, Goto, TypeOK
<1>4. CASE Call(r)
  BY <1>4 DEF Call, session_set, session_delete, session_clear, session_regenerate, auth_login,
              flash_set, flash_get, csrf_token, session_destroy, context_send, InMemory,
              StartSend, Goto, TypeOK
<1>5. CASE Send(r)
  BY <1>5 DEF Send, CommitSkip, CommitDelete, CommitNoToken, CommitFails, Commit, Transmit,
              SendFails, Goto, TypeOK
<1> QED
  BY <1>1, <1>2, <1>3, <1>4, <1>5 DEF Step

\* A form carries no token but one that was drawn before: so it never carries
\* the one that csrf_verify is about to draw.
FormKnown == \A r \in Requests : form[r] # None => csrfFor[form[r]] # None

\* A step that takes to a form no token but one that was drawn, and forgets of none
\* that it was.
FormKept ==
    /\ \A r \in Requests : form'[r] \in {form[r], None} \/ csrfFor[form'[r]] # None
    /\ \A x \in CsrfTokens : csrfFor[x] # None => csrfFor'[x] # None

\* A form changes only when its request begins, is verified or ends, and a token
\* once drawn stays so.
LEMMA FormSteps ==
    ASSUME TypeOK, [Next]_vars
    PROVE  FormKept
<1>1. CASE UNCHANGED <<form, csrfFor>>
  BY <1>1 DEF FormKept
<1>2. CASE UNCHANGED vars \/ Tick \/ sessions_cleanup
  BY <1>1, <1>2 DEF vars, Tick, sessions_cleanup, req, drawn
<1>3. ASSUME NEW r \in Requests, Start(r) PROVE FormKept
  <2>1. ASSUME NEW c \in Clients, NEW m \in {"GET", "POST"},
               NEW l \in {"verify", "dispatch"}, NEW f \in CsrfTokens \cup {None},
               Begin(r, c, m, l, f)
        PROVE  FormKept
    BY <2>1 DEF FormKept, Begin, drawn, TypeOK
  <2>2. CASE \/ \E c \in Clients : BeginRefused(r, c)
             \/ ForkFails(r)
    BY <1>1, <2>2 DEF BeginRefused, ForkFails, req, drawn
  <2> QED
    BY <1>3, <2>1, <2>2 DEF Start
<1>4. ASSUME NEW r \in Requests, Close(r) \/ Crash(r) PROVE FormKept
  BY <1>4 DEF FormKept, Close, Crash, Exit, drawn, TypeOK
<1>5. ASSUME NEW r \in Requests, NoCsrf(r) \/ \E c \in ExpectedCsrf(r) : HasCsrf(r, c)
      PROVE  \A x \in CsrfTokens : csrfFor[x] # None => csrfFor'[x] # None
  BY <1>5 DEF NoCsrf, HasCsrf, drawn, TypeOK
<1>6. ASSUME NEW r \in Requests, CsrfVerify(r) PROVE FormKept
  <2>1. NoCsrf(r) \/ \E c \in ExpectedCsrf(r) : HasCsrf(r, c)
    BY <1>6 DEF CsrfVerify
  <2> QED
    BY <1>5, <1>6, <2>1 DEF FormKept, CsrfVerify, TypeOK
<1>7. ASSUME NEW r \in Requests, Call(r) PROVE FormKept
  <2>1. CASE csrf_token(r)
    <3>1. NoCsrf(r) \/ \E c \in ExpectedCsrf(r) : HasCsrf(r, c)
      BY <2>1 DEF csrf_token
    <3>2. UNCHANGED form
      BY <2>1 DEF csrf_token, Calling, req
    <3> QED
      BY <1>5, <3>1, <3>2 DEF FormKept
  <2>2. CASE ~csrf_token(r)
    BY <1>1, <1>7, <2>2
    DEF Call, session_set, session_delete, session_clear, session_regenerate, auth_login,
        flash_set, flash_get, session_destroy, context_send, InMemory, Calling, req
  <2> QED
    BY <2>1, <2>2
<1>8. ASSUME NEW r \in Requests, Load(r) \/ Dispatch(r) \/ HandlerReturn(r) PROVE FormKept
  BY <1>1, <1>8 DEF Load, LoadMiss, LoadRow, LoadStale, LoadFails, Loading, Reap, Dispatch,
                    HandlerReturn, req, drawn
<1>9. ASSUME NEW r \in Requests, Send(r) PROVE FormKept
  BY <1>1, <1>9 DEF Send, CommitSkip, CommitDelete, CommitNoToken, CommitFails, Commit, Committing,
                    Transmit, req, drawn
<1>10. ASSUME NEW r \in Requests, Step(r) PROVE FormKept
  BY <1>4, <1>6, <1>7, <1>8, <1>9, <1>10 DEF Step
<1> QED
  BY <1>2, <1>3, <1>4, <1>10 DEF Next

\* FormKnown is an invariant of the specification.
LEMMA FormInvariant == Spec => []FormKnown
<1>1. Init => FormKnown
  BY DEF Init, FormKnown
<1>2. TypeOK /\ TypeOK' /\ FormKnown /\ [Next]_vars => FormKnown'
  <2> SUFFICES ASSUME TypeOK, TypeOK', FormKnown, [Next]_vars,
                      NEW r \in Requests, form'[r] # None
               PROVE  csrfFor'[form'[r]] # None
    BY DEF FormKnown
  <2>1. form'[r] \in CsrfTokens
    BY DEF TypeOK
  <2>2. csrfFor[form'[r]] # None
    BY FormSteps DEF FormKept, FormKnown
  <2> QED
    BY <2>1, <2>2, FormSteps DEF FormKept
<1> QED
  BY <1>1, <1>2, TypeCorrect, PTL DEF Spec

\* Only csrf_verify sends a request that is to be verified on to the router, and
\* only if its form carries the token that its own session held before.
LEMMA VerifyBinds ==
    ASSUME TypeOK, TypeOK', BrowserInv, FormKnown, [Next]_vars, NEW r \in Requests,
           pc[r] = "verify", pc'[r] = "dispatch"
    PROVE  /\ form[r] # None
           /\ form[r] = sess[r].values.csrf
           /\ csrfFor[form[r]] = client[r]
<1>1. SUFFICES form[r] # None /\ form[r] = sess[r].values.csrf
  BY DEF BrowserInv, RequestsOwn, SessionOf, DataOf
<1>2. PICK q \in Requests : Start(q) \/ Step(q) \/ Crash(q)
  BY DEF Next, vars, Tick, sessions_cleanup
<1>3. q = r
  BY <1>2, OthersStand
<1>4. CsrfVerify(r)
  <2>1. ~Start(r) /\ ~Dispatch(r) /\ ~HandlerReturn(r) /\ ~Close(r)
    BY DEF Start, Begin, BeginRefused, ForkFails, Dispatch, HandlerReturn, Close
  <2>2. ~Crash(r)
    BY DEF Crash, Exit, Goto, TypeOK
  <2>3. ~Load(r)
    BY DEF Load, LoadMiss, LoadRow, LoadStale, LoadFails, Reap, Goto, TypeOK
  <2>4. ~Call(r)
    BY DEF Call, session_set, session_delete, session_clear, session_regenerate, auth_login,
           flash_set, flash_get, csrf_token, session_destroy, context_send, InMemory, Calling
  <2>5. ~Send(r)
    BY DEF Send, CommitSkip, CommitDelete, CommitNoToken, CommitFails, Commit, Transmit, AtInsert
  <2> QED
    BY <1>2, <1>3, <2>1, <2>2, <2>3, <2>4, <2>5 DEF Step
<1>5. PICK expected \in ExpectedCsrf(r) \cup {None} : Matches(expected, form[r])
  BY <1>4 DEF CsrfVerify, StartSend, Goto, TypeOK
<1>6. form[r] # None /\ form[r] \in ExpectedCsrf(r)
  BY <1>5 DEF Matches
<1> QED
  BY <1>6 DEF ExpectedCsrf, FormKnown

\* A form passes csrf_verify only with the csrf token that its session held and
\* that was drawn for its browser, for any number of overlapping requests.
THEOREM CsrfTheorem == Spec => CsrfBinding
<1>1. TypeOK /\ TypeOK' /\ BrowserInv /\ FormKnown /\ [Next]_vars
        => [\A r \in Requests :
               pc[r] = "verify" /\ pc'[r] = "dispatch" =>
                  /\ form[r] # None
                  /\ form[r] = sess[r].values.csrf
                  /\ csrfFor[form[r]] = client[r]]_vars
  BY VerifyBinds
<1> QED
  BY <1>1, BrowserInvariant, FormInvariant, TypeCorrect, PTL DEF Spec, CsrfBinding

----------------------------------------------------------------------------
(* One request at a time: LogoutIsFinal and FlashAtMostOnce.               *)

\* At most one child runs.
Alone == \A r, q \in Active : r = q

\* Only a child that runs takes a step.
LEMMA ChildRuns ==
    ASSUME TypeOK, NEW r \in Requests, Step(r) \/ Crash(r)
    PROVE  r \in Active
<1>1. CASE Load(r) \/ Dispatch(r) \/ HandlerReturn(r) \/ Close(r) \/ Crash(r)
  BY <1>1 DEF Load, LoadMiss, LoadRow, LoadStale, LoadFails, Loading, Reap, Dispatch, HandlerReturn,
              Close, Crash, Active
<1>2. CASE CsrfVerify(r)
  BY <1>2 DEF CsrfVerify, Active
<1>3. CASE Call(r)
  BY <1>3 DEF Call, session_set, session_delete, session_clear, session_regenerate, auth_login,
              flash_set, flash_get, csrf_token, session_destroy, context_send, InMemory, Calling,
              Active
<1>4. CASE Send(r)
  BY <1>4 DEF Send, CommitSkip, CommitDelete, CommitNoToken, CommitFails, Commit, Transmit,
              AtInsert, Active
<1> QED
  BY <1>1, <1>2, <1>3, <1>4 DEF Step

\* If the bound is one, a connection is accepted only when no child runs.
LEMMA AloneStep ==
    ASSUME MaxOverlap <= 1, TypeOK, Alone, [Next]_vars
    PROVE  Alone'
<1>1. CASE UNCHANGED vars \/ Tick \/ sessions_cleanup
  BY <1>1 DEF vars, Tick, sessions_cleanup, Alone, Active
<1>2. ASSUME NEW r \in Requests, Start(r) \/ Step(r) \/ Crash(r)
      PROVE  Alone'
  <2>1. \A q \in Requests \ {r} : pc'[q] = pc[q]
    BY <1>2, OthersStand
  <2>2. CASE r \in Active
    BY <2>1, <2>2 DEF Alone, Active
  <2>3. CASE Active = {}
    BY <2>1, <2>3 DEF Alone, Active
  <2>4. CASE r \notin Active /\ Active # {}
    <3>1. PICK q \in Requests : Active = {q}
      BY <2>4 DEF Alone, Active
    <3>2. Cardinality(Active) = 1
      BY <3>1, FS_Singleton
    <3>3. ~(Cardinality(Active) < MaxOverlap)
      BY <3>2, SessionAssumption
    <3>4. Start(r)
      BY <1>2, <2>4, ChildRuns
    <3>5. ForkFails(r)
      BY <3>3, <3>4 DEF Start, Begin, BeginRefused
    <3>6. r \notin Active'
      BY <3>5 DEF ForkFails, Goto, Active, TypeOK
    <3> QED
      BY <2>1, <2>4, <3>6 DEF Alone, Active
  <2> QED
    BY <2>2, <2>3, <2>4
<1> QED
  BY <1>1, <1>2 DEF Next

\* A child that has a destroyed session either drops its token or replaces it
\* with the next commit; nothing can be loaded from a destroyed row.
LogoutInv ==
    \A t \in destroyed :
        /\ sessions[t] = None
        /\ tokenFor[t] # None
        /\ \A r \in Requests : sess[r].token = t => sess[r].regenerate

\* From session x a step made session y that gives the token up or is as bound to
\* replace it as x.
StaysMarked(x, y) == y.token # None => y.token = x.token /\ (x.regenerate => y.regenerate)

\* Such steps keep LogoutInv.
LEMMA MarkedStep ==
    ASSUME TypeOK, LogoutInv, NEW r \in Requests, UNCHANGED <<destroyed, tokenFor>>,
           \A t \in Tokens : sessions'[t] \in {sessions[t], None},
           \A q \in Requests \ {r} : sess'[q] = sess[q],
           StaysMarked(sess[r], sess'[r])
    PROVE  LogoutInv'
<1>1. \A t \in destroyed : t \in Tokens /\ t # None
  BY SessionAssumption DEF TypeOK
<1> QED
  BY <1>1 DEF LogoutInv, StaysMarked

\* Every operator on sessions stays marked.
LEMMA MarkedSession ==
    ASSUME NEW x \in SessionRecords
    PROVE  /\ StaysMarked(x, x)
           /\ StaysMarked(x, NewSession)
           /\ \A d \in Data, e \in BOOLEAN : StaysMarked(x, Loaded(x, d, None, e))
           /\ \A u \in Users : StaysMarked(x, Login(x, u))
           /\ \A c \in CsrfTokens : StaysMarked(x, SetCsrf(x, c))
           /\ \A m \in Messages : StaysMarked(x, SetFlash(x, m))
           /\ \A k \in AppKeys, v \in AppValues : StaysMarked(x, SetApp(x, k, v))
           /\ \A k \in AppKeys : StaysMarked(x, DeleteApp(x, k))
           /\ StaysMarked(x, DeleteFlash(x))
           /\ StaysMarked(x, Clear(x))
           /\ StaysMarked(x, Regenerate(x))
<1>1. StaysMarked(x, x) /\ StaysMarked(x, NewSession) /\ StaysMarked(x, Regenerate(x))
  BY DEF StaysMarked, NewSession, Regenerate, SessionRecords
<1>2. \A d \in Data, e \in BOOLEAN : StaysMarked(x, Loaded(x, d, None, e))
  BY DEF StaysMarked, Loaded, SessionRecords
<1>3. \A u \in Users : StaysMarked(x, Login(x, u))
  BY DEF StaysMarked, Login, SetUser, Regenerate, SessionRecords
<1>4. /\ \A c \in CsrfTokens : StaysMarked(x, SetCsrf(x, c))
      /\ \A m \in Messages : StaysMarked(x, SetFlash(x, m))
      /\ \A k \in AppKeys, v \in AppValues : StaysMarked(x, SetApp(x, k, v))
  BY DEF StaysMarked, SetCsrf, SetFlash, SetApp, SessionRecords, Data
<1>5. StaysMarked(x, DeleteFlash(x)) /\ \A k \in AppKeys : StaysMarked(x, DeleteApp(x, k))
  BY DEF StaysMarked, DeleteFlash, DeleteApp, SessionRecords, Data
<1>6. StaysMarked(x, Clear(x))
  BY DEF StaysMarked, Clear, EmptyData, SessionRecords
<1> QED
  BY <1>1, <1>2, <1>3, <1>4, <1>5, <1>6

\* Steps that leave the session in memory alone, or take its token from it.
LEMMA LogoutMoves ==
    ASSUME TypeOK, LogoutInv, NEW r \in Requests,
           \/ Start(r) \/ Dispatch(r) \/ HandlerReturn(r) \/ context_send(r) \/ Reap(r)
           \/ CommitSkip(r) \/ CommitDelete(r) \/ CommitNoToken(r) \/ Transmit(r)
           \/ Tick \/ sessions_cleanup
    PROVE  LogoutInv'
<1>1. UNCHANGED <<destroyed, tokenFor>> /\ (UNCHANGED sess \/ CommitNoToken(r))
  <2>1. CASE Start(r) \/ Dispatch(r) \/ HandlerReturn(r) \/ context_send(r) \/ Reap(r)
    BY <2>1 DEF Start, Begin, BeginRefused, ForkFails, Dispatch, HandlerReturn, context_send, Calling,
                Reap, table, drawn
  <2>2. CASE \/ CommitSkip(r) \/ CommitDelete(r) \/ CommitNoToken(r) \/ Transmit(r)
             \/ Tick \/ sessions_cleanup
    BY <2>2 DEF CommitSkip, CommitDelete, CommitNoToken, Committing, Transmit, Tick,
                sessions_cleanup, table, drawn
  <2> QED
    BY <2>1, <2>2
<1>2. \A t \in Tokens : sessions'[t] \in {sessions[t], None}
  <2>1. CASE Start(r) \/ Dispatch(r) \/ HandlerReturn(r) \/ context_send(r) \/ Reap(r)
    BY <2>1 DEF Start, Begin, BeginRefused, ForkFails, Dispatch, HandlerReturn, context_send, Reap,
                table, TypeOK
  <2>2. CASE \/ CommitSkip(r) \/ CommitDelete(r) \/ CommitNoToken(r) \/ Transmit(r)
             \/ Tick \/ sessions_cleanup
    BY <2>2 DEF CommitSkip, CommitDelete, CommitNoToken, DeleteRow, Transmit, Tick,
                sessions_cleanup, table, TypeOK
  <2> QED
    BY <2>1, <2>2
<1>3. StaysMarked(sess[r], sess'[r]) /\ \A q \in Requests \ {r} : sess'[q] = sess[q]
  BY <1>1, NoTokenSession DEF StaysMarked
<1> QED
  BY <1>1, <1>2, <1>3, MarkedStep

\* session_load takes the cookie's token only together with its row.
LEMMA LogoutLoad ==
    ASSUME TypeOK, LogoutInv, NEW r \in Requests, Load(r)
    PROVE  LogoutInv'
<1>s. sess[r] \in SessionRecords
  BY DEF TypeOK
<1>1. CASE Reap(r)
  BY <1>1, LogoutMoves
<1>2. CASE LoadRow(r)
  <2>1. /\ sess'[r].token = cookie[r]
        /\ \A q \in Requests \ {r} : sess'[q] = sess[q]
    BY <1>2, <1>s, RowType DEF LoadRow, SetSess, Loaded, TypeOK, SessionRecords
  <2>2. sessions[cookie[r]] # None /\ UNCHANGED <<destroyed, tokenFor, sessions>>
    BY <1>2, RowType DEF LoadRow, Loading, table, drawn
  <2> QED
    BY <2>1, <2>2 DEF LogoutInv
<1>3. CASE LoadMiss(r) \/ LoadStale(r) \/ LoadFails(r)
  <2>1. PICK d \in Data, e \in BOOLEAN : SetSess(r, Loaded(sess[r], d, None, e))
    BY <1>3, DataTypes, RowType DEF LoadMiss, LoadStale, LoadFails, Parts
  <2>2. StaysMarked(sess[r], Loaded(sess[r], d, None, e))
    BY <1>s, MarkedSession
  <2>3. UNCHANGED <<destroyed, tokenFor, sessions>>
    BY <1>3 DEF LoadMiss, LoadStale, LoadFails, Loading, table, drawn
  <2>4. sess'[r] = Loaded(sess[r], d, None, e) /\ \A q \in Requests \ {r} : sess'[q] = sess[q]
    BY <2>1 DEF SetSess, TypeOK
  <2> QED
    BY <2>2, <2>3, <2>4, MarkedStep
<1> QED
  BY <1>1, <1>2, <1>3 DEF Load

\* A csrf token does not change a session's token.
LEMMA LogoutCsrf ==
    ASSUME TypeOK, LogoutInv, NEW r \in Requests,
           NoCsrf(r) \/ \E c \in ExpectedCsrf(r) : HasCsrf(r, c),
           UNCHANGED <<destroyed, sessions>>
    PROVE  LogoutInv'
<1>s. sess[r] \in SessionRecords
  BY DEF TypeOK
<1>1. CASE NoCsrf(r)
  BY <1>1, <1>s, MarkedSession, MarkedStep DEF NoCsrf, drawn
<1>2. ASSUME NEW c \in ExpectedCsrf(r), HasCsrf(r, c)
      PROVE  LogoutInv'
  <2>1. c \in CsrfTokens
    BY <1>s DEF ExpectedCsrf, SessionRecords, Data
  <2>2. sess'[r] \in {sess[r], SetCsrf(sess[r], c)} /\ \A q \in Requests \ {r} : sess'[q] = sess[q]
    BY <1>2 DEF HasCsrf, SetSess, TypeOK
  <2>3. StaysMarked(sess[r], sess'[r])
    BY <2>1, <2>2, <1>s, MarkedSession
  <2> QED
    BY <1>2, <2>2, <2>3, MarkedStep DEF HasCsrf
<1> QED
  BY <1>1, <1>2

\* A call in memory keeps LogoutInv if the session it makes stays marked.
LEMMA LogoutInMemory ==
    ASSUME TypeOK, LogoutInv, NEW r \in Requests, NEW y, InMemory(r, y), StaysMarked(sess[r], y)
    PROVE  LogoutInv'
<1>1. sess'[r] = y /\ \A q \in Requests \ {r} : sess'[q] = sess[q]
  BY DEF InMemory, SetSess, TypeOK
<1>2. UNCHANGED <<destroyed, tokenFor, sessions>>
  BY DEF InMemory, Calling, table
<1> QED
  BY <1>1, <1>2, MarkedStep

\* session_destroy marks the only session that has the token.
LEMMA LogoutDestroys ==
    ASSUME TypeOK, IdentityInv, BrowserInv, Alone, LogoutInv, NEW r \in Requests, session_destroy(r)
    PROVE  LogoutInv'
<1>s. sess[r] \in SessionRecords
  BY DEF TypeOK
<1>1. CASE UNCHANGED <<sessions, destroyed, sess>>
  <2>1. UNCHANGED tokenFor
    BY DEF session_destroy, Calling
  <2> QED
    BY <1>1, <2>1 DEF LogoutInv
<1>2. CASE /\ DeleteRow(r)
           /\ SetSess(r, Destroyed(sess[r]))
           /\ destroyed' = destroyed \cup ({sess[r].token} \ {None})
  <2>1. r \in Active /\ UNCHANGED tokenFor
    BY DEF session_destroy, Calling, Active
  <2>2. \A q \in Requests \ {r} : sess[q].token = None
    BY <2>1 DEF Alone, BrowserInv, IdleIsNew, NewSession
  <2>3. /\ sess'[r] = Destroyed(sess[r])
        /\ \A q \in Requests \ {r} : sess'[q] = sess[q]
    BY <1>2 DEF SetSess, TypeOK
  <2>4. sess'[r].token = sess[r].token /\ sess'[r].regenerate
    BY <2>3, <1>s DEF Destroyed, SessionRecords
  <2>5. \A t \in destroyed' : t \in Tokens /\ t # None
    BY <1>2, <1>s, SessionAssumption DEF TypeOK, SessionRecords
  <2>6. \A t \in destroyed' : tokenFor[t] # None
    BY <1>2, <2>5 DEF LogoutInv, IdentityInv, FreshTokens
  <2>7. \A t \in destroyed' : sessions'[t] = None
    BY <1>2, <2>5 DEF LogoutInv, DeleteRow, TypeOK
  <2> QED
    BY <2>1, <2>2, <2>3, <2>4, <2>5, <2>6, <2>7 DEF LogoutInv
<1> QED
  BY <1>1, <1>2 DEF session_destroy

\* Every call of a handler keeps LogoutInv.
LEMMA LogoutCalls ==
    ASSUME TypeOK, IdentityInv, BrowserInv, Alone, LogoutInv, NEW r \in Requests, Call(r)
    PROVE  LogoutInv'
<1>s. sess[r] \in SessionRecords
  BY DEF TypeOK
<1>1. ASSUME NEW k \in AppKeys, session_delete(r, k)
      PROVE  LogoutInv'
  BY <1>1, <1>s, MarkedSession, LogoutInMemory DEF session_delete
<1>2. ASSUME NEW k \in AppKeys, NEW v \in AppValues, session_set(r, k, v)
      PROVE  LogoutInv'
  BY <1>2, <1>s, MarkedSession, LogoutInMemory DEF session_set
<1>3. CASE session_clear(r) \/ session_regenerate(r)
  BY <1>3, <1>s, MarkedSession, LogoutInMemory DEF session_clear, session_regenerate
<1>4. ASSUME NEW u \in Users, auth_login(r, u)
      PROVE  LogoutInv'
  BY <1>4, <1>s, MarkedSession, LogoutInMemory DEF auth_login
<1>5. CASE flash_set(r)
  <2>1. <<r, calls[r]>> \in Messages
    BY DEF TypeOK, Messages
  <2> QED
    BY <1>5, <2>1, <1>s, MarkedSession, LogoutInMemory DEF flash_set
<1>6. CASE flash_get(r)
  BY <1>6, <1>s, MarkedSession, LogoutInMemory DEF flash_get
<1>7. CASE csrf_token(r)
  BY <1>7, LogoutCsrf DEF csrf_token, table
<1>8. CASE session_destroy(r)
  BY <1>8, LogoutDestroys
<1>9. CASE context_send(r)
  BY <1>9, LogoutMoves
<1> QED
  BY <1>1, <1>2, <1>3, <1>4, <1>5, <1>6, <1>7, <1>8, <1>9 DEF Call

\* A commit stores under a token that is not to be replaced, or a new one: never
\* under a destroyed one.
LEMMA LogoutCommits ==
    ASSUME TypeOK, LogoutInv, NEW r \in Requests, NEW t \in Tokens, CommitFails(r, t) \/ Commit(r, t)
    PROVE  LogoutInv'
<1>1. TakeToken(r, t) /\ UNCHANGED destroyed
  BY DEF CommitFails, Commit, Committing
<1>2. t \notin destroyed
  <2>1. (t = sess[r].token /\ ~sess[r].regenerate) \/ tokenFor[t] = None
    BY <1>1 DEF TakeToken, CommitTokens
  <2> QED
    BY <2>1 DEF LogoutInv
<1>3. \A u \in Tokens \ {t} : sessions'[u] = sessions[u] /\ tokenFor'[u] = tokenFor[u]
  BY <1>1 DEF CommitFails, Commit, TakeToken, TypeOK
<1>4. sess'[r].token = t /\ \A q \in Requests \ {r} : sess'[q] = sess[q]
  <2>1. SetSess(r, Saved(sess[r], t)) \/ SetSess(r, WithToken(sess[r], t))
    BY DEF Commit, CommitFails
  <2>2. /\ sess'[r] = Saved(sess[r], t) \/ sess'[r] = WithToken(sess[r], t)
        /\ \A q \in Requests \ {r} : sess'[q] = sess[q]
    BY <2>1 DEF SetSess, TypeOK
  <2>3. sess[r] \in SessionRecords
    BY DEF TypeOK
  <2>4. Saved(sess[r], t).token = t /\ WithToken(sess[r], t).token = t
    BY <2>3 DEF Saved, WithToken, SessionRecords
  <2> QED
    BY <2>2, <2>4
<1>5. destroyed \subseteq Tokens
  BY DEF TypeOK
<1> QED
  BY <1>1, <1>2, <1>3, <1>4, <1>5 DEF LogoutInv

\* A child that ends drops its session.
LEMMA LogoutExit ==
    ASSUME TypeOK, LogoutInv, NEW r \in Requests, Exit(r)
    PROVE  LogoutInv'
<1>1. UNCHANGED <<destroyed, tokenFor, sessions>>
  BY DEF Exit, table, drawn
<1>2. sess'[r] = NewSession /\ \A q \in Requests \ {r} : sess'[q] = sess[q]
  BY DEF Exit, SetSess, TypeOK
<1>3. StaysMarked(sess[r], NewSession)
  BY MarkedSession DEF TypeOK
<1> QED
  BY <1>1, <1>2, <1>3, MarkedStep

\* Every step keeps LogoutInv while one child runs.
LEMMA LogoutStep ==
    TypeOK /\ IdentityInv /\ BrowserInv /\ Alone /\ LogoutInv /\ [Next]_vars => LogoutInv'
<1> SUFFICES ASSUME TypeOK, IdentityInv, BrowserInv, Alone, LogoutInv, [Next]_vars
             PROVE  LogoutInv'
  OBVIOUS
<1>1. CASE UNCHANGED vars
  BY <1>1 DEF vars, LogoutInv
<1>2. CASE Tick \/ sessions_cleanup
  <2>1. CASE Requests = {}
    BY <1>2, <2>1 DEF LogoutInv, Tick, sessions_cleanup, table, drawn, TypeOK
  <2>2. CASE Requests # {}
    BY <1>2, <2>2, LogoutMoves
  <2> QED
    BY <2>1, <2>2
<1>3. ASSUME NEW r \in Requests, Start(r) PROVE LogoutInv'
  BY <1>3, LogoutMoves
<1>4. ASSUME NEW r \in Requests, Send(r) PROVE LogoutInv'
  BY <1>4, LogoutMoves, LogoutCommits DEF Send
<1>5. ASSUME NEW r \in Requests, CsrfVerify(r)
      PROVE  LogoutInv'
  BY <1>5, LogoutCsrf DEF CsrfVerify, table
<1>6. ASSUME NEW r \in Requests, Close(r) \/ Crash(r) PROVE LogoutInv'
  BY <1>6, LogoutExit DEF Close, Crash
<1>7. ASSUME NEW r \in Requests, Step(r) PROVE LogoutInv'
  BY <1>4, <1>5, <1>6, <1>7, LogoutLoad, LogoutCalls, LogoutMoves DEF Step
<1> QED
  BY <1>1, <1>2, <1>3, <1>6, <1>7 DEF Next

\* With a bound of one, at most one child ever runs.
LEMMA AloneInvariant ==
    ASSUME MaxOverlap <= 1
    PROVE  Spec => []Alone
<1>1. Init => Alone
  BY DEF Init, Alone, Active
<1>2. TypeOK /\ Alone /\ [Next]_vars => Alone'
  BY AloneStep
<1> QED
  BY <1>1, <1>2, TypeCorrect, PTL DEF Spec

\* After session_destroy nothing is ever stored under the token again, for any
\* number of requests that do not overlap, whatever the rest of the request does
\* and whatever fails.  (SignedOut shows what overlapping requests do.)
THEOREM LogoutTheorem ==
    ASSUME MaxOverlap <= 1
    PROVE  Spec => []LogoutIsFinal
<1>1. Init => LogoutInv
  BY DEF Init, LogoutInv
<1>2. LogoutInv => LogoutIsFinal
  BY DEF LogoutInv, LogoutIsFinal
<1> QED
  BY <1>1, <1>2, LogoutStep, AloneInvariant, TypeCorrect, IdentityInvariant, BrowserInvariant, PTL
  DEF Spec

\* Row t holds message m.
Stores(t, m) == sessions[t] # None /\ sessions[t].data.flash = m

\* Message m was set before now: no flash_set makes it again.
Past(m) == pc[m[1]] = "done" \/ m[2] < calls[m[1]]

\* FlashAtMostOnce is not inductive.  It needs, while one request runs, that every
\* message anywhere is a past one,
MessagesPast ==
    /\ \A t \in Tokens, m \in Messages : Stores(t, m) => Past(m)
    /\ \A r \in Requests : sess[r].values.flash # None => Past(sess[r].values.flash)
    /\ \A r \in Requests : \A m \in seen[r] : Past(m)

\* that one row at most has it, the one whose session has it in memory too,
OneRow ==
    \A m \in Messages :
        /\ \A t, u \in Tokens : Stores(t, m) /\ Stores(u, m) => t = u
        /\ \A r \in Requests, t \in Tokens :
              sess[r].values.flash = m /\ Stores(t, m) => t = sess[r].token

\* that a commit goes on after its DELETE, and has no row then, and nothing has
\* been read from a session that is not loaded or is destroyed,
StepByStep ==
    \A r \in Active :
        /\ pc[r] = "insert" => /\ NeedsSave(sess[r])
                               /\ sess[r].token = None \/ sessions[sess[r].token] = None
        /\ ~sess[r].loaded => sess[r] = NewSession /\ seen[r] = {}
        /\ sess[r].destroy => sess[r].values.flash = None
        /\ r \in delivered => sent[r]

\* that a message which was read is stored only as long as the commit that
\* overwrites it is to come,
SeenUntilSaved ==
    \A r \in Active : \A m \in seen[r] :
        /\ sess[r].values.flash # m
        /\ \A t \in Tokens :
              Stores(t, m) => /\ t = sess[r].token
                              /\ NeedsSave(sess[r])
                              /\ pc[r] # "transmit"
                              /\ r \notin delivered

\* and that one which was shown is nowhere any more.
ShownIsGone ==
    \A q \in Requests : pc[q] = "done" => \A m \in seen[q] :
        /\ \A t \in Tokens : ~Stores(t, m)
        /\ \A r \in Requests : sess[r].values.flash # m

SeenByOne ==
    /\ \A q \in Requests : pc[q] = "idle" => seen[q] = {}
    /\ \A q, r \in Requests : q # r => seen[q] \cap seen[r] = {}

\* Only children that run are delivered to.
DeliveredRuns == delivered \subseteq Active

FlashInv ==
    /\ MessagesPast
    /\ OneRow
    /\ StepByStep
    /\ SeenUntilSaved
    /\ ShownIsGone
    /\ SeenByOne
    /\ DeliveredRuns

\* While child r runs, every other child is new.
LEMMA OthersAreNew ==
    ASSUME TypeOK, BrowserInv, Alone, NEW r \in Active
    PROVE  \A q \in Requests \ {r} :
              /\ q \notin Active /\ pc[q] \in {"idle", "done"}
              /\ sess[q].values.flash = None /\ sess[q].token = None
  BY DEF TypeOK, PCs, Active, Alone, BrowserInv, IdleIsNew, NewSession, EmptyData

\* A step of child r that stores no row.
Adds(r) ==
    /\ r \in Active /\ r \in Active'
    /\ \A q \in Requests \ {r} :
          pc'[q] = pc[q] /\ sess'[q] = sess[q] /\ seen'[q] = seen[q] /\ calls'[q] = calls[q]
    /\ calls'[r] \in {calls[r], calls[r] + 1}
    /\ UNCHANGED <<delivered, sent>>
    /\ \A t \in Tokens : sessions'[t] \in {sessions[t], None}

\* Past messages stay so, and rows come from before the step.
LEMMA AddsPast ==
    ASSUME TypeOK, NEW r \in Requests, Adds(r)
    PROVE  /\ \A m \in Messages : Past(m) => Past(m)'
           /\ \A m \in Messages, t \in Tokens : Stores(t, m)' => Stores(t, m)
<1>1. ASSUME NEW m \in Messages, Past(m)
      PROVE  Past(m)'
  <2>1. m[1] \in Requests /\ m[2] \in Nat
    BY SessionAssumption DEF Messages
  <2>2. calls[r] \in Nat /\ pc[r] # "done"
    BY SessionAssumption DEF TypeOK, Adds, Active
  <2> QED
    BY <1>1, <2>1, <2>2 DEF Past, Adds
<1>2. \A m \in Messages, t \in Tokens : Stores(t, m)' => Stores(t, m)
  BY DEF Adds, Stores
<1> QED
  BY <1>1, <1>2

\* A step after which the session has the message it had, or none, and its token
\* if that has a row.
KeepsFlash(r) ==
    /\ sess'[r].token \in {None, sess[r].token}
    /\ \A t \in Tokens : t = sess[r].token /\ sessions'[t] # None => t = sess'[r].token
    /\ sess'[r].values.flash \in {None, sess[r].values.flash}
    /\ ~sess'[r].loaded => sess'[r] = sess[r] /\ seen'[r] = seen[r]
    /\ sess'[r].destroy => sess'[r].values.flash = None
    /\ \A t \in Tokens :
          t = sess[r].token /\ sessions'[t] # None /\ NeedsSave(sess[r]) => NeedsSave(sess[r])'
    /\ pc'[r] = "transmit" => ~NeedsSave(sess[r])'
    /\ pc'[r] = "insert" => /\ NeedsSave(sess[r])'
                            /\ sess[r].token = None \/ sessions'[sess[r].token] = None
    /\ \/ seen'[r] = seen[r]
       \/ /\ seen'[r] = seen[r] \cup {sess[r].values.flash}
          /\ sess[r].values.flash # None /\ sess'[r].values.flash = None
          /\ NeedsSave(sess[r])' /\ ~sent[r]

\* Such a step keeps FlashInv.
LEMMA KeepsFlashStep ==
    ASSUME TypeOK, TypeOK', BrowserInv, Alone, FlashInv, NEW r \in Requests, Adds(r), KeepsFlash(r)
    PROVE  FlashInv'
<1>n. None \notin Messages
  BY SessionAssumption
<1>a. \A q \in Requests \ {r} : q \notin Active /\ q \notin Active'
                                 /\ sess'[q].values.flash = None
                                 /\ pc'[q] = pc[q] /\ pc[q] \in {"idle", "done"}
  BY OthersAreNew DEF Adds, Active
<1>f. sess[r].values.flash \in Messages \cup {None} /\ seen[r] \subseteq Messages
        /\ \A q \in Requests : seen[q] \subseteq Messages
  BY DEF TypeOK, SessionRecords, Data
<1>p. /\ \A m \in Messages : Past(m) => Past(m)'
      /\ \A m \in Messages, t \in Tokens : Stores(t, m)' => Stores(t, m)
  BY AddsPast
<1>g. \A m \in seen'[r] : m \in Messages /\ (m \in seen[r] \/ m = sess[r].values.flash)
  BY <1>f DEF KeepsFlash
<1>1. MessagesPast'
  <2>1. \A t \in Tokens, m \in Messages : Stores(t, m)' => Past(m)'
    BY <1>p DEF FlashInv, MessagesPast
  <2>2. ASSUME NEW q \in Requests, sess'[q].values.flash # None
        PROVE  Past(sess[q].values.flash)'
    <3>1. q = r /\ sess'[r].values.flash = sess[r].values.flash
      BY <2>2, <1>a DEF KeepsFlash
    <3>2. PICK m \in Messages : m = sess[r].values.flash
      BY <3>1, <2>2, <1>f
    <3>3. Past(m)'
      BY <3>1, <3>2, <2>2, <1>p DEF FlashInv, MessagesPast
    <3> QED
      BY <3>1, <3>2, <3>3 DEF Past
  <2>3. ASSUME NEW q \in Requests, NEW m \in seen'[q]
        PROVE  Past(m)'
    <3>1. Past(m) /\ m \in Messages
      BY <2>3, <1>f, <1>g, <1>n DEF FlashInv, MessagesPast, Adds, KeepsFlash
    <3> QED
      BY <3>1, <1>p
  <2> QED
    BY <2>1, <2>2, <2>3 DEF MessagesPast
<1>2. OneRow'
  <2>1. ASSUME NEW m \in Messages
        PROVE  /\ \A t, u \in Tokens : Stores(t, m)' /\ Stores(u, m)' => t = u
               /\ \A q \in Requests, t \in Tokens :
                     sess'[q].values.flash = m /\ Stores(t, m)' => t = sess'[q].token
    <3>1. \A t, u \in Tokens : Stores(t, m)' /\ Stores(u, m)' => t = u
      BY <1>p DEF FlashInv, OneRow
    <3>2. ASSUME NEW q \in Requests, NEW t \in Tokens, sess'[q].values.flash = m, Stores(t, m)'
          PROVE  t = sess'[q].token
      <4>1. q = r /\ sess[r].values.flash = m
        BY <3>2, <1>n, <1>a DEF KeepsFlash
      <4>2. t = sess[r].token /\ sessions'[t] # None
        BY <4>1, <3>2, <1>p DEF FlashInv, OneRow, Stores
      <4> QED
        BY <4>1, <4>2 DEF KeepsFlash
    <3> QED
      BY <3>1, <3>2
  <2> QED
    BY <2>1 DEF OneRow
<1>3. StepByStep'
  <2>1. ~sess'[r].loaded => sess'[r] = NewSession /\ seen'[r] = {}
    BY DEF KeepsFlash, Adds, FlashInv, StepByStep
  <2>2. r \in delivered' => sent'[r]
    BY DEF Adds, FlashInv, StepByStep
  <2>3. pc'[r] = "insert" => /\ NeedsSave(sess[r])'
                             /\ sess'[r].token = None \/ sessions'[sess'[r].token] = None
    BY DEF KeepsFlash
  <2>4. sess'[r].destroy => sess'[r].values.flash = None
    BY DEF KeepsFlash
  <2>5. \A q \in Active' : q = r
    BY <1>a DEF Active
  <2> QED
    BY <2>1, <2>2, <2>3, <2>4, <2>5 DEF StepByStep
<1>4. SeenUntilSaved'
  <2>1. ASSUME NEW m \in seen'[r]
        PROVE  /\ sess'[r].values.flash # m
               /\ \A t \in Tokens :
                     Stores(t, m)' => /\ t = sess'[r].token /\ NeedsSave(sess[r])'
                                      /\ pc'[r] # "transmit" /\ r \notin delivered'
    <3>1. CASE m \in seen[r]
      <4>1. m # None
        BY <1>g, <1>n
      <4>2. sess[r].values.flash # m
        BY <3>1 DEF FlashInv, SeenUntilSaved, Adds
      <4>3. ASSUME NEW t \in Tokens, Stores(t, m)'
            PROVE  /\ t = sess'[r].token /\ NeedsSave(sess[r])'
                   /\ pc'[r] # "transmit" /\ r \notin delivered'
        <5>1. Stores(t, m) /\ sessions'[t] # None
          BY <4>3, <1>g, <1>p DEF Stores
        <5>2. t = sess[r].token /\ NeedsSave(sess[r]) /\ r \notin delivered
          BY <5>1, <3>1 DEF FlashInv, SeenUntilSaved, Adds
        <5> QED
          BY <5>1, <5>2 DEF KeepsFlash, Adds
      <4> QED
        BY <4>1, <4>2, <4>3 DEF KeepsFlash
    <3>2. CASE m \notin seen[r]
      <4>1. /\ m = sess[r].values.flash /\ m # None /\ sess'[r].values.flash = None
            /\ NeedsSave(sess[r])' /\ ~sent[r]
        BY <3>2, <2>1 DEF KeepsFlash
      <4>2. r \notin delivered' /\ pc'[r] # "transmit"
        BY <4>1 DEF FlashInv, StepByStep, Adds, KeepsFlash
      <4>3. \A t \in Tokens : Stores(t, m)' => t = sess'[r].token
        BY <4>1, <1>g, <1>p DEF FlashInv, OneRow, KeepsFlash, Stores
      <4> QED
        BY <4>1, <4>2, <4>3
    <3> QED
      BY <3>1, <3>2
  <2> QED
    BY <2>1, <1>a DEF SeenUntilSaved, Active
<1>5. ShownIsGone'
  <2>1. ASSUME NEW q \in Requests, pc'[q] = "done", NEW m \in seen'[q]
        PROVE  (\A t \in Tokens : ~Stores(t, m)') /\ \A p \in Requests : sess'[p].values.flash # m
    <3>1. q # r /\ pc[q] = "done" /\ m \in seen[q] /\ m \in Messages
      BY <2>1, <1>f DEF Adds, Active
    <3>2. (\A t \in Tokens : ~Stores(t, m)) /\ sess[r].values.flash # m
      BY <3>1 DEF FlashInv, ShownIsGone
    <3> QED
      BY <3>1, <3>2, <1>a, <1>n, <1>p DEF KeepsFlash
  <2> QED
    BY <2>1 DEF ShownIsGone
<1>6. SeenByOne'
  <2>1. \A q \in Requests : pc'[q] = "idle" => seen'[q] = {}
    BY DEF Adds, Active, FlashInv, SeenByOne
  <2>2. ASSUME NEW q \in Requests, q # r, sess[r].values.flash # None
        PROVE  sess[r].values.flash \notin seen[q]
    BY <2>2, <1>a DEF FlashInv, SeenByOne, ShownIsGone
  <2>3. ASSUME NEW q \in Requests, q # r
        PROVE  seen'[q] \cap seen'[r] = {}
    BY <2>2, <2>3 DEF KeepsFlash, Adds, FlashInv, SeenByOne
  <2>4. \A q, p \in Requests : q # p /\ q # r /\ p # r => seen'[q] \cap seen'[p] = {}
    BY DEF Adds, FlashInv, SeenByOne
  <2> QED
    BY <2>1, <2>3, <2>4 DEF SeenByOne
<1>7. DeliveredRuns'
  BY DEF Adds, FlashInv, DeliveredRuns, Active, TypeOK
<1> QED
  BY <1>1, <1>2, <1>3, <1>4, <1>5, <1>6, <1>7 DEF FlashInv

\* A message that is set is a new one: nobody has it, and nobody has read it.
LEMMA FlashSetStep ==
    ASSUME TypeOK, TypeOK', BrowserInv, Alone, FlashInv, NEW r \in Requests, flash_set(r)
    PROVE  FlashInv'
<1>s. sess[r] \in SessionRecords /\ calls[r] \in Nat
  BY SessionAssumption DEF TypeOK
<1>m. PICK m0 \in Messages : m0 = <<r, calls[r]>>
  BY DEF TypeOK, Messages
<1>1. /\ UNCHANGED <<sessions, pc, seen, sent, delivered>>
      /\ calls' = [calls EXCEPT ![r] = @ + 1]
      /\ SetSess(r, SetFlash(sess[r], m0)) /\ r \in Active /\ sess[r].loaded
  BY <1>m DEF flash_set, InMemory, Calling, table, world, Active
<1>2. /\ sess'[r] = SetFlash(sess[r], m0)
      /\ \A q \in Requests \ {r} : sess'[q] = sess[q]
  BY <1>1 DEF SetSess, TypeOK
<1>3. /\ sess'[r].values.flash = m0 /\ sess'[r].token = sess[r].token
      /\ sess'[r].loaded = TRUE /\ sess'[r].destroy = FALSE /\ NeedsSave(sess[r])'
  <2>1. PICK y : y = SetFlash(sess[r], m0)
    OBVIOUS
  <2>2. /\ y.values.flash = m0 /\ y.token = sess[r].token
        /\ y.loaded = sess[r].loaded /\ y.destroy = FALSE /\ y.dirty = TRUE
    BY <2>1, <1>s DEF SetFlash, SessionRecords, Data
  <2>3. sess[r].loaded = TRUE
    BY <1>1, <1>s DEF SessionRecords
  <2> QED
    BY <2>1, <2>2, <2>3, <1>2 DEF NeedsSave
<1>4. Adds(r)
  BY <1>1, <1>2 DEF Adds, Active, TypeOK
<1>5. ~Past(m0) /\ Past(m0)'
  <2>1. m0[1] = r /\ m0[2] = calls[r] /\ calls'[r] = calls[r] + 1
    BY <1>m, <1>1 DEF TypeOK
  <2>2. pc[r] # "done" /\ calls[r] < calls[r] + 1 /\ ~(calls[r] < calls[r])
    BY <1>1, <1>s DEF Active
  <2> QED
    BY <2>1, <2>2 DEF Past
<1>p. /\ \A m \in Messages : Past(m) => Past(m)'
      /\ \A m \in Messages, t \in Tokens : Stores(t, m)' => Stores(t, m)
  BY <1>4, AddsPast
<1>a. \A q \in Requests \ {r} : q \notin Active /\ sess[q].values.flash = None
  BY <1>1, OthersAreNew
<1>n. None \notin Messages
  BY SessionAssumption
<1>6. /\ \A t \in Tokens : ~Stores(t, m0)
      /\ \A q \in Requests : m0 \notin seen[q]
  BY <1>5, <1>s DEF FlashInv, MessagesPast
<1>t. \A q \in Requests : seen[q] \subseteq Messages
  BY DEF TypeOK
<1>7. MessagesPast'
  <2>1. \A q \in Requests : sess'[q].values.flash # None => q = r
    BY <1>2, <1>a
  <2>2. ASSUME NEW q \in Requests, q = r
        PROVE  Past(sess[q].values.flash)'
    BY <2>2, <1>3, <1>5 DEF Past
  <2>3. \A t \in Tokens, m \in Messages : Stores(t, m)' => Past(m)'
    BY <1>p DEF FlashInv, MessagesPast
  <2>4. \A q \in Requests : \A m \in seen[q] : Past(m)'
    BY <1>p, <1>t DEF FlashInv, MessagesPast
  <2>5. \A q \in Requests : sess'[q].values.flash # None => Past(sess[q].values.flash)'
    BY <2>1, <2>2
  <2> QED
    BY <1>1, <2>3, <2>4, <2>5 DEF MessagesPast
<1>8. OneRow'
  <2>1. ASSUME NEW m \in Messages
        PROVE  /\ \A t, u \in Tokens : Stores(t, m)' /\ Stores(u, m)' => t = u
               /\ \A q \in Requests, t \in Tokens :
                     sess'[q].values.flash = m /\ Stores(t, m)' => t = sess'[q].token
    BY <1>2, <1>3, <1>6, <1>a, <1>n, <1>p DEF FlashInv, OneRow
  <2> QED
    BY <2>1 DEF OneRow
<1>9. StepByStep'
  <2>1. pc[r] # "insert" /\ (r \in delivered => sent[r])
    BY <1>1 DEF FlashInv, StepByStep, flash_set, InMemory, Calling
  <2>2. \A q \in Active' : q = r
    BY <1>1, <1>a DEF Active
  <2>3. pc'[r] # "insert" /\ (r \in delivered' => sent'[r])
    BY <2>1, <1>1
  <2> QED
    BY <2>2, <2>3, <1>3 DEF StepByStep
<1>10. SeenUntilSaved'
  <2>1. ASSUME NEW m \in seen[r]
        PROVE  /\ sess'[r].values.flash # m
               /\ \A t \in Tokens :
                     Stores(t, m)' => /\ t = sess'[r].token /\ NeedsSave(sess[r])'
                                      /\ pc'[r] # "transmit" /\ r \notin delivered'
    <3>1. m \in Messages
      BY <1>t
    <3> QED
      BY <3>1, <2>1, <1>1, <1>3, <1>6, <1>p DEF FlashInv, SeenUntilSaved
  <2> QED
    BY <2>1, <1>1, <1>a DEF SeenUntilSaved, Active
<1>11. ShownIsGone'
  <2>1. ASSUME NEW q \in Requests, pc'[q] = "done", NEW m \in seen[q]
        PROVE  (\A t \in Tokens : ~Stores(t, m)') /\ \A p \in Requests : sess'[p].values.flash # m
    <3>1. m \in Messages
      BY <1>t
    <3>2. (\A t \in Tokens : ~Stores(t, m))
      BY <2>1, <1>1 DEF FlashInv, ShownIsGone
    <3> QED
      BY <3>1, <3>2, <1>2, <1>3, <1>6, <1>a, <1>n, <1>p
  <2> QED
    BY <2>1, <1>1 DEF ShownIsGone
<1>12. SeenByOne'
  BY <1>1 DEF FlashInv, SeenByOne
<1>13. DeliveredRuns'
  BY <1>4 DEF Adds, FlashInv, DeliveredRuns, Active, TypeOK
<1> QED
  BY <1>7, <1>8, <1>9, <1>10, <1>11, <1>12, <1>13 DEF FlashInv

\* A session that is loaded has the message of its row, or none: without failures
\* of memory in session_load, no message comes without the row's token.
LEMMA FlashLoadStep ==
    ASSUME "load" \notin Faults, TypeOK, TypeOK', BrowserInv, Alone, FlashInv, AnswerInv,
           NEW r \in Requests, LoadMiss(r) \/ LoadRow(r) \/ LoadStale(r) \/ LoadFails(r)
    PROVE  FlashInv'
<1>s. sess[r] \in SessionRecords
  BY DEF TypeOK
<1>1. /\ Loading(r) /\ r \in Active /\ r \in Active' /\ pc'[r] \notin {"insert", "transmit"}
      /\ \A q \in Requests \ {r} : pc'[q] = pc[q]
  BY DEF LoadMiss, LoadRow, LoadStale, LoadFails, Loading, Goto, Active, TypeOK
<1>2. UNCHANGED <<sessions, seen, calls, delivered, sent>>
  BY <1>1 DEF Loading, table, response, world
<1>3. PICK d \in Data, t0 \in {None, cookie[r]}, e \in BOOLEAN :
         /\ SetSess(r, Loaded(sess[r], d, t0, e))
         /\ \/ d = EmptyData
            \/ Row(r) # None /\ d = Row(r).data /\ t0 = cookie[r]
  BY DataTypes, RowType DEF LoadMiss, LoadRow, LoadStale, LoadFails, Fault
<1>4. /\ sess'[r].token = t0 /\ sess'[r].values = d /\ sess'[r].loaded
      /\ sess'[r].destroy = sess[r].destroy
      /\ \A q \in Requests \ {r} : sess'[q] = sess[q]
  BY <1>3, <1>s DEF SetSess, Loaded, TypeOK, SessionRecords
<1>5. sess[r] = NewSession /\ seen[r] = {} /\ sess'[r].destroy = FALSE
  <2>1. ~sess[r].loaded
    BY <1>1 DEF Loading
  <2>2. sess[r] = NewSession /\ seen[r] = {}
    BY <1>1, <2>1 DEF FlashInv, StepByStep
  <2> QED
    BY <2>2, <1>4 DEF NewSession
<1>6. d.flash # None => d.flash \in Messages /\ t0 \in Tokens /\ Stores(t0, d.flash)
  <2>1. ASSUME d.flash # None
        PROVE  d.flash \in Messages /\ t0 \in Tokens /\ Stores(t0, d.flash)
    <3>1. Row(r) # None /\ d = Row(r).data /\ t0 = cookie[r]
      BY <2>1, <1>3 DEF EmptyData
    <3>2. cookie[r] \in Tokens /\ Row(r) = sessions[cookie[r]]
      BY <3>1, RowType
    <3>3. d.flash \in Messages
      BY <2>1 DEF Data
    <3> QED
      BY <3>1, <3>2, <3>3 DEF Stores
  <2> QED
    BY <2>1
<1>7. Adds(r)
  BY <1>1, <1>2, <1>4 DEF Adds
<1>p. /\ \A m \in Messages : Past(m) => Past(m)'
      /\ \A m \in Messages, t \in Tokens : Stores(t, m)' => Stores(t, m)
  BY <1>7, AddsPast
<1>a. \A q \in Requests \ {r} : /\ q \notin Active /\ q \notin Active'
                                /\ sess'[q].values.flash = None
  BY <1>1, <1>4, OthersAreNew DEF Active
<1>n. None \notin Messages
  BY SessionAssumption
<1>t. \A q \in Requests : seen[q] \subseteq Messages
  BY DEF TypeOK
<1>8. MessagesPast'
  <2>1. ASSUME NEW q \in Requests, sess'[q].values.flash # None
        PROVE  Past(sess[q].values.flash)'
    <3>1. PICK m \in Messages : m = sess'[q].values.flash /\ q = r /\ Stores(t0, m) /\ t0 \in Tokens
      BY <2>1, <1>a, <1>4, <1>6
    <3>2. Past(m)'
      BY <3>1, <1>p DEF FlashInv, MessagesPast
    <3> QED
      BY <3>1, <3>2 DEF Past
  <2>2. \A t \in Tokens, m \in Messages : Stores(t, m)' => Past(m)'
    BY <1>p DEF FlashInv, MessagesPast
  <2>3. \A q \in Requests : \A m \in seen[q] : Past(m)'
    BY <1>p, <1>t DEF FlashInv, MessagesPast
  <2> QED
    BY <1>2, <2>1, <2>2, <2>3 DEF MessagesPast
<1>9. OneRow'
  <2>1. ASSUME NEW m \in Messages
        PROVE  /\ \A t, u \in Tokens : Stores(t, m)' /\ Stores(u, m)' => t = u
               /\ \A q \in Requests, t \in Tokens :
                     sess'[q].values.flash = m /\ Stores(t, m)' => t = sess'[q].token
    <3>1. \A t, u \in Tokens : Stores(t, m) /\ Stores(u, m) => t = u
      BY DEF FlashInv, OneRow
    <3>2. ASSUME NEW q \in Requests, NEW t \in Tokens, sess'[q].values.flash = m, Stores(t, m)'
          PROVE  t = sess'[q].token
      <4>1. q = r /\ m = d.flash /\ m # None
        BY <3>2, <1>a, <1>n, <1>4
      <4> QED
        BY <4>1, <3>1, <3>2, <1>4, <1>6, <1>p
    <3> QED
      BY <3>1, <3>2, <1>p
  <2> QED
    BY <2>1 DEF OneRow
<1>10. StepByStep'
  <2>1. r \in delivered' => sent'[r]
    BY <1>1, <1>2 DEF FlashInv, StepByStep
  <2>2. pc'[r] # "insert"
    BY <1>1
  <2>3. \A q \in Active' : q = r
    BY <1>a DEF Active
  <2> QED
    BY <2>1, <2>2, <2>3, <1>4, <1>5 DEF StepByStep
<1>11. SeenUntilSaved'
  <2>1. \A q \in Active' : q = r
    BY <1>a DEF Active
  <2> QED
    BY <2>1, <1>2, <1>5 DEF SeenUntilSaved
<1>12. ShownIsGone'
  <2>1. ASSUME NEW q \in Requests, pc'[q] = "done", NEW m \in seen[q]
        PROVE  (\A t \in Tokens : ~Stores(t, m)') /\ \A p \in Requests : sess'[p].values.flash # m
    <3>1. m \in Messages /\ pc[q] = "done"
      BY <2>1, <1>t, <1>1 DEF Active
    <3>2. (\A t \in Tokens : ~Stores(t, m))
      BY <3>1, <2>1 DEF FlashInv, ShownIsGone
    <3> QED
      BY <3>1, <3>2, <1>4, <1>6, <1>a, <1>n, <1>p
  <2> QED
    BY <2>1, <1>2 DEF ShownIsGone
<1>13. SeenByOne'
  <2>1. \A q \in Requests : pc'[q] = "idle" => seen'[q] = {}
    BY <1>1, <1>2 DEF FlashInv, SeenByOne, Active
  <2> QED
    BY <1>2, <2>1 DEF FlashInv, SeenByOne
<1>14. DeliveredRuns'
  BY <1>7 DEF Adds, FlashInv, DeliveredRuns, Active, TypeOK
<1> QED
  BY <1>8, <1>9, <1>10, <1>11, <1>12, <1>13, <1>14 DEF FlashInv

\* A commit overwrites the row of the message that was read, or makes the only row
\* of the one that was not.
LEMMA FlashCommitStep ==
    ASSUME TypeOK, TypeOK', BrowserInv, Alone, FlashInv, AnswerInv,
           NEW r \in Requests, NEW t0 \in Tokens, CommitFails(r, t0) \/ Commit(r, t0)
    PROVE  FlashInv'
<1>s. sess[r] \in SessionRecords /\ t0 # None
  BY SessionAssumption DEF TypeOK
<1>1. /\ AtInsert(r) /\ TakeToken(r, t0) /\ Committing(r)
      /\ Goto(r, "transmit") \/ SendFails(r)
      /\ SetSess(r, Saved(sess[r], t0)) \/ SetSess(r, WithToken(sess[r], t0))
  BY DEF CommitFails, Commit
<1>2. /\ UNCHANGED <<seen, calls, delivered, sent>>
      /\ r \in Active /\ r \in Active' /\ pc'[r] # "insert"
      /\ \A q \in Requests \ {r} : pc'[q] = pc[q]
  <2>1. after[r] \in {"handler", "close", "asset"} /\ r \in Active
    BY <1>1 DEF AtInsert, AnswerInv, AnswerOf, Active
  <2> QED
    BY <1>1, <2>1 DEF Committing, SendFails, Goto, Active, TypeOK, world
<1>3. /\ sess'[r].token = t0 /\ sess'[r].values = sess[r].values
      /\ sess'[r].loaded = sess[r].loaded /\ sess'[r].destroy = sess[r].destroy
      /\ \A q \in Requests \ {r} : sess'[q] = sess[q]
  <2>1. /\ sess'[r] = Saved(sess[r], t0) \/ sess'[r] = WithToken(sess[r], t0)
        /\ \A q \in Requests \ {r} : sess'[q] = sess[q]
    BY <1>1 DEF SetSess, TypeOK
  <2>2. ASSUME NEW y \in {Saved(sess[r], t0), WithToken(sess[r], t0)}
        PROVE  /\ y.token = t0 /\ y.values = sess[r].values
               /\ y.loaded = sess[r].loaded /\ y.destroy = sess[r].destroy
    BY <1>s, <2>2 DEF Saved, WithToken, SessionRecords
  <2> QED
    BY <2>1, <2>2
\* The row of a token that is replaced is gone by now.
<1>4. ASSUME NEW t \in Tokens, t = sess[r].token, sessions[t] # None
      PROVE  t = t0
  <2>1. t # None
    BY SessionAssumption
  <2>2. pc[r] # "insert"
    BY <1>2, <1>4, <2>1 DEF FlashInv, StepByStep
  <2>3. ~sess[r].regenerate
    BY <1>1, <1>4, <2>1, <2>2 DEF AtInsert, ReplacesRow
  <2> QED
    BY <1>1, <1>4, <2>1, <2>3 DEF TakeToken, CommitTokens
<1>5. \A t \in Tokens :
         \/ sessions'[t] = sessions[t]
         \/ t = t0 /\ sessions'[t].data = sess[r].values
  BY DEF CommitFails, Commit, TypeOK
<1>l. NeedsSave(sess[r])
  BY <1>1, <1>2 DEF AtInsert, FlashInv, StepByStep
<1>n. None \notin Messages
  BY SessionAssumption
<1>f. sess[r].values.flash \in Messages \cup {None}
  BY <1>s DEF SessionRecords, Data
<1>t. \A q \in Requests : seen[q] \subseteq Messages
  BY DEF TypeOK
<1>a. \A q \in Requests \ {r} : /\ q \notin Active /\ q \notin Active'
                                /\ sess'[q].values.flash = None /\ sess'[q] = sess[q]
  BY <1>2, <1>3, OthersAreNew DEF Active
<1>p. \A m \in Messages : Past(m)' <=> Past(m)
  <2>1. ASSUME NEW m \in Messages
        PROVE  Past(m)' <=> Past(m)
    <3>1. m[1] \in Requests
      BY DEF Messages
    <3>2. pc'[m[1]] = "done" <=> pc[m[1]] = "done"
      BY <1>2, <3>1 DEF Active
    <3> QED
      BY <1>2, <3>2 DEF Past
  <2> QED
    BY <2>1
<1>6. ASSUME NEW t \in Tokens, NEW m \in Messages, Stores(t, m)'
      PROVE  Stores(t, m) \/ (t = t0 /\ m = sess[r].values.flash)
  BY <1>5, <1>6 DEF Stores
<1>7. MessagesPast'
  <2>1. \A t \in Tokens, m \in Messages : Stores(t, m)' => Past(m)'
    BY <1>6, <1>p, <1>n DEF FlashInv, MessagesPast
  <2>2. ASSUME NEW q \in Requests, sess'[q].values.flash # None
        PROVE  Past(sess[q].values.flash)'
    <3>1. PICK m \in Messages : q = r /\ m = sess[r].values.flash /\ m = sess'[q].values.flash
      BY <2>2, <1>a, <1>f, <1>3
    <3>2. Past(m)'
      BY <3>1, <1>p, <1>n DEF FlashInv, MessagesPast
    <3> QED
      BY <3>1, <3>2 DEF Past
  <2>3. \A q \in Requests : \A m \in seen[q] : Past(m)'
    BY <1>p, <1>t DEF FlashInv, MessagesPast
  <2> QED
    BY <1>2, <2>1, <2>2, <2>3 DEF MessagesPast
<1>8. OneRow'
  <2>1. ASSUME NEW m \in Messages
        PROVE  /\ \A t, u \in Tokens : Stores(t, m)' /\ Stores(u, m)' => t = u
               /\ \A q \in Requests, t \in Tokens :
                     sess'[q].values.flash = m /\ Stores(t, m)' => t = sess'[q].token
    <3>1. CASE sess[r].values.flash = m
      <4>1. ASSUME NEW t \in Tokens, Stores(t, m)'
            PROVE  t = t0
        <5>1. CASE Stores(t, m)
          BY <5>1, <3>1, <1>4 DEF FlashInv, OneRow, Stores
        <5> QED
          BY <5>1, <4>1, <1>6
      <4> QED
        BY <4>1, <1>3, <1>a, <1>n
    <3>2. CASE sess[r].values.flash # m
      <4>1. \A t \in Tokens : Stores(t, m)' => Stores(t, m)
        BY <3>2, <1>6
      <4>2. \A q \in Requests : sess'[q].values.flash # m
        BY <3>2, <1>3, <1>a, <1>n
      <4> QED
        BY <4>1, <4>2 DEF FlashInv, OneRow
    <3> QED
      BY <3>1, <3>2
  <2> QED
    BY <2>1 DEF OneRow
<1>9. StepByStep'
  <2>1. sess[r].destroy => sess[r].values.flash = None
    BY <1>2 DEF FlashInv, StepByStep
  <2>2. r \in delivered' => sent'[r]
    BY <1>2 DEF FlashInv, StepByStep
  <2>3. \A q \in Active' : q = r
    BY <1>a DEF Active
  <2> QED
    BY <1>2, <1>3, <1>l, <2>1, <2>2, <2>3 DEF StepByStep, NeedsSave
<1>10. SeenUntilSaved'
  <2>1. ASSUME NEW m \in seen[r]
        PROVE  /\ sess'[r].values.flash # m
               /\ \A t \in Tokens :
                     Stores(t, m)' => /\ t = sess'[r].token /\ NeedsSave(sess[r])'
                                      /\ pc'[r] # "transmit" /\ r \notin delivered'
    <3>1. sess[r].values.flash # m /\ m \in Messages
      BY <1>2, <1>t DEF FlashInv, SeenUntilSaved
    <3>2. ASSUME NEW t \in Tokens, Stores(t, m)'
          PROVE  /\ t = sess'[r].token /\ NeedsSave(sess[r])'
                 /\ pc'[r] # "transmit" /\ r \notin delivered'
      <4>1. Stores(t, m)
        BY <3>1, <3>2, <1>6
      <4>2. t = sess[r].token /\ r \notin delivered
        BY <4>1, <1>2 DEF FlashInv, SeenUntilSaved
      <4>3. t = t0
        BY <4>1, <4>2, <1>4 DEF Stores
      <4>4. CommitFails(r, t0)
        <5>1. ASSUME Commit(r, t0)
              PROVE  sessions'[t0].data = sess[r].values
          BY <5>1 DEF Commit, TypeOK
        <5> QED
          BY <5>1, <4>3, <3>1, <3>2 DEF Stores
      <4>5. sess'[r] = WithToken(sess[r], t0) /\ pc'[r] = after[r]
        BY <4>4 DEF CommitFails, SetSess, SendFails, Goto, TypeOK
      <4>6. NeedsSave(sess[r])'
        BY <4>5, <1>l, <1>s DEF NeedsSave, WithToken, SessionRecords
      <4>7. after[r] \in {"handler", "close", "asset"}
        BY <1>1 DEF AtInsert, AnswerInv, AnswerOf
      <4> QED
        BY <4>2, <4>3, <4>5, <4>6, <4>7, <1>2, <1>3
    <3> QED
      BY <3>1, <3>2, <1>3
  <2>2. \A q \in Active' : q = r
    BY <1>a DEF Active
  <2> QED
    BY <1>2, <2>1, <2>2 DEF SeenUntilSaved
<1>11. ShownIsGone'
  <2>1. ASSUME NEW q \in Requests, pc'[q] = "done", NEW m \in seen[q]
        PROVE  (\A t \in Tokens : ~Stores(t, m)') /\ \A p \in Requests : sess'[p].values.flash # m
    <3>1. m \in Messages /\ pc[q] = "done"
      BY <2>1, <1>t, <1>2 DEF Active
    <3>2. (\A t \in Tokens : ~Stores(t, m)) /\ \A p \in Requests : sess[p].values.flash # m
      BY <3>1, <2>1 DEF FlashInv, ShownIsGone
    <3> QED
      BY <3>1, <3>2, <1>3, <1>6, <1>a, <1>n
  <2> QED
    BY <2>1, <1>2 DEF ShownIsGone
<1>12. SeenByOne'
  <2>1. \A q \in Requests : pc'[q] = "idle" => seen'[q] = {}
    BY <1>2 DEF FlashInv, SeenByOne, Active
  <2> QED
    BY <1>2, <2>1 DEF FlashInv, SeenByOne
<1>13. DeliveredRuns'
  BY <1>2 DEF FlashInv, DeliveredRuns, Active, TypeOK
<1> QED
  BY <1>7, <1>8, <1>9, <1>10, <1>11, <1>12, <1>13 DEF FlashInv

\* A step after which the session is what it was, but for a token without a row.
LosesToken(r) ==
    /\ sess'[r].token \in {None, sess[r].token}
    /\ \A t \in Tokens : t = sess[r].token /\ sessions'[t] # None => t = sess'[r].token
    /\ sess'[r].values = sess[r].values
    /\ sess'[r].destroy = sess[r].destroy
    /\ NeedsSave(sess[r])' <=> NeedsSave(sess[r])
    /\ ~sess'[r].loaded => sess'[r] = sess[r]

\* A token is taken from the session only once its row is gone.
LEMMA NoTokenLoses ==
    ASSUME TypeOK, FlashInv, NEW r \in Requests, CommitNoToken(r)
    PROVE  LosesToken(r)
<1>1. /\ AtInsert(r) /\ UNCHANGED sessions
      /\ sess[r].token = None \/ sess[r].regenerate
  BY DEF CommitNoToken
<1>2. NeedsSave(sess[r])
  BY <1>1 DEF AtInsert, FlashInv, StepByStep, Active
<1>3. NeedsSave(sess[r])' /\ sess'[r].loaded
  BY <1>2, NoTokenSession DEF NeedsSave
<1>4. ASSUME NEW t \in Tokens, t = sess[r].token, sessions'[t] # None
      PROVE  FALSE
  <2>1. t # None /\ sess[r].regenerate /\ sessions[t] # None
    BY <1>1, <1>4, SessionAssumption
  <2>2. pc[r] = "insert"
    BY <1>1, <1>4, <2>1 DEF AtInsert, ReplacesRow
  <2> QED
    BY <1>4, <2>1, <2>2 DEF FlashInv, StepByStep, Active
<1> QED
  BY <1>2, <1>3, <1>4, NoTokenSession DEF LosesToken

\* Steps that leave the session in memory alone, or take its token from it.
LEMMA FlashMoves ==
    ASSUME TypeOK, TypeOK', BrowserInv, Alone, FlashInv, AnswerInv, NEW r \in Requests,
           \/ Dispatch(r) \/ HandlerReturn(r) \/ context_send(r) \/ Reap(r)
           \/ CommitSkip(r) \/ CommitDelete(r) \/ CommitNoToken(r)
    PROVE  FlashInv'
<1>1. UNCHANGED <<seen, delivered, sent>> /\ calls'[r] \in {calls[r], calls[r] + 1}
        /\ \A q \in Requests \ {r} : calls'[q] = calls[q]
  <2>1. CASE Dispatch(r) \/ HandlerReturn(r) \/ Reap(r)
    BY <2>1 DEF Dispatch, HandlerReturn, Reap, response, world
  <2>2. CASE context_send(r)
    BY <2>2 DEF context_send, Calling, world, TypeOK
  <2>3. CASE CommitSkip(r) \/ CommitDelete(r) \/ CommitNoToken(r)
    BY <2>3 DEF CommitSkip, CommitDelete, CommitNoToken, Committing, world
  <2> QED
    BY <2>1, <2>2, <2>3
<1>2. \A t \in Tokens : sessions'[t] \in {sessions[t], None}
  BY DEF Dispatch, HandlerReturn, Reap, context_send, CommitSkip, CommitDelete, CommitNoToken,
         DeleteRow, table, TypeOK
<1>s. LosesToken(r) /\ \A q \in Requests \ {r} : sess'[q] = sess[q]
  <2>1. CASE UNCHANGED sess
    BY <2>1 DEF LosesToken, NeedsSave
  <2>2. CASE CommitNoToken(r)
    BY <2>2, NoTokenSession, NoTokenLoses
  <2> QED
    BY <2>1, <2>2 DEF Dispatch, HandlerReturn, Reap, context_send, CommitSkip, CommitDelete
<1>3. r \in Active /\ (pc[r] \in {"send", "insert"} => after[r] \in {"handler", "close", "asset"})
        /\ (pc[r] = "reap" => after[r] \in {"verify", "handler"})
  BY DEF Dispatch, HandlerReturn, Reap, context_send, Calling, CommitSkip, CommitDelete, CommitNoToken,
         AtInsert, Active, AnswerInv, AnswerOf
<1>4. r \in Active' /\ \A q \in Requests \ {r} : pc'[q] = pc[q]
  <2>1. CASE Dispatch(r) \/ HandlerReturn(r) \/ context_send(r) \/ Reap(r)
    BY <2>1, <1>3 DEF Dispatch, HandlerReturn, Reap, context_send, Calling, StartSend, Goto, Active,
                      TypeOK
  <2>2. CASE CommitSkip(r) \/ CommitDelete(r) \/ CommitNoToken(r)
    BY <2>2, <1>3 DEF CommitSkip, CommitDelete, CommitNoToken, AtInsert, SendFails, Goto, Active,
                      TypeOK
  <2> QED
    BY <2>1, <2>2
<1>5. pc'[r] = "transmit" => ~NeedsSave(sess[r])
  BY <1>3 DEF Dispatch, HandlerReturn, Reap, context_send, Calling, StartSend, CommitSkip, CommitDelete,
              CommitNoToken, AtInsert, SendFails, Goto, TypeOK
<1>6. pc'[r] = "insert" => /\ NeedsSave(sess[r])
                           /\ sess[r].token = None \/ sessions'[sess[r].token] = None
  <2>1. ASSUME pc'[r] = "insert"
        PROVE  CommitDelete(r) /\ DeleteRow(r)
    BY <2>1, <1>3
    DEF Dispatch, HandlerReturn, Reap, context_send, Calling, StartSend, CommitSkip, CommitDelete,
        CommitNoToken, AtInsert, SendFails, Goto, TypeOK
  <2>2. sess[r].token \in Tokens \cup {None}
    BY DEF TypeOK, SessionRecords
  <2> QED
    BY <2>1, <2>2 DEF CommitDelete, DeleteRow, TypeOK
<1>7. Adds(r)
  BY <1>1, <1>2, <1>s, <1>3, <1>4 DEF Adds
<1>8. KeepsFlash(r)
  <2>1. sess[r].destroy => sess[r].values.flash = None
    BY <1>3 DEF FlashInv, StepByStep
  <2> QED
    BY <1>1, <1>s, <1>5, <1>6, <2>1 DEF KeepsFlash, LosesToken
<1> QED
  BY <1>7, <1>8, KeepsFlashStep

\* From session x a step made session y that is saved if x was to be, and that has
\* x's message or none.
SavesFlash(x, y) ==
    /\ y.token = x.token
    /\ y.values.flash \in {None, x.values.flash}
    /\ y.loaded = x.loaded
    /\ y.destroy => x.destroy
    /\ NeedsSave(x) => NeedsSave(y)

\* So do the session operators, and DeleteFlash has a deletion saved.
LEMMA SavesFlashSession ==
    ASSUME NEW x \in SessionRecords
    PROVE  /\ SavesFlash(x, x)
           /\ \A u \in Users : SavesFlash(x, Login(x, u))
           /\ \A c \in CsrfTokens : SavesFlash(x, SetCsrf(x, c))
           /\ \A k \in AppKeys, v \in AppValues : SavesFlash(x, SetApp(x, k, v))
           /\ \A k \in AppKeys : SavesFlash(x, DeleteApp(x, k))
           /\ SavesFlash(x, Clear(x))
           /\ SavesFlash(x, Regenerate(x))
           /\ SavesFlash(x, DeleteFlash(x)) /\ DeleteFlash(x).values.flash = None
           /\ x.values.flash # None => DeleteFlash(x).dirty = TRUE
<1>1. SavesFlash(x, x) /\ SavesFlash(x, Regenerate(x))
  BY DEF SavesFlash, NeedsSave, Regenerate, SessionRecords
<1>2. \A u \in Users : SavesFlash(x, Login(x, u))
  BY DEF SavesFlash, NeedsSave, Login, SetUser, Regenerate, SessionRecords, Data
<1>3. \A c \in CsrfTokens : SavesFlash(x, SetCsrf(x, c))
  BY DEF SavesFlash, NeedsSave, SetCsrf, SessionRecords, Data
<1>4. \A k \in AppKeys, v \in AppValues : SavesFlash(x, SetApp(x, k, v))
  BY DEF SavesFlash, NeedsSave, SetApp, SessionRecords, Data
<1>5. \A k \in AppKeys : SavesFlash(x, DeleteApp(x, k))
  BY DEF SavesFlash, NeedsSave, DeleteApp, SessionRecords, Data
<1>6. SavesFlash(x, Clear(x))
  BY DEF SavesFlash, NeedsSave, Clear, EmptyData, SessionRecords
<1>7. /\ SavesFlash(x, DeleteFlash(x)) /\ DeleteFlash(x).values.flash = None
      /\ x.values.flash # None => DeleteFlash(x).dirty = TRUE
  BY DEF SavesFlash, NeedsSave, DeleteFlash, SessionRecords, Data
<1> QED
  BY <1>1, <1>2, <1>3, <1>4, <1>5, <1>6, <1>7

\* A call of the handler: it counts, and moves no child.
LEMMA CallAdds ==
    ASSUME TypeOK, NEW r \in Requests, Calling(r), UNCHANGED pc,
           \A q \in Requests \ {r} : sess'[q] = sess[q] /\ seen'[q] = seen[q],
           \A t \in Tokens : sessions'[t] \in {sessions[t], None}
    PROVE  Adds(r) /\ pc'[r] \notin {"insert", "transmit"}
  BY DEF Calling, Adds, Active, TypeOK, world

\* A call after which the session has the message it had, or none.
LEMMA FlashSaves ==
    ASSUME TypeOK, TypeOK', BrowserInv, Alone, FlashInv, NEW r \in Requests,
           Calling(r) \/ (pc[r] = "verify" /\ Adds(r)), Adds(r),
           pc'[r] \notin {"insert", "transmit"}, sess[r].loaded,
           UNCHANGED seen, SavesFlash(sess[r], sess'[r])
    PROVE  FlashInv'
<1>1. sess[r].destroy => sess[r].values.flash = None
  BY DEF Adds, FlashInv, StepByStep
<1>2. \A t \in Tokens :
         t = sess[r].token /\ sessions'[t] # None /\ NeedsSave(sess[r]) => NeedsSave(sess[r])'
  BY DEF SavesFlash, NeedsSave
<1>3. KeepsFlash(r)
  BY <1>1, <1>2 DEF KeepsFlash, SavesFlash
<1> QED
  BY <1>3, KeepsFlashStep

\* A call in memory.
LEMMA FlashInMemory ==
    ASSUME TypeOK, TypeOK', BrowserInv, Alone, FlashInv, NEW r \in Requests, NEW y,
           InMemory(r, y), UNCHANGED seen, SavesFlash(sess[r], y)
    PROVE  FlashInv'
<1>1. sess'[r] = y /\ \A q \in Requests \ {r} : sess'[q] = sess[q]
  BY DEF InMemory, SetSess, TypeOK
<1>2. Calling(r) /\ sess[r].loaded /\ UNCHANGED <<pc, sessions>>
  BY DEF InMemory, table
<1> QED
  BY <1>1, <1>2, CallAdds, FlashSaves

\* Drawing a csrf token leaves the message alone.
LEMMA FlashCsrf ==
    ASSUME TypeOK, TypeOK', BrowserInv, Alone, FlashInv, NEW r \in Requests,
           NoCsrf(r) \/ \E c \in ExpectedCsrf(r) : HasCsrf(r, c),
           Calling(r) \/ (pc[r] = "verify" /\ Adds(r)), Adds(r),
           pc'[r] \notin {"insert", "transmit"}, sess[r].loaded,
           UNCHANGED seen
    PROVE  FlashInv'
<1>s. sess[r] \in SessionRecords
  BY DEF TypeOK
<1>1. SavesFlash(sess[r], sess'[r])
  <2>1. CASE NoCsrf(r)
    BY <2>1, <1>s, SavesFlashSession DEF NoCsrf
  <2>2. ASSUME NEW c \in ExpectedCsrf(r), HasCsrf(r, c)
        PROVE  SavesFlash(sess[r], sess'[r])
    <3>1. c \in CsrfTokens
      BY <1>s DEF ExpectedCsrf, SessionRecords, Data
    <3>2. sess'[r] \in {sess[r], SetCsrf(sess[r], c)}
      BY <2>2 DEF HasCsrf, SetSess, TypeOK
    <3> QED
      BY <3>1, <3>2, <1>s, SavesFlashSession
  <2> QED
    BY <2>1, <2>2
<1> QED
  BY <1>1, FlashSaves

\* flash_get has the message deleted from the session and the deletion saved.
LEMMA FlashGets ==
    ASSUME TypeOK, TypeOK', BrowserInv, Alone, FlashInv, NEW r \in Requests, flash_get(r)
    PROVE  FlashInv'
<1>s. sess[r] \in SessionRecords
  BY DEF TypeOK
<1>1. /\ sess'[r] = DeleteFlash(sess[r]) /\ \A q \in Requests \ {r} : sess'[q] = sess[q]
      /\ sess[r].values.flash # None /\ sess[r].loaded /\ Calling(r)
      /\ UNCHANGED <<pc, sessions>>
      /\ seen' = IF sent[r] THEN seen
                 ELSE [seen EXCEPT ![r] = @ \cup {sess[r].values.flash}]
  BY DEF flash_get, InMemory, SetSess, table, TypeOK
<1>2. Adds(r) /\ pc'[r] \notin {"insert", "transmit"}
  <2>1. \A q \in Requests \ {r} : seen'[q] = seen[q]
    BY <1>1 DEF TypeOK
  <2> QED
    BY <1>1, <2>1, CallAdds
<1>3. /\ SavesFlash(sess[r], sess'[r])
      /\ sess'[r].values.flash = None /\ sess'[r].dirty
  BY <1>1, <1>s, SavesFlashSession
<1>4. sess[r].destroy = FALSE
  BY <1>1, <1>2, <1>s DEF Adds, FlashInv, StepByStep, SessionRecords
<1>5. NeedsSave(sess[r])'
  BY <1>1, <1>3, <1>4 DEF NeedsSave, SavesFlash
<1>6. \/ seen'[r] = seen[r]
      \/ seen'[r] = seen[r] \cup {sess[r].values.flash} /\ ~sent[r]
  BY <1>1 DEF TypeOK
<1>7. KeepsFlash(r)
  BY <1>1, <1>2, <1>3, <1>5, <1>6 DEF KeepsFlash, SavesFlash
<1> QED
  BY <1>2, <1>7, KeepsFlashStep

\* session_destroy leaves no message, in memory or in its row.
LEMMA FlashDestroys ==
    ASSUME TypeOK, TypeOK', BrowserInv, Alone, FlashInv, NEW r \in Requests, session_destroy(r)
    PROVE  FlashInv'
<1>s. sess[r] \in SessionRecords
  BY DEF TypeOK
<1>1. /\ Calling(r) /\ sess[r].loaded /\ UNCHANGED <<pc, seen>>
      /\ \A t \in Tokens : sessions'[t] \in {sessions[t], None}
  BY DEF session_destroy, DeleteRow, TypeOK
<1>2. CASE UNCHANGED sess
  <2>1. SavesFlash(sess[r], sess'[r])
    BY <1>2, <1>s, SavesFlashSession
  <2> QED
    BY <1>1, <1>2, <2>1, CallAdds, FlashSaves
<1>3. CASE DeleteRow(r) /\ SetSess(r, Destroyed(sess[r]))
  <2>1. sess'[r] = Destroyed(sess[r]) /\ \A q \in Requests \ {r} : sess'[q] = sess[q]
    BY <1>3 DEF SetSess, TypeOK
  <2>2. /\ sess'[r].token = sess[r].token /\ sess'[r].values.flash = None
        /\ sess'[r].loaded = sess[r].loaded
    BY <2>1, <1>s DEF Destroyed, EmptyData, SessionRecords
  <2>3. \A t \in Tokens : t = sess[r].token => sessions'[t] = None
    BY <1>3, SessionAssumption DEF DeleteRow, TypeOK
  <2>4. Adds(r) /\ pc'[r] \notin {"insert", "transmit"}
    BY <1>1, <2>1, CallAdds
  <2>5. KeepsFlash(r)
    BY <1>1, <2>2, <2>3, <2>4 DEF KeepsFlash
  <2> QED
    BY <2>4, <2>5, KeepsFlashStep
<1> QED
  BY <1>2, <1>3 DEF session_destroy

\* Every call of a handler keeps FlashInv.
LEMMA FlashCalls ==
    ASSUME TypeOK, TypeOK', BrowserInv, Alone, FlashInv, AnswerInv, NEW r \in Requests, Call(r)
    PROVE  FlashInv'
<1>s. sess[r] \in SessionRecords
  BY DEF TypeOK
<1>1. ASSUME NEW k \in AppKeys, session_delete(r, k)
      PROVE  FlashInv'
  BY <1>1, <1>s, SavesFlashSession, FlashInMemory DEF session_delete
<1>2. ASSUME NEW k \in AppKeys, NEW v \in AppValues, session_set(r, k, v)
      PROVE  FlashInv'
  BY <1>2, <1>s, SavesFlashSession, FlashInMemory DEF session_set
<1>3. CASE session_clear(r) \/ session_regenerate(r)
  BY <1>3, <1>s, SavesFlashSession, FlashInMemory DEF session_clear, session_regenerate
<1>4. ASSUME NEW u \in Users, auth_login(r, u)
      PROVE  FlashInv'
  BY <1>4, <1>s, SavesFlashSession, FlashInMemory DEF auth_login
<1>5. CASE csrf_token(r)
  <2>1. /\ Calling(r) /\ UNCHANGED <<pc, sessions, seen>> /\ sess[r].loaded
        /\ NoCsrf(r) \/ \E c \in ExpectedCsrf(r) : HasCsrf(r, c)
    BY <1>5 DEF csrf_token, table
  <2>2. \A q \in Requests \ {r} : sess'[q] = sess[q]
    BY <2>1 DEF NoCsrf, HasCsrf, SetSess, TypeOK
  <2> QED
    BY <2>1, <2>2, CallAdds, FlashCsrf
<1> QED
  BY <1>1, <1>2, <1>3, <1>4, <1>5, FlashSetStep, FlashGets, FlashDestroys, FlashMoves DEF Call

\* csrf_verify keeps FlashInv.
LEMMA FlashVerify ==
    ASSUME TypeOK, TypeOK', BrowserInv, Alone, FlashInv, NEW r \in Requests,
           CsrfVerify(r)
    PROVE  FlashInv'
<1>1. /\ NoCsrf(r) \/ \E c \in ExpectedCsrf(r) : HasCsrf(r, c)
      /\ UNCHANGED <<sessions, seen, calls, delivered, sent>>
      /\ sess[r].loaded /\ pc[r] = "verify"
  BY DEF CsrfVerify, table, response, world
<1>2. \A q \in Requests \ {r} : sess'[q] = sess[q]
  BY <1>1 DEF NoCsrf, HasCsrf, SetSess, TypeOK
<1>3. /\ pc'[r] \in {"dispatch", "send"} /\ \A q \in Requests \ {r} : pc'[q] = pc[q]
  BY DEF CsrfVerify, StartSend, Goto, TypeOK
<1>4. Adds(r)
  BY <1>1, <1>2, <1>3 DEF Adds, Active
<1> QED
  BY <1>1, <1>3, <1>4, FlashCsrf

\* Rows that vanish, as they do when expired ones are deleted, take no message to
\* another place.
LEMMA FlashVanishes ==
    ASSUME TypeOK, FlashInv, UNCHANGED <<pc, calls, sess, seen, sent, delivered>>,
           \A t \in Tokens : sessions'[t] \in {sessions[t], None}
    PROVE  FlashInv'
<1>1. \A t \in Tokens, m \in Messages : Stores(t, m)' => Stores(t, m)
  BY DEF Stores
<1>t. \A q \in Requests : seen[q] \subseteq Messages
  BY DEF TypeOK
<1>2. MessagesPast'
  BY <1>1 DEF FlashInv, MessagesPast, Past
<1>3. OneRow'
  BY <1>1 DEF FlashInv, OneRow
<1>4. StepByStep'
  <2>1. \A q \in Requests : sess[q].token \in Tokens \cup {None}
    BY DEF TypeOK, SessionRecords
  <2>2. ASSUME NEW q \in Active, pc[q] = "insert"
        PROVE  sess[q].token = None \/ sessions'[sess[q].token] = None
    BY <2>1, <2>2 DEF FlashInv, StepByStep, Active
  <2> QED
    BY <2>2 DEF FlashInv, StepByStep, Active, NeedsSave
<1>5. SeenUntilSaved'
  BY <1>1, <1>t DEF FlashInv, SeenUntilSaved, Active, NeedsSave
<1>6. ShownIsGone'
  BY <1>1, <1>t DEF FlashInv, ShownIsGone
<1>7. SeenByOne' /\ DeliveredRuns'
  BY DEF FlashInv, SeenByOne, DeliveredRuns, Active
<1> QED
  BY <1>2, <1>3, <1>4, <1>5, <1>6, <1>7 DEF FlashInv

\* A response that arrives shows messages which no row has any more.
LEMMA FlashTransmits ==
    ASSUME TypeOK, Alone, FlashInv, AnswerInv, NEW r \in Requests, Transmit(r)
    PROVE  FlashInv'
<1>1. /\ UNCHANGED <<sessions, calls, sess, seen>> /\ pc[r] = "transmit" /\ r \in Active
      /\ \A q \in Requests \ {r} : pc'[q] = pc[q]
  BY DEF Transmit, Goto, table, Active, TypeOK
<1>2. pc'[r] \in {"handler", "close", "asset"} /\ r \in Active'
  BY <1>1 DEF Transmit, Goto, AnswerInv, AnswerOf, Active, TypeOK
<1>3. /\ delivered' = delivered \/ (delivered' = delivered \cup {r} /\ sent'[r])
      /\ sent[r] => sent'[r]
  BY DEF Transmit, world, TypeOK
<1>a. \A q \in Active : q = r
  BY <1>1 DEF Alone
<1>b. Active' = {r} /\ \A q \in Requests : pc'[q] = "done" <=> pc[q] = "done"
  BY <1>1, <1>2, <1>a DEF Active
<1>t. \A q \in Requests : seen[q] \subseteq Messages
  BY DEF TypeOK
<1>4. MessagesPast'
  <2>1. \A m \in Messages : m[1] \in Requests
    BY DEF Messages
  <2>2. \A m \in Messages : Past(m)' <=> Past(m)
    BY <2>1, <1>1, <1>b DEF Past
  <2>3. \A q \in Requests : sess[q].values.flash \in Messages \cup {None}
    BY DEF TypeOK, SessionRecords, Data
  <2>4. \A t \in Tokens, m \in Messages : Stores(t, m)' => Past(m)'
    BY <1>1, <2>1, <2>2 DEF FlashInv, MessagesPast, Stores
  <2>5. ASSUME NEW q \in Requests, sess'[q].values.flash # None
        PROVE  Past(sess[q].values.flash)'
    <3>1. PICK m \in Messages : m = sess[q].values.flash
      BY <2>5, <2>3, <1>1
    <3>2. Past(m)'
      BY <3>1, <2>5, <2>1, <2>2, <1>1 DEF FlashInv, MessagesPast
    <3> QED
      BY <3>1, <3>2, <1>1 DEF Past
  <2>6. \A q \in Requests : \A m \in seen[q] : Past(m)'
    BY <2>1, <2>2, <1>t DEF FlashInv, MessagesPast
  <2> QED
    BY <1>1, <2>4, <2>5, <2>6 DEF MessagesPast
<1>5. OneRow'
  BY <1>1 DEF FlashInv, OneRow, Stores
<1>6. StepByStep'
  BY <1>1, <1>2, <1>3, <1>b DEF FlashInv, StepByStep
<1>7. SeenUntilSaved'
  BY <1>1, <1>b, <1>t DEF FlashInv, SeenUntilSaved, Stores
<1>8. ShownIsGone'
  BY <1>1, <1>b DEF FlashInv, ShownIsGone, Stores
<1>9. SeenByOne' /\ DeliveredRuns'
  <2>1. \A q \in Requests : pc'[q] = "idle" => pc[q] = "idle"
    BY <1>1, <1>2
  <2>2. delivered' \subseteq {r}
    BY <1>3, <1>a DEF FlashInv, DeliveredRuns
  <2> QED
    BY <1>1, <1>b, <2>1, <2>2 DEF FlashInv, SeenByOne, DeliveredRuns
<1> QED
  BY <1>4, <1>5, <1>6, <1>7, <1>8, <1>9 DEF FlashInv

\* What a child has shown when it ends is in no row, and its memory is gone.
LEMMA FlashExits ==
    ASSUME TypeOK, BrowserInv, Alone, FlashInv, NEW r \in Requests, Close(r) \/ Crash(r)
    PROVE  FlashInv'
<1>1. Exit(r) /\ r \in Active
  BY DEF Close, Crash, Active
<1>2. /\ UNCHANGED sessions /\ pc'[r] = "done" /\ sess'[r] = NewSession
      /\ \A q \in Requests \ {r} :
            pc'[q] = pc[q] /\ sess'[q] = sess[q] /\ seen'[q] = seen[q] /\ calls'[q] = calls[q]
      /\ seen'[r] = IF r \in delivered THEN seen[r] ELSE {}
      /\ delivered' = delivered \ {r}
  BY <1>1 DEF Exit, Goto, SetSess, table, TypeOK
<1>a. Active' = {} /\ delivered' = {}
  BY <1>1, <1>2 DEF Active, Alone, FlashInv, DeliveredRuns
<1>b. \A q \in Requests : sess'[q].values.flash = None
  <2>1. NewSession.values.flash = None
    BY DEF NewSession, EmptyData
  <2> QED
    BY <1>1, <1>2, <2>1, OthersAreNew
<1>n. None \notin Messages
  BY SessionAssumption
<1>t. \A q \in Requests : seen[q] \subseteq Messages /\ seen'[q] \subseteq seen[q]
  BY <1>2 DEF TypeOK
<1>3. MessagesPast'
  <2>1. ASSUME NEW m \in Messages, Past(m)
        PROVE  Past(m)'
    <3>1. m[1] \in Requests
      BY DEF Messages
    <3> QED
      BY <2>1, <3>1, <1>2 DEF Past
  <2>2. \A t \in Tokens, m \in Messages : Stores(t, m)' => Past(m)'
    BY <1>2, <2>1 DEF FlashInv, MessagesPast, Stores
  <2>3. \A q \in Requests : \A m \in seen'[q] : Past(m)'
    BY <2>1, <1>t DEF FlashInv, MessagesPast
  <2> QED
    BY <2>2, <2>3, <1>b DEF MessagesPast
<1>4. OneRow'
  BY <1>2, <1>b, <1>n DEF FlashInv, OneRow, Stores
<1>5. StepByStep' /\ SeenUntilSaved' /\ DeliveredRuns'
  BY <1>a DEF StepByStep, SeenUntilSaved, DeliveredRuns
<1>6. ShownIsGone'
  <2>1. ASSUME NEW q \in Requests, pc'[q] = "done", NEW m \in seen'[q]
        PROVE  (\A t \in Tokens : ~Stores(t, m)') /\ \A p \in Requests : sess'[p].values.flash # m
    <3>1. m \in seen[q] /\ m \in Messages
      BY <2>1, <1>t
    <3>2. CASE q = r
      <4>1. r \in delivered
        BY <2>1, <3>2, <1>2
      <4>2. \A t \in Tokens : ~Stores(t, m)
        BY <4>1, <3>1, <3>2, <1>1 DEF FlashInv, SeenUntilSaved
      <4> QED
        BY <4>2, <3>1, <1>2, <1>b, <1>n DEF Stores
    <3>3. CASE q # r
      <4>1. \A t \in Tokens : ~Stores(t, m)
        BY <3>3, <3>1, <2>1, <1>2 DEF FlashInv, ShownIsGone
      <4> QED
        BY <4>1, <3>1, <1>2, <1>b, <1>n DEF Stores
    <3> QED
      BY <3>2, <3>3
  <2> QED
    BY <2>1 DEF ShownIsGone
<1>7. SeenByOne'
  <2>1. \A q \in Requests : pc'[q] = "idle" => pc[q] = "idle"
    BY <1>2
  <2>2. \A q \in Requests : pc'[q] = "idle" => seen'[q] = {}
    BY <2>1, <1>t DEF FlashInv, SeenByOne
  <2>3. \A q, p \in Requests : q # p => seen'[q] \cap seen'[p] = {}
    BY <1>t DEF FlashInv, SeenByOne
  <2> QED
    BY <2>2, <2>3 DEF SeenByOne
<1> QED
  BY <1>3, <1>4, <1>5, <1>6, <1>7 DEF FlashInv

\* A child starts, and nothing else happens.
Starts(r) ==
    /\ UNCHANGED <<sessions, calls, sess, seen, sent, delivered>>
    /\ pc[r] = "idle"
    /\ pc'[r] \notin {"idle", "insert", "transmit"}
    /\ \A q \in Requests \ {r} : pc'[q] = pc[q]

\* It has read nothing and loaded nothing.
LEMMA FlashStarts ==
    ASSUME TypeOK, BrowserInv, FlashInv, NEW r \in Requests, Start(r)
    PROVE  FlashInv'
<1>1. Starts(r)
  <2>1. ASSUME NEW c \in Clients, NEW m \in {"GET", "POST"},
               NEW l \in {"verify", "dispatch"}, NEW f \in CsrfTokens \cup {None},
               Begin(r, c, m, l, f)
        PROVE  Starts(r)
    BY <2>1 DEF Starts, Begin, Goto, table, world, response, TypeOK
  <2>2. ASSUME NEW c \in Clients, BeginRefused(r, c)
        PROVE  Starts(r)
    BY <2>2 DEF Starts, BeginRefused, StartSend, Goto, table, world, response, TypeOK
  <2>3. CASE ForkFails(r)
    BY <2>3 DEF Starts, ForkFails, Goto, table, world, response, TypeOK
  <2> QED
    BY <2>1, <2>2, <2>3 DEF Start
<1>2. /\ r \notin Active /\ r \notin delivered /\ seen[r] = {} /\ sess[r] = NewSession
      /\ \A q \in Requests \ {r} : q \in Active' <=> q \in Active
  BY <1>1 DEF Starts, Active, FlashInv, SeenByOne, DeliveredRuns, BrowserInv, IdleIsNew
<1>t. \A q \in Requests : /\ seen[q] \subseteq Messages
                          /\ sess[q].values.flash \in Messages \cup {None}
  BY DEF TypeOK, SessionRecords, Data
<1>3. MessagesPast'
  <2>1. ASSUME NEW m \in Messages, Past(m)
        PROVE  Past(m)'
    <3>1. m[1] \in Requests
      BY DEF Messages
    <3> QED
      BY <2>1, <3>1, <1>1 DEF Starts, Past
  <2>2. \A t \in Tokens, m \in Messages : Stores(t, m)' => Past(m)'
    BY <1>1, <2>1 DEF Starts, FlashInv, MessagesPast, Stores
  <2>3. \A q \in Requests : \A m \in seen[q] : Past(m)'
    BY <2>1, <1>t DEF FlashInv, MessagesPast
  <2>4. ASSUME NEW q \in Requests, sess'[q].values.flash # None
        PROVE  Past(sess[q].values.flash)'
    <3>1. PICK m \in Messages : m = sess[q].values.flash
      BY <2>4, <1>t, <1>1 DEF Starts
    <3>2. Past(m)'
      BY <3>1, <2>4, <2>1, <1>1 DEF Starts, FlashInv, MessagesPast
    <3> QED
      BY <3>1, <3>2, <1>1 DEF Starts, Past
  <2> QED
    BY <1>1, <2>2, <2>3, <2>4 DEF Starts, MessagesPast
<1>4. OneRow'
  BY <1>1 DEF Starts, FlashInv, OneRow, Stores
<1>5. StepByStep'
  <2>1. sess[r].destroy = FALSE
    BY <1>2 DEF NewSession
  <2>2. ASSUME NEW q \in Active', q # r
        PROVE  /\ pc'[q] = "insert" => /\ NeedsSave(sess[q])
                                       /\ sess[q].token = None \/ sessions[sess[q].token] = None
               /\ ~sess[q].loaded => sess[q] = NewSession /\ seen[q] = {}
               /\ sess[q].destroy => sess[q].values.flash = None
               /\ q \in delivered => sent[q]
    <3>1. q \in Active /\ pc'[q] = pc[q]
      BY <2>2, <1>1, <1>2 DEF Starts, Active
    <3> QED
      BY <3>1 DEF FlashInv, StepByStep
  <2> QED
    BY <1>1, <1>2, <2>1, <2>2 DEF Starts, StepByStep, NeedsSave
<1>6. SeenUntilSaved'
  <2>1. ASSUME NEW q \in Active', NEW m \in seen[q]
        PROVE  /\ sess[q].values.flash # m
               /\ \A t \in Tokens :
                     Stores(t, m) => /\ t = sess[q].token
                                     /\ NeedsSave(sess[q])
                                     /\ pc'[q] # "transmit"
                                     /\ q \notin delivered
    <3>1. q \in Active /\ pc'[q] = pc[q]
      BY <2>1, <1>1, <1>2 DEF Starts, Active
    <3> QED
      BY <3>1 DEF FlashInv, SeenUntilSaved
  <2> QED
    BY <2>1, <1>1 DEF Starts, SeenUntilSaved, NeedsSave, Stores
<1>7. ShownIsGone'
  BY <1>1, <1>2 DEF Starts, FlashInv, ShownIsGone, Stores
<1>8. SeenByOne' /\ DeliveredRuns'
  <2>1. \A q \in Requests : pc'[q] = "idle" => pc[q] = "idle"
    BY <1>1 DEF Starts
  <2>2. delivered \subseteq Active'
    BY <1>2 DEF FlashInv, DeliveredRuns, TypeOK
  <2> QED
    BY <2>1, <2>2, <1>1 DEF Starts, FlashInv, SeenByOne, DeliveredRuns
<1> QED
  BY <1>3, <1>4, <1>5, <1>6, <1>7, <1>8 DEF FlashInv

\* Every step keeps FlashInv while one child runs and no session_load runs out of
\* memory.
LEMMA FlashStep ==
    ASSUME "load" \notin Faults
    PROVE  TypeOK /\ TypeOK' /\ BrowserInv /\ AnswerInv /\ Alone /\ FlashInv /\ [Next]_vars
             => FlashInv'
<1> SUFFICES ASSUME TypeOK, TypeOK', BrowserInv, AnswerInv, Alone, FlashInv, [Next]_vars
             PROVE  FlashInv'
  OBVIOUS
<1>1. CASE UNCHANGED vars \/ Tick \/ sessions_cleanup
  <2>1. UNCHANGED <<pc, calls, sess, seen, sent, delivered>>
    BY <1>1 DEF vars, Tick, sessions_cleanup, response, world
  <2>2. \A t \in Tokens : sessions'[t] \in {sessions[t], None}
    BY <1>1 DEF vars, Tick, sessions_cleanup, table, TypeOK
  <2> QED
    BY <2>1, <2>2, FlashVanishes
<1>2. ASSUME NEW r \in Requests, Load(r) PROVE FlashInv'
  BY <1>2, FlashLoadStep, FlashMoves DEF Load
<1>3. ASSUME NEW r \in Requests, Send(r) PROVE FlashInv'
  BY <1>3, FlashCommitStep, FlashMoves, FlashTransmits DEF Send
<1>4. ASSUME NEW r \in Requests, Close(r) \/ Crash(r) PROVE FlashInv'
  BY <1>4, FlashExits
<1>5. ASSUME NEW r \in Requests, Step(r) PROVE FlashInv'
  BY <1>2, <1>3, <1>4, <1>5, FlashVerify, FlashCalls, FlashMoves DEF Step
<1>6. ASSUME NEW r \in Requests, Start(r) PROVE FlashInv'
  BY <1>6, FlashStarts
<1> QED
  BY <1>1, <1>4, <1>5, <1>6 DEF Next

\* A flash message is shown on one page at most, for any number of requests that do
\* not overlap, whatever else than session_load's memory fails: the deletion that
\* flash_get makes is stored, or the message's row is gone, before its page goes out.
THEOREM FlashTheorem ==
    ASSUME MaxOverlap <= 1, "load" \notin Faults
    PROVE  Spec => []FlashAtMostOnce
<1>1. Init => FlashInv
  <2> SUFFICES ASSUME Init PROVE FlashInv
    OBVIOUS
  <2>1. \A r \in Requests : sess[r].values.flash = None /\ seen[r] = {} /\ pc[r] = "idle"
    BY DEF Init, NewSession, EmptyData
  <2>2. \A t \in Tokens : sessions[t] = None
    BY DEF Init
  <2>3. Active = {} /\ delivered = {}
    BY <2>1 DEF Init, Active
  <2> QED
    BY <2>1, <2>2, <2>3 DEF FlashInv, MessagesPast, OneRow, Stores, StepByStep, SeenUntilSaved,
                            ShownIsGone, SeenByOne, DeliveredRuns
<1>2. FlashInv => FlashAtMostOnce
  <2> SUFFICES ASSUME FlashInv, NEW r \in Requests, NEW q \in Requests, r # q
               PROVE  Shown(r) \cap Shown(q) = {}
    BY DEF FlashAtMostOnce
  <2>1. Shown(r) \subseteq seen[r] /\ Shown(q) \subseteq seen[q]
    BY DEF Shown
  <2>2. seen[r] \cap seen[q] = {}
    BY DEF FlashInv, SeenByOne
  <2> QED
    BY <2>1, <2>2
<1> QED
  BY <1>1, <1>2, FlashStep, AloneInvariant, TypeCorrect, BrowserInvariant, AnswerInvariant, PTL
  DEF Spec
============================================================================
