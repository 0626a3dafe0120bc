----------------------------- MODULE MCSession -----------------------------
(* Small instances of Session for TLC. *)
EXTENDS Session, TLC

\* Requests, tokens, users and browsers are interchangeable: no definition of
\* Session orders or names one.
Symmetry ==
    Permutations(Requests) \cup Permutations(Tokens) \cup Permutations(CsrfTokens)
      \cup Permutations(Users) \cup Permutations(Clients)

\* For the run that checks liveness, where a symmetry set would be unsound:
\* requests and tokens are numbers there, and only behaviours that accept and
\* draw them in ascending order are explored.  Every other behaviour is one of
\* these with its names permuted, and no step of a running child leaves them.
InTurn ==
    /\ \A r, q \in Requests : r < q /\ pc[r] = "idle" => pc[q] = "idle"
    /\ \A s, t \in Tokens : s < t /\ tokenFor[s] = None => tokenFor[t] = None

\* So that two requests are enough to meet in one session: it may be there when
\* they start, made for browser c under token t by a request that has ended.
Established(c, t, d) ==
    /\ sessions = [x \in Tokens |-> IF x = t THEN [data |-> d, expires |-> TTL] ELSE None]
    /\ jar = [x \in Clients |-> IF x = c THEN t ELSE None]
    /\ tokenFor = [x \in Tokens |-> IF x = t THEN c ELSE None]
    /\ csrfFor = [x \in CsrfTokens |-> IF x = d.csrf THEN c ELSE None]
    /\ owner = [x \in Tokens |-> IF x = t THEN d.user ELSE Unset]

OldData == {d \in Data : d.flash = None /\ \A k \in AppKeys : d.app[k] = None}

RunningInit ==
    /\ \E c \in Clients, t \in Tokens \cup {None}, d \in OldData :
          (t = None => d = EmptyData) /\ Established(c, t, d)
    /\ now = 0
    /\ pc = [r \in Requests |-> "idle"]
    /\ after = [r \in Requests |-> "close"]
    /\ client = [r \in Requests |-> None]
    /\ method = [r \in Requests |-> "GET"]
    /\ cookie = [r \in Requests |-> None]
    /\ form = [r \in Requests |-> None]
    /\ sess = [r \in Requests |-> NewSession]
    /\ setCookie = [r \in Requests |-> Unset]
    /\ sent = [r \in Requests |-> FALSE]
    /\ calls = [r \in Requests |-> 0]
    /\ destroyed = {}
    /\ seen = [r \in Requests |-> {}]
    /\ delivered = {}
    /\ faulted = {}

RunningSpec == RunningInit /\ [][Next]_vars

============================================================================
