------------------------------ MODULE Request ------------------------------
(***************************************************************************)
(* One connection in its child process, from the first byte to the         *)
(* handler: ceasy_handle_client and ceasy_read_request of src/ceasy.c,     *)
(* src/http/request.c and the forms of src/http/context.c, with Router for *)
(* the dispatch.  Session models what the handler and the response do.     *)
(*                                                                         *)
(* What the client sends is known beforehand and called the wire; TCP cuts *)
(* it into pieces, and the client may stop and hang up anywhere.           *)
(***************************************************************************)
EXTENDS Router

CONSTANTS
    Wires,          \* what clients send, see WireType
    MaxHeaderBytes, \* CEASY_MAX_HEADER_BYTES
    MaxRequestBody, \* CEASY_MAX_REQUEST_BODY
    MaxHeaders,     \* CEASY_MAX_HEADERS
    MaxFormParams,  \* CEASY_MAX_FORM_PARAMS
    NotANumber      \* a Content-Length that is none

\* head: where the empty line ends, counted in bytes; size: bytes sent.
\* Headers are told apart by what the parser does with them: "length" is
\* Content-Length, "encoding" Transfer-Encoding, "type" Content-Type, "broken" a
\* line without colon or name.  pairs is the form in a body of the given length.
IsWire(w) ==
    /\ w.head \in Nat \ {0} /\ w.size \in Nat /\ w.goodLine \in BOOLEAN
    /\ w.method \in Methods /\ w.path \in Paths
    /\ DOMAIN w.headers \subseteq Nat /\ DOMAIN w.pairs \subseteq Nat
    /\ \A i \in DOMAIN w.headers :
          /\ w.headers[i].name \in {"length", "encoding", "type", "other", "broken"}
          /\ w.headers[i].name = "length" => w.headers[i].value \in Nat \cup {NotANumber}
    /\ \A i \in DOMAIN w.pairs :
          w.pairs[i].name \in {"_method", "_csrf", "field"} /\ w.pairs[i].decodes \in BOOLEAN

ASSUME RequestAssumption ==
    /\ \A w \in Wires : IsWire(w)
    /\ MaxHeaderBytes \in Nat \ {0} /\ MaxRequestBody \in Nat
    /\ MaxHeaders \in Nat /\ MaxFormParams \in Nat

VARIABLES
    at,       \* where the process is
    wire,     \* what the client of this connection sends
    received, \* bytes in the buffer
    verdict,  \* what ceasy_read_request returned, "INCOMPLETE" before
    method,   \* context.request.method
    status,   \* how the request was answered, "none" before
    cut       \* bookkeeping: the client hung up, or there was no buffer

vars == <<router, at, wire, received, verdict, method, status, cut>>

NoWire == [head |-> 0]

Statuses == {"none", "400", "403", "404", "405", "413", "500", "asset", "handler", "unanswered"}

\* The types of the request's and of the router's variables.
TypeOK ==
    /\ RouterTypeOK
    /\ at \in {"start", "read", "form", "dispatch", "done"}
    /\ wire \in Wires \cup {NoWire}
    /\ received \in 0 .. MaxHeaderBytes + MaxRequestBody
    /\ verdict \in {"INCOMPLETE", "OK", "BAD_REQUEST", "PAYLOAD_TOO_LARGE", "UNSUPPORTED"}
    /\ method \in Methods
    /\ status \in Statuses
    /\ cut \in BOOLEAN

Init ==
    /\ RouterInit
    /\ at = "start" /\ wire = NoWire /\ received = 0 /\ verdict = "INCOMPLETE"
    /\ method = "UNKNOWN" /\ status = "none" /\ cut = FALSE

-----------------------------------------------------------------------------
(* Parsing.                                                                *)

\* The places of the entries of seq with the name.
Named(seq, name) == {i \in DOMAIN seq : seq[i].name = name}

\* request_header, request_has_header, context_form: the first one counts.
Has(seq, name) == Named(seq, name) # {}

First(seq, name) ==
    LET i == CHOOSE i \in Named(seq, name) : \A j \in Named(seq, name) : i <= j
    IN  seq[i].value

GoodHeaders(w) ==
    /\ w.goodLine
    /\ Len(w.headers) <= MaxHeaders
    /\ ~Has(w.headers, "broken")

Chunked(w) == Has(w.headers, "encoding") /\ First(w.headers, "encoding") = "chunked"

HasLength(w) == Has(w.headers, "length")

BadLength(w) == HasLength(w) /\ First(w.headers, "length") = NotANumber

ContentLength(w) == IF HasLength(w) THEN First(w.headers, "length") ELSE 0

request_parse_headers(w) ==
    CASE ~GoodHeaders(w) -> "BAD_REQUEST"
      [] GoodHeaders(w) /\ Chunked(w) -> "UNSUPPORTED"
      [] GoodHeaders(w) /\ ~Chunked(w) /\ BadLength(w) -> "BAD_REQUEST"
      [] OTHER -> IF ContentLength(w) > MaxRequestBody THEN "PAYLOAD_TOO_LARGE" ELSE "OK"

BodyMissing(w, n) == n < w.head + ContentLength(w)

\* request_parse, on the first n bytes of w.
request_parse(w, n) ==
    IF n < w.head
    THEN IF n >= MaxHeaderBytes THEN "BAD_REQUEST" ELSE "INCOMPLETE"
    ELSE IF w.head > MaxHeaderBytes THEN "BAD_REQUEST"
    ELSE IF request_parse_headers(w) # "OK" THEN request_parse_headers(w)
    ELSE IF BodyMissing(w, n) THEN "INCOMPLETE" ELSE "OK"

-----------------------------------------------------------------------------
(* Before and during reading.                                              *)

\* Routes are added before the server listens.
AddRoute ==
    /\ at = "start"
    /\ \E route \in RouteArgs : router_add_guarded(route)
    /\ UNCHANGED <<at, wire, received, verdict, method, status, cut>>

Accept ==
    /\ at = "start"
    /\ at' = "read"
    /\ wire' \in Wires
    /\ UNCHANGED <<router, received, verdict, method, status, cut>>

\* Mutant: the buffer is made for the body alone.
CapacityBody == MaxRequestBody

Capacity == MaxHeaderBytes + MaxRequestBody

\* After a verdict other than OK: an error response, and the connection ends.
ReadEnds(v) ==
    /\ verdict' = v
    /\ IF v = "OK"
       THEN at' = "form" /\ method' = wire.method /\ UNCHANGED status
       ELSE /\ at' = "done"
            /\ status' = IF v = "PAYLOAD_TOO_LARGE" THEN "413" ELSE "400"
            /\ UNCHANGED method

\* recv returns n bytes, which are parsed with everything before them.
Receive(n) ==
    /\ at = "read"
    /\ received + n <= wire.size /\ received + n <= Capacity
    /\ received' = received + n
    /\ LET parsed == request_parse(wire, received + n) IN
         IF parsed # "INCOMPLETE" THEN ReadEnds(parsed)
         ELSE IF received + n = Capacity THEN ReadEnds("PAYLOAD_TOO_LARGE")
         ELSE UNCHANGED <<at, verdict, method, status>>
    /\ UNCHANGED <<router, wire, cut>>

\* recv returns 0 or fails, or the buffer could not be allocated.
ReadFails ==
    /\ at = "read"
    /\ cut' = TRUE
    /\ ReadEnds("BAD_REQUEST")
    /\ UNCHANGED <<router, wire, received>>

-----------------------------------------------------------------------------
(* Forms.                                                                  *)

\* Mutant: only POST is taken for a method that changes something.
ChangesPost(m) == m = "POST"

Changes(m) == m \in {"POST", "PATCH", "PUT", "DELETE"}

FormType(w) == Has(w.headers, "type") /\ First(w.headers, "type") = "form"

\* The request carries a form whose _method and _csrf count.
CarriesForm(w) == w.method \in {"POST", "PATCH", "PUT", "DELETE"} /\ FormType(w)

\* context_parse_form.
FormOK(w) ==
    /\ Len(w.pairs) <= MaxFormParams
    /\ \A i \in DOMAIN w.pairs : w.pairs[i].decodes

\* The method a form asks for instead of its own.
Overridden(w) ==
    IF Has(w.pairs, "_method") /\ First(w.pairs, "_method") \in {"PATCH", "DELETE"}
    THEN First(w.pairs, "_method") ELSE w.method

\* csrf_verify, as far as it depends on the form: "good" is the session's token.
Verified(w) == Has(w.pairs, "_csrf") /\ First(w.pairs, "_csrf") = "good"

Refuse(s) == at' = "done" /\ status' = s

NoForm ==
    /\ at = "form"
    /\ ~CarriesForm(wire)
    /\ at' = "dispatch"
    /\ UNCHANGED <<router, wire, received, verdict, method, status, cut>>

\* Decoding fails also for want of memory.
FormFails ==
    /\ at = "form"
    /\ CarriesForm(wire)
    /\ Refuse("400")
    /\ UNCHANGED <<router, wire, received, verdict, method, cut>>

FormParsed ==
    /\ at = "form"
    /\ CarriesForm(wire) /\ FormOK(wire)
    /\ method' = Overridden(wire)
    /\ IF Changes(Overridden(wire)) /\ ~Verified(wire)
       THEN Refuse("403")
       ELSE at' = "dispatch" /\ UNCHANGED status
    /\ UNCHANGED <<router, wire, received, verdict, cut>>

-----------------------------------------------------------------------------
(* Dispatch.                                                               *)

\* The path cannot be copied for want of memory.
PathFails ==
    /\ at = "dispatch"
    /\ Refuse("500")
    /\ UNCHANGED <<router, wire, received, verdict, method, cut>>

\* How the framework answers after router_dispatch; a handler that has not
\* answered is answered for, a missing path only if the method is GET.
AnswerTo(r) ==
    CASE r = "dispatched" -> {"handler"}
      [] r = "not_allowed" -> {"405"}
      [] r = "not_found" -> IF method = "GET" THEN {"asset", "404"} ELSE {"unanswered"}

Dispatch ==
    /\ at = "dispatch"
    /\ router_dispatch(method, wire.path)
    /\ at' = "done"
    /\ status' \in AnswerTo(result')
    /\ UNCHANGED <<wire, received, verdict, method, cut>>

Next ==
    \/ AddRoute
    \/ Accept
    \/ \E n \in 1 .. Capacity : Receive(n)
    \/ ReadFails
    \/ NoForm
    \/ FormFails
    \/ FormParsed
    \/ PathFails
    \/ Dispatch

Spec == Init /\ [][Next]_vars

-----------------------------------------------------------------------------
(* Properties.                                                             *)

\* However TCP cuts the wire, ceasy_read_request comes to the verdict that
\* request_parse has on the whole of it, and once it has the whole it comes to
\* one: no early verdict on a part, no wait for bytes that are there already,
\* and the buffer is never too small for a request within the limits.
CutsIrrelevant ==
    /\ verdict # "INCOMPLETE" /\ ~cut => verdict = request_parse(wire, wire.size)
    /\ at = "read" /\ received = wire.size => request_parse(wire, wire.size) = "INCOMPLETE"

\* A handler that changes something runs for a form only with the session's csrf
\* token and with the whole body of the form before it.  Only a form sent with a
\* method that changes something may turn it, by _method, into PATCH or DELETE: a
\* link, which is a GET, never reaches such a handler (ceasy_handle_client).
FormsVerified ==
    called # 0 =>
        /\ received >= wire.head + ContentLength(wire)
        /\ routes[called].method # "GET" /\ FormType(wire) => Verified(wire)
        /\ routes[called].method # wire.method =>
              /\ wire.method \in {"POST", "PATCH", "PUT", "DELETE"}
              /\ routes[called].method \in {"PATCH", "DELETE"}

\* Of the routes that fit, the handler's has the most static segments, no earlier
\* one has as many, and the parameters are its own by name and value, not those of
\* a route that fitted before a better one was found (router_find, in one pass).
MostSpecific ==
    called # 0 =>
        /\ \A i \in DOMAIN routes : Candidate(i, method, wire.path) =>
              LET static(j) == StaticCount(routes[j].path, wire.path)
              IN  static(i) <= static(called) /\ (i < called => static(i) < static(called))
        /\ \A i \in DOMAIN params :
              \E j \in DOMAIN routes[called].path.segments \cap DOMAIN wire.path.segments :
                 /\ routes[called].path.segments[j] = params[i].name
                 /\ wire.path.segments[j] = params[i].value

\* README.md 172-175: route paths have static segments and parameters, which
\* context_param reads.  A handler runs with a value for each of its parameters.
EveryParameterBound ==
    called # 0 => \A j \in DOMAIN routes[called].path.segments :
        routes[called].path.segments[j] \in Parameters =>
            \E i \in DOMAIN params : params[i].name = routes[called].path.segments[j]

=============================================================================
