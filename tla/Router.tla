------------------------------- MODULE Router -------------------------------
(***************************************************************************)
(* The router of src/routing/router.c: routes are added before the first   *)
(* request; a dispatch looks for the route that fits the path with the     *)
(* most static segments, binds the parameters and calls the handler.       *)
(*                                                                         *)
(* A path is what router_next_segment makes of it: its segments, and       *)
(* whether a slash is left over behind the last one.  "/" is no segment    *)
(* and a slash, "/a//b/" is <<a, EmptyWord, b>> and a slash.               *)
(***************************************************************************)
EXTENDS Naturals, FiniteSets, Sequences

CONSTANTS
    Words,           \* segments of paths and static segments of routes
    EmptyWord,       \* the segment of length 0
    Parameters,      \* the segments of routes that start with a colon
    BareColon,       \* the segment ":"
    RouteArgs,       \* routes the application adds: [method, path, guarded]
    RouterMaxRoutes, \* ROUTER_MAX_ROUTES
    MaxRouteParams   \* CEASY_MAX_ROUTE_PARAMS

\* What http_method_parse distinguishes.
Methods == {"GET", "POST", "PATCH", "PUT", "DELETE", "UNKNOWN"}

Paths == [segments : Seq(Words), slash : BOOLEAN]

Patterns == [segments : Seq(Words \cup Parameters), slash : BOOLEAN]

ASSUME RouterAssumption ==
    /\ EmptyWord \in Words /\ BareColon \in Parameters
    /\ Words \cap Parameters = {}
    /\ \A a \in RouteArgs : a.method \in Methods \ {"UNKNOWN"} /\ a.path \in Patterns
    /\ RouterMaxRoutes \in Nat /\ MaxRouteParams \in Nat

VARIABLES
    routes,  \* router->routes
    result,  \* what router_dispatch returned, "none" before
    called,  \* the route whose handler was called, 0 for none
    params   \* context->route_params up to route_param_count

router == <<routes, result, called, params>>

Root == [segments |-> <<>>, slash |-> TRUE]

RouterTypeOK ==
    /\ routes \in Seq(RouteArgs) /\ Len(routes) <= RouterMaxRoutes
    /\ result \in {"none", "dispatched", "not_allowed", "not_found"}
    /\ called \in 0 .. Len(routes)
    /\ params \in Seq([name : Parameters, value : Words \ {EmptyWord}])
    /\ Len(params) <= MaxRouteParams

RouterInit == routes = <<>> /\ result = "none" /\ called = 0 /\ params = <<>>

-----------------------------------------------------------------------------
(* Matching.                                                               *)

Shorter(m, n) == IF m < n THEN m ELSE n

\* The segments that the loop of router_path_matches compares.
Compared(pattern, path) == Shorter(Len(pattern.segments), Len(path.segments))

\* The segments of the pattern that it reads: one more, if there is one, because
\* the pattern's segment is read before the path turns out to be at its end.
PatternRead(pattern, path) == Shorter(Len(pattern.segments), Len(path.segments) + 1)

\* The cursor is at the end of p once n segments are read.
AtEnd(p, n) == n = Len(p.segments) /\ ~p.slash

SegmentFits(segment, word) ==
    IF segment \in Parameters THEN word # EmptyWord /\ segment # BareColon
    ELSE segment = word

\* The compared positions that hold parameters.
ParameterPositions(pattern, path) ==
    {i \in 1 .. Compared(pattern, path) : pattern.segments[i] \in Parameters}

\* Mutant: one parameter too many.
RoomForMore(n) == n <= MaxRouteParams + 1

RoomFor(n) == n <= MaxRouteParams

router_path_matches(pattern, path) ==
    IF pattern = Root \/ path = Root THEN pattern = path
    ELSE /\ \A i \in 1 .. Compared(pattern, path) :
               SegmentFits(pattern.segments[i], path.segments[i])
         /\ RoomFor(Cardinality(ParameterPositions(pattern, path)))
         /\ AtEnd(pattern, PatternRead(pattern, path))
         /\ AtEnd(path, Compared(pattern, path))

StaticCount(pattern, path) ==
    Compared(pattern, path) - Cardinality(ParameterPositions(pattern, path))

\* The parameters a match binds, in the order of the path.
Bound(pattern, path) ==
    LET bound[i \in 0 .. Compared(pattern, path)] ==
          IF i = 0 THEN <<>>
          ELSE IF pattern.segments[i] \in Parameters
               THEN Append(bound[i - 1], [name |-> pattern.segments[i], value |-> path.segments[i]])
               ELSE bound[i - 1]
    IN  bound[Compared(pattern, path)]

Candidate(i, method, path) ==
    routes[i].method = method /\ router_path_matches(routes[i].path, path)

None == [index |-> 0, params |-> <<>>]

\* Mutant: the last of equally static routes wins.
BetterOrEqual(i, best, path) ==
    \/ best.index = 0
    \/ StaticCount(routes[i].path, path) >= StaticCount(routes[best.index].path, path)

Better(i, best, path) ==
    \/ best.index = 0
    \/ StaticCount(routes[i].path, path) > StaticCount(routes[best.index].path, path)

\* The best of the first i routes, from the first one on.
router_find(method, path) ==
    LET best[i \in 0 .. Len(routes)] ==
          IF i = 0 THEN None
          ELSE IF Candidate(i, method, path) /\ Better(i, best[i - 1], path)
               THEN [index |-> i, params |-> Bound(routes[i].path, path)]
               ELSE best[i - 1]
    IN  best[Len(routes)]

router_path_exists(path) ==
    \E i \in DOMAIN routes : router_path_matches(routes[i].path, path)

-----------------------------------------------------------------------------
(* Operations.                                                             *)

\* router_add_guarded, which all the route_* functions end in.  It refuses a
\* route when the table is full, an unknown method and a path without a slash.
router_add_guarded(route) ==
    /\ Len(routes) < RouterMaxRoutes
    /\ routes' = Append(routes, route)
    /\ UNCHANGED <<result, called, params>>

\* The route's guard, if it has one, may turn the request down.
Admitted(i) == IF routes[i].guarded THEN BOOLEAN ELSE {TRUE}

router_dispatch(method, path) ==
    LET found == router_find(method, path)
    IN  /\ params' = found.params
        /\ IF found.index # 0
           THEN /\ result' = "dispatched"
                /\ \E admitted \in Admitted(found.index) :
                      called' = IF admitted THEN found.index ELSE 0
           ELSE /\ result' = IF router_path_exists(path) THEN "not_allowed" ELSE "not_found"
                /\ called' = 0
        /\ UNCHANGED routes

=============================================================================
