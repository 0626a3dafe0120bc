----------------------------- MODULE MCRequest -----------------------------
(* An instance of Request for TLC: routes and requests that tell its cases  *)
(* apart.                                                                   *)
EXTENDS Request, TLC

CONSTANTS a, b, empty, x, y, z, colon

Path(segments) == [segments |-> segments, slash |-> FALSE]

Route(m, path, guarded) == [method |-> m, path |-> path, guarded |-> guarded]

MCRoutes ==
    { Route("GET", Root, FALSE),
      Route("GET", Path(<<a>>), FALSE),
      Route("GET", Path(<<a, b>>), TRUE),
      Route("GET", Path(<<a, x>>), FALSE),
      Route("GET", Path(<<x, y>>), FALSE),
      Route("GET", Path(<<x, y, z>>), FALSE),
      Route("GET", Path(<<colon>>), FALSE),
      Route("GET", [segments |-> <<a>>, slash |-> TRUE], FALSE),
      Route("POST", Path(<<a>>), FALSE),
      Route("DELETE", Path(<<a, x>>), FALSE),
      Route("PATCH", Path(<<x>>), TRUE) }

MCPaths ==
    { Root, Path(<<a>>), Path(<<b>>), Path(<<a, b>>), Path(<<b, a>>), Path(<<a, empty>>),
      Path(<<empty, a>>), Path(<<a, b, a>>), [segments |-> <<a>>, slash |-> TRUE] }

Wire(m, path, headers, pairs, head, size) ==
    [head |-> head, size |-> size, goodLine |-> TRUE, method |-> m, path |-> path,
     headers |-> headers, pairs |-> pairs]

Header(name, value) == [name |-> name, value |-> value]

Pair(name, value, decodes) == [name |-> name, value |-> value, decodes |-> decodes]

\* A GET of each path, in one piece of two bytes.
Links == {Wire("GET", path, <<>>, <<>>, 2, 2) : path \in MCPaths}

Length(n) == <<Header("length", n)>>

\* What can be wrong with a head, and bodies of every length.
HeaderLists ==
    { <<>>, Length(0), Length(1), Length(2), Length(3), Length(NotANumber),
      <<Header("broken", "other")>>, <<Header("encoding", "chunked")>>,
      Length(1) \o Length(3), <<Header("encoding", "other")>> \o Length(2),
      Length(1) \o Length(1) \o Length(1) \o Length(1) }

\* Heads up to the limit and beyond it; the client may send less or more.
Readings ==
    {Wire("GET", Root, headers, <<>>, head, size) :
        headers \in HeaderLists, head \in 2 .. 4, size \in 1 .. 6}
      \cup {[Wire("UNKNOWN", Root, <<>>, <<>>, 2, 2) EXCEPT !.goodLine = good] :
               good \in BOOLEAN}

Forms(m, pairs) ==
    {Wire(m, path, <<Header("type", type)>> \o Length(1), pairs, 2, 3) :
        path \in {Path(<<a>>), Path(<<a, b>>)}, type \in {"form", "other"}}

PairLists ==
    { <<>>, <<Pair("_csrf", "good", TRUE)>>, <<Pair("_csrf", "bad", TRUE)>>,
      <<Pair("_method", "DELETE", TRUE)>>,
      <<Pair("_method", "DELETE", TRUE), Pair("_csrf", "good", TRUE)>>,
      <<Pair("_method", "PATCH", TRUE), Pair("_csrf", "bad", TRUE), Pair("_csrf", "good", TRUE)>>,
      <<Pair("_method", "GET", TRUE), Pair("_csrf", "good", TRUE)>>,
      <<Pair("field", "other", FALSE)>>,
      <<Pair("field", "other", TRUE), Pair("field", "other", TRUE),
        Pair("field", "other", TRUE), Pair("_csrf", "good", TRUE)>> }

MCWires == Links \cup Readings \cup UNION {Forms(m, pairs) : m \in {"GET", "POST"}, pairs \in PairLists}

============================================================================
