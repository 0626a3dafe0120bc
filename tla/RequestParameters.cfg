\* Two routes and every wire: a parameter without a value is found within six steps.
CONSTANTS
    a = a
    b = b
    empty = empty
    x = x
    y = y
    z = z
    colon = colon
    Words = {a, b, empty}
    EmptyWord = empty
    Parameters = {x, y, z, colon}
    BareColon = colon
    RouteArgs <- MCRoutes
    RouterMaxRoutes = 2
    MaxRouteParams = 2
    Wires <- MCWires
    MaxHeaderBytes = 3
    MaxRequestBody = 2
    MaxHeaders = 3
    MaxFormParams = 3
    NotANumber = NotANumber
SPECIFICATION Spec
INVARIANT EveryParameterBound
CHECK_DEADLOCK FALSE
