INIT TwoClientsOrOneInput
NEXT LimiterNext
CONSTANTS
    r1 = r1
    r2 = r2
    r3 = r3
    r4 = r4
    r5 = r5
    c1 = c1
    c2 = c2
    p1 = p1
    p2 = p2
    None = None
    Invalid = Invalid
    Addresses = {c1, c2, p1, p2}
    Proxies = {p1, p2}
    SkipsInvalid = FALSE
    Arrivals = {r1, r2, r3, r4, r5}
    Inputs <- AllInputs
    Window = 2
    Max = 2
    MaxTime = 6
SYMMETRY Symmetry
CONSTRAINT Bounded
INVARIANT LessThanTwiceMax
INVARIANT RefusedOnlyWhenFull
INVARIANT KeyIsClient
CHECK_DEADLOCK FALSE
