SPECIFICATION Spec
CONSTANTS
    i1 = i1
    i2 = i2
    i3 = i3
    u1 = u1
    n1 = n1
    n2 = n2
    n3 = n3
    r1 = r1
    r2 = r2
    r3 = r3
    None = None
    Users = {u1}
    Requests = {r1, r2, r3}
    Ids = {i1, i2, i3}
    Numbers = {n1, n2, n3}
    MaxRetries = 2
    Operations <- AllOperations
    Opened <- OneAccount
SYMMETRY Symmetry
INVARIANT SecondAccountTakesOverlap
INVARIANT MoneyNeedsActiveAccounts
PROPERTY ReopenedOnlyByOverlap
CHECK_DEADLOCK FALSE
