SPECIFICATION Spec
CONSTANTS
    r1 = r1
    r2 = r2
    Requests = {r1, r2}
    Asked <- Each
    Reasons = {0, 20}
    Appends = {x1}
    Appended <- Posts
    MaxCrashes = 1
INVARIANT RowTellsOutcome
INVARIANT AtMostOneRow
INVARIANT AwaitedInOrder
CHECK_DEADLOCK FALSE
