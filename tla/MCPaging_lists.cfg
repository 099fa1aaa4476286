SPECIFICATION PagingSpec
CONSTANTS
    Absent = Absent
    o1 = o1
    e1 = e1
    e2 = e2
    Ids = {1, 2, 3, 4}
    Times = {1, 2}
    Organizations <- OneOrganization
    Environments <- BothEnvironments
    Walks = {w1}
    DefaultPerPage = 2
    MaxPerPage = 2
    Wrap = 65536
INVARIANT TotalIsOfTheList
INVARIANT WalkIsComplete
INVARIANT RepeatTakesInsert
CHECK_DEADLOCK FALSE
