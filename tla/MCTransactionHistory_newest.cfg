SPECIFICATION HistorySpec
CONSTANTS
    Unread = Unread
    Cash = Cash
    a = a
    b = b
    Parties = {a, b}
    Payments <- FourPayments
    Legacy = {0}
    Listings = {l1}
    Questions <- NewestLists
CONSTRAINT Unanswered
INVARIANT NewestAreRight
CHECK_DEADLOCK FALSE
