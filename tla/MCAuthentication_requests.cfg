SPECIFICATION FairSpec
CONSTANTS
    r1 = r1
    r2 = r2
    r3 = r3
    s1 = s1
    s2 = s2
    s3 = s3
    t1 = t1
    t2 = t2
    t3 = t3
    t4 = t4
    User = User
    Initial = Initial
    Requests = {r1, r2}
    Sessions = {s1, s2, s3}
    Tokens = {t1, t2, t3, t4}
    Kinds = {"login", "refresh", "revoke", "request", "reset"}
    FirstSessions = {s1}
    FirstTokens = {t1, t2}
INVARIANT OutlivesResetOnlyByOverlap
INVARIANT SpentStaysSpent
INVARIANT TokenUsedOnce
INVARIANT TwoUsableTokensTakeOverlap
PROPERTY EveryRequestAnswered
CHECK_DEADLOCK FALSE
