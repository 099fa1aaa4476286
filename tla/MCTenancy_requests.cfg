SPECIFICATION Spec
CONSTANTS
    r1 = r1
    r2 = r2
    r3 = r3
    b1 = b1
    b2 = b2
    e1 = e1
    e2 = e2
    e3 = e3
    k1 = k1
    k2 = k2
    None = None
    FirstAdmins = {b1, b2}
    FirstEmail <- AdminEmails
    FirstKeys <- KeyOfFirst
    Requests = {r1, r2, r3}
    Emails = {e1, e2, e3}
    Keys = {k1, k2}
    Kinds = {"register", "apply", "createUser", "validate", "resolve", "createKey", "revokeKey", "listKeys", "me"}
SYMMETRY Symmetry
CONSTRAINT OneGroup
INVARIANT TenantsApart
INVARIANT RevokedKeyIsDead
INVARIANT RevokedOnce
INVARIANT AnswersMatchRows
CHECK_DEADLOCK FALSE
