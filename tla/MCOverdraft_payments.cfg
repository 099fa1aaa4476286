SPECIFICATION Spec
CONSTANTS
    a1 = a1
    a2 = a2
    k1 = k1
    k2 = k2
    k3 = k3
    k4 = k4
    r1 = r1
    r2 = r2
    r3 = r3
    None = None
    Parties = {a1, a2}
    Cash = Cash
    Unread = Unread
    Requests = {r1, r2, r3}
    Payments <- Mixed
    Opening = 2
SYMMETRY Symmetry
VIEW View
INVARIANT BalancesAddUp
 
CHECK_DEADLOCK FALSE
