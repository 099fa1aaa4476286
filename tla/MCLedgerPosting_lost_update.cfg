SPECIFICATION Spec
CONSTANTS
    Calls = {c1, c2}
    Keys = {k1, k2}
    Accounts = {cash, alice, bob}
    Cash = cash
    alice = alice
    bob = bob
    Postings <- AllPostings
    None = None
    Opened = {cash, alice}
    Leftover = {}
SYMMETRY CallSymmetry
INVARIANT BalanceMatchesEntries
CHECK_DEADLOCK FALSE
