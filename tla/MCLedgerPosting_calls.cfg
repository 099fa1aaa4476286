SPECIFICATION FairSpec
CONSTANTS
    Calls = {c1, c2}
    Keys = {k1, k2, k3}
    Accounts = {cash, alice, bob}
    Cash = cash
    alice = alice
    bob = bob
    Postings <- AllPostings
    None = None
    Opened = {cash, alice}
    Leftover = {k3}
INVARIANT DoubleEntry
INVARIANT BalanceFollowsEntries
INVARIANT PostedIsComplete
PROPERTY ImplementsOutboundTask
PROPERTY EveryCallAnswered
CHECK_DEADLOCK FALSE
