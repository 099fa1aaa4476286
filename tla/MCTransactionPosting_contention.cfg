\* Two requests with one idempotency key, a retry worker and the reconciler.
CONSTANTS
    Keys = {k1}
    Intents = {deposit, withdraw}
    Checked = {withdraw}
    None = None
    Handlers = {h1, h2}
    Workers = {w1}
    MaxAttempts = 1
    MaxFaults = 1
    LeaseOutlastsCall = FALSE
SPECIFICATION Spec
SYMMETRY Symmetry
INVARIANTS
    TypeOK
    PostedIsOnLedger
    ConfirmedIsOnLedger
    ExclusiveUntilReclaimed
    TerminalStampMatches
PROPERTIES
    FinalUntilReclaimed
    ImplementsOutboundTask
