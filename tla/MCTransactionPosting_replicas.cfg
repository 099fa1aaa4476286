\* Two replicas' retry workers over one row: retries end and requests are answered.
CONSTANTS
    Keys = {k1}
    Intents = {deposit}
    Checked = {}
    None = None
    Handlers = {h1}
    Workers = {w1, w2}
    MaxAttempts = 2
    MaxFaults = 1
    LeaseOutlastsCall = FALSE
SPECIFICATION FairSpec
INVARIANTS
    AttemptsBounded
PROPERTIES
    EverySettles
    EveryRequestAnswered
