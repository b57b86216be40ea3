SPECIFICATION FairSpec
CONSTANTS
    Calls = {c1, c2, c3}
    Keys = {k1}
    Lifetimes = {1, 2}
    Renewal = 3
    MinimumLifetime = 2
    MaxTime = 2
    None = None
PROPERTY
    EveryCallReturns
