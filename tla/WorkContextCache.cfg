SPECIFICATION Spec
CONSTANTS
    Calls = {c1, c2, c3}
    Keys = {k1, k2}
    Lifetimes = {1, 2, 6}
    Renewal = 3
    MinimumLifetime = 2
    MaxTime = 3
    None = None
SYMMETRY Symmetry
INVARIANTS
    TypeOK
    SingleFlight
    NoIssueWhileUsable
    NoReaskAfterRefusal
    CallersShareTheOutcome
    TokensAreForTheirAsk
    HeldTokensAreNamed
PROPERTIES
    CachedContextsOutliveTheCall
    ImplementsIssueOnce
