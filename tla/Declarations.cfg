SPECIFICATION Spec
CONSTANTS
    Arrays = {x, y}
    Slices <- Mixed
    Audiences = {"things"}
    Methods = {"get"}
    Profiles = {"local", "staging"}
    Profile = "staging"
    Flags = {TRUE, FALSE}
    MaxModules = 1
    MaxMethods = 1
    None = None
    Blank = Blank
    Ids = {1, 2, 3}
SYMMETRY ArraySymmetry
INVARIANTS
    TypeOK
    AsksWithinPublishedCeiling
    AsksArePublished
    IssuesAskTheirKey
    RenderedContractsResolve
PROPERTY
    PublishedContractIsFixed
