SPECIFICATION Spec
CONSTANTS
    Paths <- MCPaths
    ToolNames = {"t"}
    Derivable <- MCDerivable
    Declarable <- MCDeclarable
    Surfaces <- MCSurfaces
    Consumable <- MCConsumable
    Environments <- MCEnvironments
    Methods = {"get", "post", "options"}
    Decoded <- MCDecoded
    Loopback = {"localhost"}
    MaxOperations = 2
    MaxModules = 2
INVARIANTS
    TypeOK
    CheckedRowIsRun
    RefusalsComeInOrder
    MCPRouteNeverPanics
    ListensWhereResolved
    ConnectionsAreKnown
    ToolsNameOneRead
