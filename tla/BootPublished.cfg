SPECIFICATION Spec
CONSTANTS
    Paths <- MCPaths
    ToolNames = {"t"}
    Derivable <- MCDerivable
    Declarable <- MCDeclarable
    Surfaces <- MCSurfaces
    Consumable <- MCConsumable
    Environments <- MCEnvironment
    Methods = {"get", "post", "options"}
    Decoded <- MCDecoded
    Loopback = {"localhost"}
    MaxOperations = 2
    MaxModules = 2
INVARIANT PublishedRoutesAreServed
