SPECIFICATION ReadingSpec
CONSTANT Window = 2
INVARIANTS
    TypeOK
    CompleteMeansEverything
    CutsAreToldAsSuch
PROPERTIES
    SilentStreamsAreCut
    EndedContextsEndTheStream
