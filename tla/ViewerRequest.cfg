SPECIFICATION FairSpec
CONSTANT HandlerStatuses = {302, 404, 409, 410, 422, 429, 499, 500, 501, 503, 504}
INVARIANTS
    TypeOK
    RefusalsAndOutagesAreToldApart
    RefusalsReachTheCaller
    OnlyAuthorsCallsNameAddresses
    NothingRunsUnchecked
PROPERTIES
    RelayedCallsEnd
