SPECIFICATION Spec
CONSTANT Window = 2
INVARIANT
    AnsweredStreamsAreNotCutAsSilent
