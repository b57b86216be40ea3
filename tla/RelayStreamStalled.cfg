SPECIFICATION StalledSpec
CONSTANT Window = 2
PROPERTY
    DurationBoundsTheStream
