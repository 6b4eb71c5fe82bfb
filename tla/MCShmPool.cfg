SPECIFICATION Spec
CONSTANTS
    Base = 2
    PoolSize = 6
    NumVrings = 2
    Sizes <- MCSizes
    FixedDa <- MCFixedDa
    ANY = ANY
INVARIANTS
    RegionsSeparate
    TableTellsThePlace
PROPERTIES
    RestoredInPlace
