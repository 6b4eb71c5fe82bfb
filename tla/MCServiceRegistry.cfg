SPECIFICATION RegistrySpec
CONSTANTS
    Client = {"c1"}
    Ept <- MCEpt
    OwnerOf <- MCOwnerOf
    KindOf <- MCKindOf
    Kinds <- MCKinds
    MaxEpts = 2
INVARIANTS
    TableComplete
    BoundOnce
    NotStranded
    Restored
