SPECIFICATION Spec
CONSTANTS
    Clients = {c1, c2}
    Plugins = {p1, p2}
    None = None
    Empty = Empty
    PageTypes = {"text"}
    LokTypes = {"invalidate", "state"}
    MaxInputs = 3
SYMMETRY Symmetry
INVARIANTS
    TypeOK
    ShownClientsAreMounted
    ShownClientsAreLive
    ObserversAreLive
    RegisteredTypesAreObserved
    TileBuffersHaveOneOwner
    TilesAreOfTheDocument
    HeldChangesAreReportedOnce
CHECK_DEADLOCK FALSE
