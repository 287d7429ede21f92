SPECIFICATION StructuresSpec
CONSTANTS
    Threads = {t1, t2}
    BitsPerContainer = 2
    Size = 5
    TileSizePx = 2
    MaxIndex = 4
    MaxRanges = 3
    MaxVisited = 2
    MaxPx = 5
    MaxColumns = 2
    MaxRows = 4
SYMMETRY Symmetry
INVARIANTS
    TypeOK
    ResetIsComplete
    SimplifiedRangesCountEachTileOnce
    RemainingAreTheUnpainted
    ClippingKeepsTheView
    InvalidationCoversRect
    ViewIsScheduled
PROPERTIES
    OnlyCoveredBitsChange
