SPECIFICATION Spec
CONSTANTS
    Workers = {w1, w2}
    PoolSize = 2
    large = large
    wide = wide
    small = small
    Layouts = {large, wide, small}
    Columns <- MCColumns
    TileTotal <- MCTileTotal
    Scale <- MCScale
    MaxVersion = 1
    MaxResizes = 1
    MaxPaints = 1
    NoTile = NoTile
    NoContext = 0
    Blank = Blank
SYMMETRY Symmetry
INVARIANTS
    SetIsInBounds
