SPECIFICATION Spec
CONSTANTS
    Workers = {w1, w2}
    PoolSize = 2
    large = large
    wide = wide
    small = small
    Layouts = {large}
    Columns <- MCColumns
    TileTotal <- MCTileTotal
    Scale <- MCScale
    MaxVersion = 1
    MaxResizes = 0
    MaxPaints = 2
    NoTile = NoTile
    NoContext = 0
    Blank = Blank
SYMMETRY Symmetry
INVARIANTS
    CheckAfterRasterizationSuffices
