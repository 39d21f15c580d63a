CONSTANTS
    Originals <- MCOriginals
    Bodies <- MCBodies
    Ctx = 1
    MaxEdits = 2
    Pieces <- MCPieces
    MaxPieces = 3
    Tokens <- MCTokens
    MaxTokens <- MCMaxTokens
    Samples <- MCSamples
    MinRun = 2
    MaxOperands = 3
    n1 = n1
    n2 = n2
    n3 = n3
    Files <- MCFiles
    Names <- MCNames
    PackageFiles <- MCPackageFiles
    Alike <- MCAlike
    Lines = {1, 2}
    MaxHits = 1
    MaxDepth = 2
    MaxSymbols = 3
    MaxMentions = 1
SPECIFICATION TextSpec
SYMMETRY Symmetry
INVARIANTS
    WellWritten NothingOrphaned
    OnlyCodeRenamed ScannersAgree CallsAreCalls GateCountsCode
    PruneIsSound SelectionIsExact SearchIsExact AnchoredOnce ReadingIsExact
    ReachIsExact GuardsProtect
PROPERTIES KeepsNeighbours DiffIsTheChange
CHECK_DEADLOCK FALSE
