CONSTANTS
    a = a
    b = b
    x = x
    xc = xc
    cut = cut
    Absent = Absent
    Binary = Binary
    Untouched = Untouched
    Files = {a, b}
    Texts = {x, xc}
    Broken = {}
    CrlfDominant = {xc}
    ToCrlf <- MCToCrlf
    Truncated = xc
    Ignored = {b}
    Recreates = FALSE
    MaxEdits = 2
    MaxUndoBatches = 2
    MaxUndoRequest = 3
    MaxCalls = 4
    MaxExternal = 1
    MaxFaults = 1
SPECIFICATION WritesSpec
INVARIANTS TypeOK ReadAfterWrite RollbackRestores RefusedTouchesNothing CommitIsUndoable UndoRestores
CHECK_DEADLOCK FALSE
