CONSTANTS
    a = a
    b = b
    x = x
    xc = xc
    cut = cut
    Absent = Absent
    Binary = Binary
    Untouched = Untouched
    Files = {a, b}
    Texts = {x, cut}
    Broken = {}
    CrlfDominant = {}
    ToCrlf <- PlainToCrlf
    Truncated = cut
    Ignored = {b}
    Recreates = FALSE
    MaxEdits = 2
    MaxUndoBatches = 2
    MaxUndoRequest = 2
    MaxCalls = 2
    MaxExternal = 0
    MaxFaults = 0
SPECIFICATION Spec
INVARIANTS UndoIsExact
CHECK_DEADLOCK FALSE
