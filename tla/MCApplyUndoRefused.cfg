CONSTANTS
    a = a
    b = b
    x = x
    xc = xc
    cut = cut
    Absent = Absent
    Binary = Binary
    Untouched = Untouched
    Files = {a, b}
    Texts = {x, cut}
    Broken = {}
    CrlfDominant = {}
    ToCrlf <- PlainToCrlf
    Truncated = cut
    Ignored = {}
    Recreates = FALSE
    MaxEdits = 1
    MaxUndoBatches = 2
    MaxUndoRequest = 2
    MaxCalls = 3
    MaxExternal = 1
    MaxFaults = 0
SPECIFICATION Spec
INVARIANTS UndoRefusedIsIntact
CHECK_DEADLOCK FALSE
