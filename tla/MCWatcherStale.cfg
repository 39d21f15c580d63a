CONSTANTS
    a = a
    b = b
    x = x
    xc = xc
    cut = cut
    Absent = Absent
    Binary = Binary
    Untouched = Untouched
    Files = {a, b}
    Texts = {x, cut}
    Broken = {}
    CrlfDominant = {}
    ToCrlf <- PlainToCrlf
    Truncated = cut
    Ignored = {}
    Recreates = FALSE
    MaxEdits = 1
    MaxUndoBatches = 1
    MaxUndoRequest = 1
    MaxCalls = 2
    MaxExternal = 0
    MaxFaults = 0
SPECIFICATION WatchSpec
INVARIANTS WrittenStaysFresh
CHECK_DEADLOCK FALSE
