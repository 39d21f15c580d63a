CONSTANTS
    f1 = f1
    f2 = f2
    t1 = t1
    t2 = t2
    h1 = h1
    h2 = h2
    heuristic = heuristic
    treesitter = treesitter
    parse = parse
    parser_tok = parser_tok
    pars = pars
    parser_needle = parser_needle
    Files = {f1, f2}
    Texts = {t1, t2}
    Hashes = {h1, h2}
    HashOf <- MCHashOf
    Parsers = {heuristic, treesitter}
    Heuristic = heuristic
    Absent = Absent
    MaxRevision = 3
    Tokens = {parse, parser_tok}
    TokensOf <- MCTokensOf
    Needles = {pars, parser_needle}
    HostsOf <- MCHostsOf
SPECIFICATION IndexSpec
SYMMETRY FileSymmetry
INVARIANTS
    IndexTypeOK
    MemoSound TokenIndexFresh SemanticIndexFresh
PROPERTIES
    FreshSpec
    KeepsValidMemos
    FullRecall
