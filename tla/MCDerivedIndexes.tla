------------------------ MODULE MCDerivedIndexes ------------------------
(* Small instance of DerivedIndexes: two texts that share one of their two *)
(* tokens, one needle that is a part of both tokens and one of one token.  *)
EXTENDS DerivedIndexes, TLC

CONSTANTS f1, f2, t1, t2, h1, h2, heuristic, treesitter,
          parse, parser_tok, pars, parser_needle

MCHashOf == (t1 :> h1) @@ (t2 :> h2)

MCTokensOf == (t1 :> {parse, parser_tok}) @@ (t2 :> {parse})

MCHostsOf == (pars :> {parse, parser_tok}) @@ (parser_needle :> {parser_tok})

\* The files are interchangeable: no constant mentions one of them.
FileSymmetry == Permutations(Files)

=============================================================================
