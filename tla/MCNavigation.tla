---------------------------- MODULE MCNavigation ----------------------------
EXTENDS Navigation, TLC

CONSTANTS n1, n2, n3

\* A name in small letters, which a search finds in the others as well.
MCNames == {n1, n2, n3}
MCAlike == [n \in MCNames |-> IF n = n1 THEN MCNames ELSE {n}]

\* A package with a file of its own, and a file that belongs to the repository.
MCFiles        == {"p/x", "y"}
MCPackageFiles == [f \in MCFiles |-> IF f = "p/x" THEN {"p/x"} ELSE MCFiles]

Symmetry == Permutations({n2, n3})

=============================================================================
