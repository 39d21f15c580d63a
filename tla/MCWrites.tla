------------------------------ MODULE MCWrites ------------------------------
(* Apply at two sizes in one run: a few calls of several edits beside other *)
(* programs, and a long sequence of small calls against the undo history.   *)
EXTENDS MCApply

VARIABLE size

WritesInit ==
    /\ Init
    /\ \/ size = "broad" /\ disk[a] # xc
       \/ size = "long" /\ \A f \in Files : disk[f] # Binary

WritesNext ==
    /\ Next
    /\ size = "broad" => calls' <= 2 /\ left' <= 2
    /\ size = "long" => edits' <= 1 /\ external' = 0 /\ ~dry_run'
    /\ UNCHANGED size

WritesSpec == WritesInit /\ [][WritesNext]_<<vars, size>>

=============================================================================
