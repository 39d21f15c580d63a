--------------------------------- MODULE Calls ---------------------------------
(***************************************************************************)
(* What whoever waits for an answer is promised, over threads, pipes and   *)
(* connections alike: a call that is open gets the answer to it at most    *)
(* once, or is given up; an answer never comes when nobody waits, is never *)
(* an answer to something else, and does not change afterwards.            *)
(***************************************************************************)
CONSTANT Callers

VARIABLES
    open,   \* caller -> it waits
    got     \* caller -> what its last call returned

vars == <<open, got>>

Nothing == "nothing"
Answer  == "answer"

Init ==
    /\ open = [c \in Callers |-> FALSE]
    /\ got = [c \in Callers |-> Nothing]

\* A call may fail at once.
Ask(c) ==
    /\ ~open[c]
    /\ \E waits \in BOOLEAN : open' = [open EXCEPT ![c] = waits]
    /\ got' = [got EXCEPT ![c] = Nothing]

\* The caller may still have to tidy up before it goes on.
Get(c) ==
    /\ open[c]
    /\ got[c] = Nothing
    /\ got' = [got EXCEPT ![c] = Answer]
    /\ \E waits \in BOOLEAN : open' = [open EXCEPT ![c] = waits]

Leave(c) ==
    /\ open[c]
    /\ open' = [open EXCEPT ![c] = FALSE]
    /\ UNCHANGED got

Next == \E c \in Callers : Ask(c) \/ Get(c) \/ Leave(c)

Spec == Init /\ [][Next]_vars

=============================================================================
