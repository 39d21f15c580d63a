---------------------------- MODULE MCApply -----------------------------
(* Small instances of Apply.  Text x has LF line endings and xc is x with *)
(* CRLF endings; cut is what an interrupted write leaves.                  *)
EXTENDS Apply, TLC

CONSTANTS a, b, x, xc, cut

MCToCrlf == [t \in Texts |-> xc]

PlainToCrlf == [t \in Texts |-> t]

=============================================================================
