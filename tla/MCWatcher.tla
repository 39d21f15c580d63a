--------------------------- MODULE MCWatcher ----------------------------
(* Small instances of Watcher; the texts are those of MCApply. *)
EXTENDS Watcher, TLC

CONSTANTS a, b, x, xc, cut

MCToCrlf == [t \in Texts |-> xc]

PlainToCrlf == [t \in Texts |-> t]

=============================================================================
