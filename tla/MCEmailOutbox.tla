--------------------------- MODULE MCEmailOutbox ---------------------------
(* The outbox on a small instance: a backoff of one unit, and rows whose   *)
(* order by id is the order they are asked for.                            *)
EXTENDS EmailOutbox, TLC

MCBackoff == [n \in 1 .. MAX_ATTEMPTS |-> 1]
MCSymmetry == Permutations(Workers)
=============================================================================
