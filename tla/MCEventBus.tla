----------------------------- MODULE MCEventBus -----------------------------
(* The event bus on a small instance: the shortest backoff and two          *)
(* attempts, so that a handler can fail, be retried and use its attempts up.*)
EXTENDS EventBus, TLC

MCBackoff == [n \in 1 .. MAX_ATTEMPTS |-> 1]
MCSymmetry == Permutations(Sweepers)
=============================================================================
