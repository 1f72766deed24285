------------------------ MODULE MCPolicyPublication ------------------------
(* Publication on a small instance: the shortest waits and two attempts, so *)
(* that a job can fail, wait, be retried, use its attempts up and be retried*)
(* by hand once more.                                                       *)
EXTENDS PolicyPublication, TLC

MCBackoff  == [n \in 1 .. MAX_ATTEMPTS |-> 1]
MCSymmetry == Permutations(Workers)
=============================================================================
