------------------------------- MODULE Powers -------------------------------
(***************************************************************************)
(* What a shift multiplies by or divides by: b to the power n, as the      *)
(* repeated multiplication that proofs can unfold.                         *)
(***************************************************************************)
EXTENDS Integers

Power(b) == LET p[n \in Nat] == IF n = 0 THEN 1 ELSE b * p[n - 1] IN p
=============================================================================
