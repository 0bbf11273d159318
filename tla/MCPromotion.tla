---------------------------- MODULE MCPromotion ----------------------------
(***************************************************************************)
(* Two invocations on one host and one on another, one candidate, one code *)
(* file and the environment file.                                          *)
(***************************************************************************)
EXTENDS Promotion, TLC

CONSTANTS p1, p2, p3, h1, h2, code, env, c1

TwoOnOne == [p \in {p1, p2, p3} |-> IF p = p3 THEN h2 ELSE h1]
Same == Permutations({p1, p2})
=============================================================================
