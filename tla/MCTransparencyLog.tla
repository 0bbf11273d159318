-------------------------- MODULE MCTransparencyLog --------------------------
(***************************************************************************)
(* Small instances of the transparency log.  Trees of every size up to the *)
(* number of bodies occur, with a receipt for every leaf of each.          *)
(***************************************************************************)
EXTENDS TransparencyLog, TLC

CONSTANTS p1, p2, b1, b2, b3, b4, b5, b6, b7

TwoProcesses == {p1, p2}
SevenBodies == {b1, b2, b3, b4, b5, b6, b7}
BodySymmetry == Permutations(SevenBodies)
=============================================================================
