----------------------------- MODULE MCCampaign -----------------------------
(***************************************************************************)
(* A campaign of two slices.                                               *)
(***************************************************************************)
EXTENDS Campaign, TLC

CONSTANTS h1, h2, p1, p2

TwoSlices == <<h1, h2>>
OneSlice == <<h1>>

Same == Permutations(Procs)
=============================================================================
