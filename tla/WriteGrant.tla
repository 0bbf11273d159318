----------------------------- MODULE WriteGrant -----------------------------
(***************************************************************************)
(* What Write-Scope Authority promises an operator about a grant, without  *)
(* processes, files, receipts or crashes: a grant is minted once, reserved *)
(* by one run at a time, given back when that run fails without having     *)
(* used it, and ends for good (used up, revoked, expired).  Two grants on  *)
(* one target are never reserved together.                                 *)
(***************************************************************************)
CONSTANTS Approvals, Targets, Target

VARIABLE grant

GrantStates == {"none", "available", "reserved", "ended"}

GrantInit == grant = [a \in Approvals |-> "none"]

Set(a, s) == grant' = [grant EXCEPT ![a] = s]

Mint(a) == grant[a] = "none" /\ Set(a, "available")

Reserve(a) ==
    /\ grant[a] = "available"
    /\ \A c \in Approvals : Target[c] = Target[a] => grant[c] # "reserved"
    /\ Set(a, "reserved")

Release(a) == grant[a] = "reserved" /\ Set(a, "available")

End(a) == grant[a] \in {"available", "reserved"} /\ Set(a, "ended")

GrantNext ==
    \E a \in Approvals : Mint(a) \/ Reserve(a) \/ Release(a) \/ End(a)

GrantSpec == GrantInit /\ [][GrantNext]_grant
=============================================================================
