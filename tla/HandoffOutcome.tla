--------------------------- MODULE HandoffOutcome ---------------------------
(***************************************************************************)
(* What handoffs promise: a handoff is taken at most once, has at most one *)
(* outcome, and at most one published bundle, which states that outcome.   *)
(***************************************************************************)
CONSTANTS Handoffs, Outcomes

VARIABLES phase, outcome, published

vars == <<phase, outcome, published>>
Nothing == "none"

Init ==
    /\ phase = [h \in Handoffs |-> "open"]
    /\ outcome = [h \in Handoffs |-> Nothing]
    /\ published = [h \in Handoffs |-> Nothing]

Take(h) ==
    /\ phase[h] = "open"
    /\ phase' = [phase EXCEPT ![h] = "taken"]
    /\ UNCHANGED <<outcome, published>>

Record(h, o) ==
    /\ phase[h] = "taken"
    /\ phase' = [phase EXCEPT ![h] = "recorded"]
    /\ outcome' = [outcome EXCEPT ![h] = o]
    /\ UNCHANGED published

Publish(h) ==
    /\ phase[h] = "recorded" /\ published[h] = Nothing
    /\ published' = [published EXCEPT ![h] = outcome[h]]
    /\ UNCHANGED <<phase, outcome>>

Next == \E h \in Handoffs : Take(h) \/ Publish(h) \/ \E o \in Outcomes : Record(h, o)

Spec == Init /\ [][Next]_vars
=============================================================================
