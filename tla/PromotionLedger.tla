-------------------------- MODULE PromotionLedger --------------------------
(***************************************************************************)
(* What promotion promises of the main branch, whoever promotes, however   *)
(* often an attempt is repeated and wherever it dies: main only grows; a   *)
(* bundle (a candidate, with or without its GitOps commit) is promoted at  *)
(* most once; a promotion adds the candidate's own edits to what main has, *)
(* and only to code files that main has not touched since the candidate    *)
(* left it; a revert takes one promotion's edits out again.                *)
(*                                                                         *)
(* The content of a file is the set of edits it holds.                     *)
(***************************************************************************)
EXTENDS Naturals, Sequences

CONSTANTS Cands, Paths, EnvPath, None

VARIABLES main,   \* the commits of origin/main, oldest first
          cand    \* the candidate commits: where each left main, what it edits

Root == [kind |-> "other", cand |-> None, gitops |-> FALSE, tree |-> [p \in Paths |-> {}]]

Init == main = <<Root>> /\ cand = [c \in Cands |-> [base |-> 0, paths |-> {}]]

Tip == main[Len(main)].tree

Adds(c, edited) == [p \in Paths |-> IF p \in edited THEN Tip[p] \cup {c} ELSE Tip[p]]

Commit(kind, c, gitops, tree) ==
    /\ main' = Append(main, [kind |-> kind, cand |-> c, gitops |-> gitops, tree |-> tree])
    /\ UNCHANGED cand

Author(c) ==
    /\ cand[c].base = 0
    /\ \E b \in 1..Len(main), edited \in SUBSET Paths \ {{}} :
          cand' = [cand EXCEPT ![c] = [base |-> b, paths |-> edited]]
    /\ UNCHANGED main

\* Work that reaches main some other way, a merge of a candidate included.
Elsewhere ==
    /\ Len(main') = Len(main) + 1
    /\ \A i \in 1..Len(main) : main'[i] = main[i]
    /\ main'[Len(main')].kind \in {"other", "merge"}
    /\ \A p \in Paths : Tip[p] \subseteq main'[Len(main')].tree[p]
    /\ UNCHANGED cand

Promote(c, gitops) ==
    /\ \A i \in 1..Len(main) :
          ~(main[i].kind = "promote" /\ main[i].cand = c /\ main[i].gitops = gitops)
    /\ EnvPath \notin cand[c].paths
    /\ \A p \in cand[c].paths : Tip[p] = main[cand[c].base].tree[p]
    /\ Commit("promote", c, gitops,
              Adds(c, cand[c].paths \cup (IF gitops THEN {EnvPath} ELSE {})))

Revert(i) ==
    /\ main[i].kind = "promote"
    /\ \E p \in Paths : main[i].cand \in Tip[p]
    /\ \E without \in SUBSET Paths :
          Commit("revert", main[i].cand, main[i].gitops,
                 [p \in Paths |-> IF p \in without THEN Tip[p] \ {main[i].cand} ELSE Tip[p]])

Next ==
    \/ \E c \in Cands : Author(c)
    \/ Elsewhere
    \/ \E c \in Cands, gitops \in BOOLEAN : Promote(c, gitops)
    \/ \E i \in 1..Len(main) : Revert(i)

Spec == Init /\ [][Next]_<<main, cand>>
=============================================================================
