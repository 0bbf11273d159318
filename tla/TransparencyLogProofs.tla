------------------------ MODULE TransparencyLogProofs ------------------------
(***************************************************************************)
(* The transparency log: types and the key pair for every interleaving;    *)
(* the numbering of the leaves and the consistency of checkpoints when no  *)
(* append steps into another one; what the hash tree computes, for trees   *)
(* of every size; and from these what a receipt proves.                    *)
(***************************************************************************)
EXTENDS TransparencyLog, Integers, WellFoundedInduction, TLAPS

-----------------------------------------------------------------------------
(* Types *)

\* A process that appends numbers its leaf by the rows it read, and the file
\* has at least as many by now.
Numbered(p) ==
    proc[p].pc = "append" =>
      proc[p].index = Len(proc[p].rows) /\ Len(proc[p].rows) <= Len(log)

TypeInv == TypeOK /\ \A p \in Processes : Numbered(p)

\* What a step does to the process that takes it, and nothing else to the others.
LEMMA BecomeOK ==
    ASSUME TypeOK, NEW p \in Processes, NEW step \in Steps \cup Appends, Become(p, step)
    PROVE  /\ proc' \in [Processes -> Steps \cup Appends]
           /\ proc'[p] = step
           /\ \A q \in Processes \ {p} : proc'[q] = proc[q]
  BY DEF TypeOK, Become

LEMMA StepsAreTyped ==
    /\ Idle \in Steps
    /\ \A l \in {"pub", "priv", "meta"} : [pc |-> l] \in Steps
  BY DEF Idle, Steps

\* What AppendLeaf leaves behind in the file and in the process.
LEMMA AppendOK ==
    ASSUME TypeInv, NEW p \in Processes, AppendLeaf(p)
    PROVE  LET leaf == [index |-> proc[p].index, body |-> proc[p].body] IN
           /\ leaf \in Leaves
           /\ proc[p] \in Appends
           /\ log' = Append(log, leaf)
           /\ proc' \in [Processes -> Steps \cup Appends]
           /\ proc'[p].pc = "done" /\ proc'[p].index = proc[p].index
           /\ proc'[p].rows = Append(proc[p].rows, leaf) /\ proc'[p].body = proc[p].body
           /\ \A q \in Processes \ {p} : proc'[q] = proc[q]
<1> DEFINE leaf == [index |-> proc[p].index, body |-> proc[p].body]
           after == [pc |-> "done", body |-> proc[p].body,
                     rows |-> Append(proc[p].rows, leaf), index |-> proc[p].index]
<1>1. proc[p] \in Appends
  BY DEF TypeInv, TypeOK, Steps, AppendLeaf
<1>2. leaf \in Leaves
  BY <1>1 DEF Appends, Leaves
<1>3. Append(proc[p].rows, leaf) \in Seq(Leaves)
  BY <1>1, <1>2 DEF Appends
<1>4. after \in Appends
  BY <1>1, <1>3 DEF Appends
<1> QED
  BY <1>1, <1>2, <1>4, BecomeOK DEF AppendLeaf, TypeInv

\* A record stored in the file is found under the index it was given.
LEMMA ExistingOK ==
    ASSUME TypeOK, NEW b \in Bodies, NEW i \in Existing(log, b)
    PROVE  i \in Nat /\ i < Len(log)
<1>1. PICK j \in DOMAIN log : i = log[j].index
  BY DEF Existing
<1>2. log \in Seq(Leaves) /\ log[j].index < j
  BY DEF TypeOK
<1>3. log[j] \in Leaves /\ j \in 1..Len(log) /\ Len(log) \in Nat
  BY <1>1, <1>2
<1> QED BY <1>1, <1>2, <1>3 DEF Leaves

\* What ReadLeaves leaves behind.
LEMMA ReadOK ==
    ASSUME TypeInv, NEW p \in Processes, NEW b \in Bodies, ReadLeaves(p, b)
    PROVE  /\ proc' \in [Processes -> Steps \cup Appends]
           /\ \A q \in Processes \ {p} : proc'[q] = proc[q]
           /\ proc'[p].pc \in {"append", "done"}
           /\ proc'[p].rows = log /\ proc'[p].body = b
           /\ proc'[p].pc = "append" => Existing(log, b) = {} /\ proc'[p].index = Len(log)
           /\ proc'[p].pc = "done" => proc'[p].index < Len(log)
           /\ proc'[p].pc = "done" => proc'[p].index \in Existing(log, b)
<1>1. log \in Seq(Leaves) /\ Len(log) \in Nat /\ TypeOK
  BY DEF TypeInv, TypeOK
<1>2. CASE /\ Existing(log, b) = {}
           /\ Become(p, [pc |-> "append", body |-> b, rows |-> log, index |-> Len(log)])
  <2>1. [pc |-> "append", body |-> b, rows |-> log, index |-> Len(log)] \in Appends
    BY <1>1 DEF Appends
  <2> QED BY <1>1, <1>2, <2>1, BecomeOK
<1>3. CASE \E i \in Existing(log, b) :
             Become(p, [pc |-> "done", body |-> b, rows |-> log, index |-> i])
  <2>1. PICK i \in Existing(log, b) :
               Become(p, [pc |-> "done", body |-> b, rows |-> log, index |-> i])
    BY <1>3
  <2>2. i \in Nat /\ i < Len(log)
    BY <1>1, ExistingOK
  <2>3. [pc |-> "done", body |-> b, rows |-> log, index |-> i] \in Appends
    BY <1>1, <2>2 DEF Appends
  <2> QED BY <1>1, <2>1, <2>2, <2>3, BecomeOK
<1> QED BY <1>2, <1>3 DEF ReadLeaves

\* The steps of tlog-init and the end of a process touch no leaf and start no
\* append.
LEMMA QuietStep ==
    ASSUME TypeOK, NEW p \in Processes,
           InitBegin(p) \/ WritePub(p) \/ WritePriv(p) \/ WriteMeta(p) \/ End(p)
    PROVE  /\ log' = log
           /\ pub' \in Processes \cup {None} /\ priv' \in Processes \cup {None}
           /\ meta' \in BOOLEAN
           /\ proc' \in [Processes -> Steps \cup Appends]
           /\ proc'[p] \in Steps
           /\ \A q \in Processes \ {p} : proc'[q] = proc[q]
<1>1. log' = log /\ \E step \in Steps : Become(p, step)
  BY StepsAreTyped DEF InitBegin, WritePub, WritePriv, WriteMeta, End
<1>2. pub' \in Processes \cup {None} /\ priv' \in Processes \cup {None} /\ meta' \in BOOLEAN
  BY DEF TypeOK, InitBegin, WritePub, WritePriv, WriteMeta, End
<1> QED BY <1>1, <1>2, BecomeOK

LEMMA TypeInvInit == Init => TypeInv
<1> SUFFICES ASSUME Init PROVE TypeInv
  OBVIOUS
<1>1. proc \in [Processes -> Steps \cup Appends]
      /\ \A p \in Processes : proc[p].pc = "idle"
  BY StepsAreTyped DEF Init, Idle
<1>2. log \in Seq(Leaves) /\ \A i \in DOMAIN log : log[i].index < i
  BY DEF Init
<1> QED BY <1>1, <1>2 DEF Init, TypeInv, TypeOK, Numbered, Done

LEMMA TypeInvStep == TypeInv /\ [Next]_vars => TypeInv'
<1> SUFFICES ASSUME TypeInv, [Next]_vars PROVE TypeInv'
  OBVIOUS
<1>0. TypeOK
  BY DEF TypeInv
<1>1. ASSUME NEW p \in Processes,
             InitBegin(p) \/ WritePub(p) \/ WritePriv(p) \/ WriteMeta(p) \/ End(p)
      PROVE  TypeInv'
  <2>1. \A q \in Processes : proc'[q].pc \in {"append", "done"} => proc'[q] = proc[q]
    BY <1>0, <1>1, QuietStep DEF Steps
  <2> QED BY <1>0, <1>1, <2>1, QuietStep DEF TypeInv, TypeOK, Numbered, Done
<1>2. ASSUME NEW p \in Processes, NEW b \in Bodies, ReadLeaves(p, b)
      PROVE  TypeInv'
  <2>0. /\ \A q \in Processes \ {p} : proc'[q] = proc[q]
        /\ proc'[p].pc \in {"append", "done"} /\ proc'[p].rows = log
        /\ proc'[p].pc = "append" => proc'[p].index = Len(log)
        /\ proc'[p].pc = "done" => proc'[p].index < Len(log)
    BY <1>2, ReadOK
  <2>1. log' = log /\ pub' = pub /\ priv' = priv /\ meta' = meta
    BY <1>2 DEF ReadLeaves
  <2>2. \A q \in Processes : Numbered(q)'
    <3>1. Len(log) \in Nat
      BY <1>0 DEF TypeOK
    <3> QED BY <2>0, <2>1, <3>1 DEF TypeInv, Numbered
  <2>3. \A q \in Processes : Done(q)' => proc'[q].index < Len(proc'[q].rows)
    BY <1>0, <2>0 DEF TypeOK, Done
  <2> QED BY <1>2, <2>1, <2>2, <2>3, ReadOK DEF TypeInv, TypeOK
<1>3. ASSUME NEW p \in Processes, AppendLeaf(p)
      PROVE  TypeInv'
  <2> DEFINE leaf == [index |-> proc[p].index, body |-> proc[p].body]
  <2>1. pub' = pub /\ priv' = priv /\ meta' = meta /\ proc[p].pc = "append"
    BY <1>3 DEF AppendLeaf
  <2>2. leaf \in Leaves /\ log' = Append(log, leaf) /\ log \in Seq(Leaves)
    BY <1>0, <1>3, AppendOK DEF TypeOK
  <2>3. log' \in Seq(Leaves) /\ Len(log') = Len(log) + 1 /\ Len(log) \in Nat
    BY <2>2
  <2>4. proc[p].index = Len(proc[p].rows) /\ Len(proc[p].rows) <= Len(log)
        /\ proc[p].rows \in Seq(Leaves)
    BY <1>3, <2>1, AppendOK DEF TypeInv, Numbered, Appends
  <2>8. /\ \A q \in Processes \ {p} : proc'[q] = proc[q]
        /\ proc'[p].pc = "done" /\ proc'[p].index = proc[p].index
        /\ proc'[p].rows = Append(proc[p].rows, leaf)
    BY <1>3, AppendOK
  <2>5. \A i \in DOMAIN log' : log'[i].index < i
    <3> SUFFICES ASSUME NEW i \in DOMAIN log' PROVE log'[i].index < i
      OBVIOUS
    <3>1. CASE i \in DOMAIN log
      BY <1>0, <2>2, <3>1 DEF TypeOK
    <3>2. CASE i = Len(log) + 1
      BY <2>2, <2>3, <2>4, <3>2
    <3> QED BY <2>2, <2>3, <3>1, <3>2
  <2>6. \A q \in Processes : Numbered(q)'
    <3> SUFFICES ASSUME NEW q \in Processes \ {p} PROVE Numbered(q)'
      BY <2>8 DEF Numbered
    <3>1. CASE proc[q].pc = "append"
      <4>1. Len(proc[q].rows) \in Nat
        BY <1>0, <3>1 DEF TypeOK, Steps, Appends
      <4> QED BY <2>3, <2>8, <4>1 DEF TypeInv, Numbered
    <3>2. CASE proc[q].pc # "append"
      BY <2>8, <3>2 DEF Numbered
    <3> QED BY <3>1, <3>2
  <2>7. \A q \in Processes : Done(q)' => proc'[q].index < Len(proc'[q].rows)
    <3>1. Len(Append(proc[p].rows, leaf)) = Len(proc[p].rows) + 1
          /\ Len(proc[p].rows) \in Nat
      BY <2>2, <2>4
    <3> QED BY <1>0, <2>4, <2>8, <3>1 DEF TypeOK, Done
  <2> QED BY <1>0, <1>3, <2>1, <2>3, <2>5, <2>6, <2>7, AppendOK DEF TypeInv, TypeOK
<1>4. CASE UNCHANGED vars
  BY <1>4 DEF vars, TypeInv, TypeOK, Numbered, Done
<1> QED BY <1>1, <1>2, <1>3, <1>4 DEF Next, Step

LEMMA TypeInvHolds == Spec => []TypeInv
  BY TypeInvInit, TypeInvStep, PTL DEF Spec

\* The files and the processes of the log keep their types, whatever overlaps,
\* and a stored index always finds a leaf.
THEOREM LogTypeCorrect == Spec => []TypeOK
<1>1. TypeInv => TypeOK
  BY DEF TypeInv
<1> QED BY <1>1, TypeInvHolds, PTL

-----------------------------------------------------------------------------
(* The key pair *)

\* Whoever is about to write the private key wrote the public one.
KeyInv ==
    /\ KeyPairMatches
    /\ \A p \in Processes : proc[p].pc = "priv" => pub = p /\ priv = None

LEMMA KeyInvStep == TypeInv /\ KeyInv /\ [Next]_vars => KeyInv'
<1> SUFFICES ASSUME TypeInv, KeyInv, [Next]_vars PROVE KeyInv'
  OBVIOUS
<1>0. TypeOK /\ None \notin Processes
  BY NoneIsNoProcess DEF TypeInv
<1>1. ASSUME NEW p \in Processes, InitBegin(p) \/ WriteMeta(p) \/ End(p)
      PROVE  KeyInv'
  <2>1. pub' = pub /\ priv' = priv /\ proc'[p].pc # "priv"
        /\ \A q \in Processes \ {p} : proc'[q] = proc[q]
    BY <1>0, <1>1 DEF InitBegin, WriteMeta, End, Become, Idle, TypeOK
  <2> QED BY <2>1 DEF KeyInv, KeyPairMatches
<1>2. ASSUME NEW p \in Processes, WritePub(p)
      PROVE  KeyInv'
  <2>1. priv' = priv /\ \A q \in Processes \ {p} : proc'[q] = proc[q]
    BY <1>0, <1>2 DEF WritePub, Become, TypeOK
  <2>2. CASE pub = None
    BY <1>0, <1>2, <2>1, <2>2 DEF WritePub, Become, TypeOK, KeyInv, KeyPairMatches
  <2>3. CASE pub # None
    <3>1. pub' = pub /\ proc'[p].pc # "priv"
      BY <1>0, <1>2, <2>3 DEF WritePub, Become, Idle, TypeOK
    <3> QED BY <2>1, <3>1 DEF KeyInv, KeyPairMatches
  <2> QED BY <2>2, <2>3
<1>3. ASSUME NEW p \in Processes, WritePriv(p)
      PROVE  KeyInv'
  <2>1. pub = p /\ priv = None
    BY <1>3 DEF WritePriv, KeyInv
  <2>2. pub' = p /\ priv' = p /\ proc'[p].pc # "priv"
        /\ \A q \in Processes \ {p} : proc'[q] = proc[q]
    BY <1>0, <1>3, <2>1 DEF WritePriv, Become, TypeOK
  <2> QED BY <2>1, <2>2 DEF KeyInv, KeyPairMatches
<1>4. ASSUME NEW p \in Processes, NEW b \in Bodies, ReadLeaves(p, b)
      PROVE  KeyInv'
  <2>1. pub' = pub /\ priv' = priv /\ proc'[p].pc # "priv"
        /\ \A q \in Processes \ {p} : proc'[q] = proc[q]
    <3>1. proc'[p].pc # "priv" /\ \A q \in Processes \ {p} : proc'[q] = proc[q]
      BY <1>4, ReadOK
    <3> QED BY <1>4, <3>1 DEF ReadLeaves
  <2> QED BY <2>1 DEF KeyInv, KeyPairMatches
<1>5. ASSUME NEW p \in Processes, AppendLeaf(p)
      PROVE  KeyInv'
  <2>1. pub' = pub /\ priv' = priv /\ proc'[p].pc # "priv"
        /\ \A q \in Processes \ {p} : proc'[q] = proc[q]
    BY <1>5, AppendOK DEF AppendLeaf
  <2> QED BY <2>1 DEF KeyInv, KeyPairMatches
<1>6. CASE UNCHANGED vars
  BY <1>6 DEF vars, KeyInv, KeyPairMatches
<1> QED BY <1>1, <1>2, <1>3, <1>4, <1>5, <1>6 DEF Next, Step

\* The O_EXCL files of tlog-init always hold one key pair, for any number of
\* processes that run it at once and are killed anywhere.
THEOREM LogKeyPair == Spec => []KeyPairMatches
<1>1. Init => KeyInv
  BY DEF Init, KeyInv, KeyPairMatches, Idle
<1>2. KeyInv => KeyPairMatches
  BY DEF KeyInv
<1> QED BY <1>1, <1>2, KeyInvStep, TypeInvHolds, PTL DEF Spec

-----------------------------------------------------------------------------
(* Appends that do not step into each other *)

\* The rows that a process holds are the file as far as they go; a process
\* that is about to append holds all of it and brings a new body, and one that
\* returns a receipt has the body at the index it returns.
Fresh(p) ==
    /\ proc[p].pc = "append" =>
         /\ proc[p].rows = log
         /\ \A i \in DOMAIN log : log[i].body # proc[p].body
    /\ proc[p].pc = "done" =>
         /\ Len(proc[p].rows) <= Len(log)
         /\ \A i \in 1..Len(proc[p].rows) : proc[p].rows[i] = log[i]
         /\ proc[p].rows[proc[p].index + 1].body = proc[p].body

SerialInv == IndexIsPosition /\ \A p \in Processes : Fresh(p)

\* No row with the body: none is the first one.
LEMMA NoExisting ==
    ASSUME TypeOK, IndexIsPosition, NEW b \in Bodies, Existing(log, b) = {}
    PROVE  \A i \in DOMAIN log : log[i].body # b
<1> SUFFICES ASSUME NEW i \in DOMAIN log, log[i].body = b PROVE FALSE
  OBVIOUS
<1>1. \A k \in 1..(i - 1) : k \in DOMAIN log /\ k # i
  BY DEF TypeOK
<1>2. log[i].index \in Existing(log, b)
  BY <1>1 DEF Existing, IndexIsPosition
<1> QED BY <1>2

\* The body is found at the index that its row stores.
LEMMA ExistingBody ==
    ASSUME TypeOK, IndexIsPosition, NEW b \in Bodies, NEW i \in Existing(log, b)
    PROVE  log[i + 1].body = b
<1>1. PICK j \in DOMAIN log : i = log[j].index /\ log[j].body = b
  BY DEF Existing
<1>2. i = j - 1 /\ j \in Nat
  BY <1>1 DEF IndexIsPosition, TypeOK
<1> QED BY <1>1, <1>2

LEMMA SerialInvStep ==
    ASSUME Serialised PROVE TypeInv /\ SerialInv /\ [Next]_vars => SerialInv'
<1> SUFFICES ASSUME TypeInv, SerialInv, [Next]_vars PROVE SerialInv'
  OBVIOUS
<1>0. TypeOK /\ IndexIsPosition /\ log \in Seq(Leaves) /\ Len(log) \in Nat
  BY DEF TypeInv, TypeOK, SerialInv
<1>1. ASSUME NEW p \in Processes,
             InitBegin(p) \/ WritePub(p) \/ WritePriv(p) \/ WriteMeta(p) \/ End(p)
      PROVE  SerialInv'
  <2>1. log' = log /\ \A q \in Processes :
          proc'[q].pc \in {"append", "done"} => proc'[q] = proc[q]
    BY <1>0, <1>1, QuietStep DEF Steps
  <2> QED BY <2>1 DEF SerialInv, IndexIsPosition, Fresh
<1>2. ASSUME NEW p \in Processes, NEW b \in Bodies, ReadLeaves(p, b)
      PROVE  SerialInv'
  <2>1. log' = log
    BY <1>2 DEF ReadLeaves
  <2>0. /\ \A q \in Processes \ {p} : proc'[q] = proc[q]
        /\ proc'[p].rows = log /\ proc'[p].body = b
        /\ proc'[p].pc = "append" => Existing(log, b) = {}
        /\ proc'[p].pc = "done" => proc'[p].index \in Existing(log, b)
    BY <1>2, ReadOK
  <2>2. Fresh(p)'
    <3>1. proc'[p].pc = "done" => log[proc'[p].index + 1].body = b
      BY <1>0, <2>0, ExistingBody
    <3> QED BY <1>0, <2>0, <2>1, <3>1, NoExisting DEF Fresh
  <2>3. \A q \in Processes \ {p} : Fresh(q)'
    BY <2>0, <2>1 DEF SerialInv, Fresh
  <2> QED BY <2>1, <2>2, <2>3 DEF SerialInv, IndexIsPosition
<1>3. ASSUME NEW p \in Processes, AppendLeaf(p)
      PROVE  SerialInv'
  <2> DEFINE leaf == [index |-> proc[p].index, body |-> proc[p].body]
  <2>1. leaf \in Leaves /\ log' = Append(log, leaf)
    BY <1>3, AppendOK
  <2>2. /\ DOMAIN log = 1..Len(log) /\ DOMAIN log' = 1..(Len(log) + 1)
        /\ Len(log') = Len(log) + 1
        /\ \A i \in DOMAIN log : log'[i] = log[i]
        /\ log'[Len(log) + 1] = leaf
    BY <1>0, <2>1
  <2>3. proc[p].rows = log /\ proc[p].index = Len(log)
        /\ \A i \in DOMAIN log : log[i].body # proc[p].body
    BY <1>3 DEF AppendLeaf, SerialInv, Fresh, TypeInv, Numbered
  <2>4. IndexIsPosition'
    <3>1. \A i \in DOMAIN log' : log'[i].index = i - 1
      BY <1>0, <2>2, <2>3 DEF IndexIsPosition
    <3>2. \A i, j \in DOMAIN log' : log'[i].body = log'[j].body => i = j
      <4> SUFFICES ASSUME NEW i \in DOMAIN log', NEW j \in DOMAIN log',
                          log'[i].body = log'[j].body
                   PROVE  i = j
        OBVIOUS
      <4>1. CASE i \in DOMAIN log /\ j \in DOMAIN log
        BY <1>0, <2>2, <4>1 DEF IndexIsPosition
      <4>2. CASE i \in DOMAIN log /\ j = Len(log) + 1
        BY <2>2, <2>3, <4>2
      <4>3. CASE i = Len(log) + 1 /\ j \in DOMAIN log
        BY <2>2, <2>3, <4>3
      <4> QED BY <1>0, <2>2, <4>1, <4>2, <4>3
    <3> QED BY <3>1, <3>2 DEF IndexIsPosition
  <2>5. Fresh(p)'
    <3>0. /\ proc'[p].pc = "done" /\ proc'[p].rows = Append(proc[p].rows, leaf)
          /\ proc'[p].index = proc[p].index /\ proc'[p].body = proc[p].body
      BY <1>3, AppendOK
    <3>1. proc'[p].pc = "done" /\ proc'[p].rows = log' /\ proc'[p].index = Len(log)
      BY <2>1, <2>3, <3>0
    <3>2. log'[Len(log) + 1].body = proc'[p].body
      BY <2>2, <3>0
    <3> QED BY <1>0, <2>2, <3>1, <3>2 DEF Fresh
  <2>6. ASSUME NEW q \in Processes \ {p} PROVE Fresh(q)'
    <3>1. proc'[q] = proc[q] /\ proc[q].pc # "append"
      BY <1>3, <2>6, AppendOK DEF AppendLeaf, Free
    <3>2. CASE proc[q].pc = "done"
      <4>1. Fresh(q) /\ Len(proc[q].rows) \in Nat
        BY <1>0, <3>2 DEF SerialInv, TypeOK, Steps, Appends
      <4>2. /\ Len(proc[q].rows) <= Len(log)
            /\ \A i \in 1..Len(proc[q].rows) : proc[q].rows[i] = log[i]
            /\ proc[q].rows[proc[q].index + 1].body = proc[q].body
        BY <3>2, <4>1 DEF Fresh
      <4>3. \A i \in 1..Len(proc[q].rows) : i \in DOMAIN log
        BY <1>0, <2>2, <4>1, <4>2
      <4> QED BY <1>0, <2>2, <3>1, <3>2, <4>1, <4>2, <4>3 DEF Fresh
    <3> QED BY <3>1, <3>2 DEF Fresh
  <2> QED BY <2>4, <2>5, <2>6 DEF SerialInv
<1>4. CASE UNCHANGED vars
  BY <1>4 DEF vars, SerialInv, IndexIsPosition, Fresh
<1> QED BY <1>1, <1>2, <1>3, <1>4 DEF Next, Step

LEMMA SerialInvHolds == ASSUME Serialised PROVE Spec => []SerialInv
<1>1. Init => SerialInv
  BY DEF Init, SerialInv, IndexIsPosition, Fresh, Idle
<1> QED BY <1>1, SerialInvStep, TypeInvHolds, PTL DEF Spec

\* Appends that do not overlap number the leaves by their place in the file
\* and log every body once, for a log of any length.
THEOREM LogIndexIsPosition == ASSUME Serialised PROVE Spec => []IndexIsPosition
<1>1. SerialInv => IndexIsPosition
  BY DEF SerialInv
<1> QED BY <1>1, SerialInvHolds, PTL

\* Every checkpoint that was ever signed stays a checkpoint of the log: later
\* appends extend the tree that a receipt speaks of.
THEOREM LogCheckpointsConsistent ==
    ASSUME Serialised PROVE Spec => []CheckpointsConsistent
<1>1. TypeInv /\ SerialInv => CheckpointsConsistent
  <2> SUFFICES ASSUME TypeInv, SerialInv, NEW p \in Processes, Done(p)
               PROVE  /\ Receipt(p).tree_size <= Len(log)
                      /\ Receipt(p).root =
                           MerkleRoot(Hashes(SubSeq(log, 1, Receipt(p).tree_size)))
    BY DEF CheckpointsConsistent
  <2>1. proc[p].rows \in Seq(Leaves) /\ log \in Seq(Leaves)
    BY DEF TypeInv, TypeOK, Steps, Appends, Done
  <2>2. /\ Len(proc[p].rows) <= Len(log)
        /\ \A i \in 1..Len(proc[p].rows) : proc[p].rows[i] = log[i]
    BY DEF SerialInv, Fresh, Done
  <2>3. SubSeq(log, 1, Len(proc[p].rows)) = proc[p].rows
    BY <2>1, <2>2
  <2>4. Receipt(p).tree_size = Len(proc[p].rows)
        /\ Receipt(p).root = MerkleRoot(Hashes(proc[p].rows))
    BY DEF Receipt, ReceiptOf
  <2> QED BY <2>2, <2>3, <2>4
<1> QED BY <1>1, SerialInvHolds, TypeInvHolds, PTL

-----------------------------------------------------------------------------
(* Induction over the levels of the tree, for the set of the numbers that  *)
(* have a property: sets, unlike operators, can be given to a lemma.       *)

\* A set of numbers has a least one.
LEMMA LeastNatural ==
    ASSUME NEW T, T \subseteq Nat, T # {}
    PROVE  \E x \in T : \A y \in T : x <= y
<1>1. \E R : IsWellFoundedOn(R, Nat) /\ \A x, y \in Nat : y < x => <<y, x>> \in R
  <2>1. \A x, y \in Nat : y < x => <<y, x>> \in OpToRel(<, Nat)
    BY DEF OpToRel
  <2> QED BY <2>1, NatLessThanWellFounded
<1>2. PICK R : IsWellFoundedOn(R, Nat) /\ \A x, y \in Nat : y < x => <<y, x>> \in R
  BY <1>1
<1>3. PICK x \in T : \A y \in T : ~(<<y, x>> \in R)
  BY <1>2, WFMin
<1>4. ASSUME NEW y \in T PROVE x <= y
  <2>1. x \in Nat /\ y \in Nat /\ ~(y < x)
    BY <1>2, <1>3, Zenon
  <2> QED BY <2>1
<1> QED
  BY <1>4

\* A set with zero and every successor of its numbers has all of them.
LEMMA SetInduction ==
    ASSUME NEW S, 0 \in S, \A n \in Nat : n \in S => n + 1 \in S
    PROVE  Nat \subseteq S
<1> SUFFICES ASSUME Nat \ S # {} PROVE FALSE
  OBVIOUS
<1>1. PICK x \in Nat \ S : \A y \in Nat \ S : x <= y
  <2>1. Nat \ S \subseteq Nat
    OBVIOUS
  <2> QED
    BY <2>1, LeastNatural
<1>2. x # 0 /\ x - 1 \in Nat /\ x - 1 \in S
  BY <1>1
<1> QED
  BY <1>1, <1>2

-----------------------------------------------------------------------------
(* The loops of the code: every one has the values its turns compute. *)

\* The levels of the tree.
LEMMA LevelsDef ==
    ASSUME NEW leaves, Len(leaves) \in Nat
    PROVE  Levels(leaves) =
             [k \in 0..Len(leaves) |->
                IF k = 0 THEN leaves
                ELSE Halve(Levels(leaves)[k - 1])]
<1> DEFINE Turn(v, k) ==
             Halve(v)
           Turns(g, m) == g = [k \in 0..m |-> IF k = 0 THEN leaves ELSE Turn(g[k - 1], k)]
           S == {m \in Nat : \E g : Turns(g, m)}
<1> HIDE DEF Turn
<1>1. 0 \in S
  <2> DEFINE g == [k \in 0..0 |-> leaves]
  <2>1. Turns(g, 0)
    OBVIOUS
  <2> QED BY <2>1
<1>2. ASSUME NEW n \in Nat, n \in S PROVE n + 1 \in S
  <2>1. PICK g : Turns(g, n)
    BY <1>2
  <2> DEFINE h == [k \in 0..(n + 1) |-> IF k = 0 THEN leaves ELSE Turn(g[k - 1], k)]
  <2>2. \A k \in 0..n : h[k] = g[k]
    BY <2>1
  <2>3. h = [k \in 0..(n + 1) |-> IF k = 0 THEN leaves ELSE Turn(g[k - 1], k)]
    OBVIOUS
  <2> HIDE DEF h
  <2>4. \A k \in 0..(n + 1) : (IF k = 0 THEN leaves ELSE Turn(g[k - 1], k)) =
                              (IF k = 0 THEN leaves ELSE Turn(h[k - 1], k))
    BY <2>2
  <2>5. Turns(h, n + 1)
    BY <2>3, <2>4, Zenon
  <2> QED BY <2>5
<1>3. \E g : Turns(g, Len(leaves))
  BY <1>1, <1>2, SetInduction
<1> QED
  BY <1>3 DEF Levels, Turn

\* idx of _inclusion_proof and _verify_inclusion.
LEMMA IndexesDef ==
    ASSUME NEW index, NEW turns \in Nat
    PROVE  Indexes(index, turns) =
             [k \in 0..turns |->
                IF k = 0 THEN index
                ELSE Indexes(index, turns)[k - 1] \div 2]
<1> DEFINE Turn(v, k) ==
             v \div 2
           Turns(g, m) == g = [k \in 0..m |-> IF k = 0 THEN index ELSE Turn(g[k - 1], k)]
           S == {m \in Nat : \E g : Turns(g, m)}
<1> HIDE DEF Turn
<1>1. 0 \in S
  <2> DEFINE g == [k \in 0..0 |-> index]
  <2>1. Turns(g, 0)
    OBVIOUS
  <2> QED BY <2>1
<1>2. ASSUME NEW n \in Nat, n \in S PROVE n + 1 \in S
  <2>1. PICK g : Turns(g, n)
    BY <1>2
  <2> DEFINE h == [k \in 0..(n + 1) |-> IF k = 0 THEN index ELSE Turn(g[k - 1], k)]
  <2>2. \A k \in 0..n : h[k] = g[k]
    BY <2>1
  <2>3. h = [k \in 0..(n + 1) |-> IF k = 0 THEN index ELSE Turn(g[k - 1], k)]
    OBVIOUS
  <2> HIDE DEF h
  <2>4. \A k \in 0..(n + 1) : (IF k = 0 THEN index ELSE Turn(g[k - 1], k)) =
                              (IF k = 0 THEN index ELSE Turn(h[k - 1], k))
    BY <2>2
  <2>5. Turns(h, n + 1)
    BY <2>3, <2>4, Zenon
  <2> QED BY <2>5
<1>3. \E g : Turns(g, turns)
  BY <1>1, <1>2, SetInduction
<1> QED
  BY <1>3 DEF Indexes, Turn

\* size of _verify_inclusion.
LEMMA WidthsDef ==
    ASSUME NEW size \in Nat
    PROVE  Widths(size) =
             [k \in 0..size |->
                IF k = 0 THEN size
                ELSE (Widths(size)[k - 1] + 1) \div 2]
<1> DEFINE Turn(v, k) ==
             (v + 1) \div 2
           Turns(g, m) == g = [k \in 0..m |-> IF k = 0 THEN size ELSE Turn(g[k - 1], k)]
           S == {m \in Nat : \E g : Turns(g, m)}
<1> HIDE DEF Turn
<1>1. 0 \in S
  <2> DEFINE g == [k \in 0..0 |-> size]
  <2>1. Turns(g, 0)
    OBVIOUS
  <2> QED BY <2>1
<1>2. ASSUME NEW n \in Nat, n \in S PROVE n + 1 \in S
  <2>1. PICK g : Turns(g, n)
    BY <1>2
  <2> DEFINE h == [k \in 0..(n + 1) |-> IF k = 0 THEN size ELSE Turn(g[k - 1], k)]
  <2>2. \A k \in 0..n : h[k] = g[k]
    BY <2>1
  <2>3. h = [k \in 0..(n + 1) |-> IF k = 0 THEN size ELSE Turn(g[k - 1], k)]
    OBVIOUS
  <2> HIDE DEF h
  <2>4. \A k \in 0..(n + 1) : (IF k = 0 THEN size ELSE Turn(g[k - 1], k)) =
                              (IF k = 0 THEN size ELSE Turn(h[k - 1], k))
    BY <2>2
  <2>5. Turns(h, n + 1)
    BY <2>3, <2>4, Zenon
  <2> QED BY <2>5
<1>3. \E g : Turns(g, size)
  BY <1>1, <1>2, SetInduction
<1> QED
  BY <1>3 DEF Widths, Turn

\* proof of _inclusion_proof.
LEMMA SiblingsDef ==
    ASSUME NEW leaves, Len(leaves) \in Nat, NEW index
    PROVE  Siblings(leaves, index) =
             [k \in 0..Len(leaves) |->
                IF k = 0 THEN <<>>
                ELSE Siblings(leaves, index)[k - 1] \o Sibling(Levels(leaves)[k - 1], Indexes(index, Len(leaves))[k - 1])]
<1> DEFINE Turn(v, k) ==
             v \o Sibling(Levels(leaves)[k - 1], Indexes(index, Len(leaves))[k - 1])
           Turns(g, m) == g = [k \in 0..m |-> IF k = 0 THEN <<>> ELSE Turn(g[k - 1], k)]
           S == {m \in Nat : \E g : Turns(g, m)}
<1> HIDE DEF Turn
<1>1. 0 \in S
  <2> DEFINE g == [k \in 0..0 |-> <<>>]
  <2>1. Turns(g, 0)
    OBVIOUS
  <2> QED BY <2>1
<1>2. ASSUME NEW n \in Nat, n \in S PROVE n + 1 \in S
  <2>1. PICK g : Turns(g, n)
    BY <1>2
  <2> DEFINE h == [k \in 0..(n + 1) |-> IF k = 0 THEN <<>> ELSE Turn(g[k - 1], k)]
  <2>2. \A k \in 0..n : h[k] = g[k]
    BY <2>1
  <2>3. h = [k \in 0..(n + 1) |-> IF k = 0 THEN <<>> ELSE Turn(g[k - 1], k)]
    OBVIOUS
  <2> HIDE DEF h
  <2>4. \A k \in 0..(n + 1) : (IF k = 0 THEN <<>> ELSE Turn(g[k - 1], k)) =
                              (IF k = 0 THEN <<>> ELSE Turn(h[k - 1], k))
    BY <2>2
  <2>5. Turns(h, n + 1)
    BY <2>3, <2>4, Zenon
  <2> QED BY <2>5
<1>3. \E g : Turns(g, Len(leaves))
  BY <1>1, <1>2, SetInduction
<1> QED
  BY <1>3 DEF Siblings, Turn

\* proof_i of _verify_inclusion.
LEMMA UsedDef ==
    ASSUME NEW index, NEW size \in Nat
    PROVE  Used(index, size) =
             [k \in 0..size |->
                IF k = 0 THEN 0
                ELSE Used(index, size)[k - 1] + (IF IsPaired(index, size, k - 1) THEN 1 ELSE 0)]
<1> DEFINE Turn(v, k) ==
             v + (IF IsPaired(index, size, k - 1) THEN 1 ELSE 0)
           Turns(g, m) == g = [k \in 0..m |-> IF k = 0 THEN 0 ELSE Turn(g[k - 1], k)]
           S == {m \in Nat : \E g : Turns(g, m)}
<1> HIDE DEF Turn
<1>1. 0 \in S
  <2> DEFINE g == [k \in 0..0 |-> 0]
  <2>1. Turns(g, 0)
    OBVIOUS
  <2> QED BY <2>1
<1>2. ASSUME NEW n \in Nat, n \in S PROVE n + 1 \in S
  <2>1. PICK g : Turns(g, n)
    BY <1>2
  <2> DEFINE h == [k \in 0..(n + 1) |-> IF k = 0 THEN 0 ELSE Turn(g[k - 1], k)]
  <2>2. \A k \in 0..n : h[k] = g[k]
    BY <2>1
  <2>3. h = [k \in 0..(n + 1) |-> IF k = 0 THEN 0 ELSE Turn(g[k - 1], k)]
    OBVIOUS
  <2> HIDE DEF h
  <2>4. \A k \in 0..(n + 1) : (IF k = 0 THEN 0 ELSE Turn(g[k - 1], k)) =
                              (IF k = 0 THEN 0 ELSE Turn(h[k - 1], k))
    BY <2>2
  <2>5. Turns(h, n + 1)
    BY <2>3, <2>4, Zenon
  <2> QED BY <2>5
<1>3. \E g : Turns(g, size)
  BY <1>1, <1>2, SetInduction
<1> QED
  BY <1>3 DEF Used, Turn

\* current of _verify_inclusion.
LEMMA ClimbDef ==
    ASSUME NEW leaf, NEW index, NEW size \in Nat, NEW proof
    PROVE  Climb(leaf, index, size, proof) =
             [k \in 0..size |->
                IF k = 0 THEN leaf
                ELSE IF ~IsPaired(index, size, k - 1) THEN Climb(leaf, index, size, proof)[k - 1]
                       ELSE IF IsRight(index, size, k - 1)
                       THEN NodeHash(proof[Used(index, size)[k]], Climb(leaf, index, size, proof)[k - 1])
                       ELSE NodeHash(Climb(leaf, index, size, proof)[k - 1], proof[Used(index, size)[k]])]
<1> DEFINE Turn(v, k) ==
             IF ~IsPaired(index, size, k - 1) THEN v
             ELSE IF IsRight(index, size, k - 1)
             THEN NodeHash(proof[Used(index, size)[k]], v)
             ELSE NodeHash(v, proof[Used(index, size)[k]])
           Turns(g, m) == g = [k \in 0..m |-> IF k = 0 THEN leaf ELSE Turn(g[k - 1], k)]
           S == {m \in Nat : \E g : Turns(g, m)}
<1> HIDE DEF Turn
<1>1. 0 \in S
  <2> DEFINE g == [k \in 0..0 |-> leaf]
  <2>1. Turns(g, 0)
    OBVIOUS
  <2> QED BY <2>1
<1>2. ASSUME NEW n \in Nat, n \in S PROVE n + 1 \in S
  <2>1. PICK g : Turns(g, n)
    BY <1>2
  <2> DEFINE h == [k \in 0..(n + 1) |-> IF k = 0 THEN leaf ELSE Turn(g[k - 1], k)]
  <2>2. \A k \in 0..n : h[k] = g[k]
    BY <2>1
  <2>3. h = [k \in 0..(n + 1) |-> IF k = 0 THEN leaf ELSE Turn(g[k - 1], k)]
    OBVIOUS
  <2> HIDE DEF h
  <2>4. \A k \in 0..(n + 1) : (IF k = 0 THEN leaf ELSE Turn(g[k - 1], k)) =
                              (IF k = 0 THEN leaf ELSE Turn(h[k - 1], k))
    BY <2>2
  <2>5. Turns(h, n + 1)
    BY <2>3, <2>4, Zenon
  <2> QED BY <2>5
<1>3. \E g : Turns(g, size)
  BY <1>1, <1>2, SetInduction
<1> QED
  BY <1>3 DEF Climb, Turn

-----------------------------------------------------------------------------
(* The shape of the tree *)

\* A tree has one node on top, and a node on every level.
LEMMA WidthsOK ==
    ASSUME NEW n \in Nat \ {0}
    PROVE  /\ \A k \in 0..n : Widths(n)[k] \in Nat \ {0}
           /\ Widths(n)[0] = n /\ Widths(n)[n] = 1
           /\ \A k \in 1..n : Widths(n)[k] = (Widths(n)[k - 1] + 1) \div 2
<1> DEFINE W == Widths(n)
           S == {k \in Nat : k <= n => W[k] \in Nat \ {0} /\ (W[k] = 1 \/ W[k] <= n - k)}
<1>1. W = [k \in 0..n |-> IF k = 0 THEN n ELSE (W[k - 1] + 1) \div 2]
  BY WidthsDef
<1> HIDE DEF W
<1>2. W[0] = n /\ \A k \in 1..n : W[k] = (W[k - 1] + 1) \div 2
  BY <1>1
<1>3. 0 \in S
  BY <1>2
<1>4. ASSUME NEW k \in Nat, k \in S PROVE k + 1 \in S
  <2> SUFFICES ASSUME k + 1 <= n
               PROVE  W[k + 1] \in Nat \ {0} /\ (W[k + 1] = 1 \/ W[k + 1] <= n - (k + 1))
    OBVIOUS
  <2> DEFINE w == W[k]
  <2>1. w \in Nat \ {0} /\ (w = 1 \/ w <= n - k) /\ W[k + 1] = (w + 1) \div 2
    BY <1>2, <1>4
  <2> HIDE DEF w
  <2> QED BY <2>1
<1>5. Nat \subseteq S
  BY <1>3, <1>4, SetInduction
<1> QED
  BY <1>2, <1>5 DEF W

\* The index climbs within the levels.
LEMMA IndexesOK ==
    ASSUME NEW n \in Nat \ {0}, NEW i \in 0..(n - 1)
    PROVE  /\ \A k \in 0..n : Indexes(i, n)[k] \in 0..(Widths(n)[k] - 1)
           /\ Indexes(i, n)[0] = i
           /\ \A k \in 1..n : Indexes(i, n)[k] = Indexes(i, n)[k - 1] \div 2
<1> DEFINE W == Widths(n)
           I == Indexes(i, n)
           S == {k \in Nat : k <= n => I[k] \in 0..(W[k] - 1)}
<1>0. I = [k \in 0..n |-> IF k = 0 THEN i ELSE I[k - 1] \div 2]
  BY IndexesDef
<1>1. /\ \A k \in 0..n : W[k] \in Nat \ {0}
      /\ W[0] = n /\ \A k \in 1..n : W[k] = (W[k - 1] + 1) \div 2
  BY WidthsOK
<1> HIDE DEF W, I
<1>2. I[0] = i /\ \A k \in 1..n : I[k] = I[k - 1] \div 2
  BY <1>0
<1>3. 0 \in S
  BY <1>1, <1>2
<1>4. ASSUME NEW k \in Nat, k \in S PROVE k + 1 \in S
  <2> SUFFICES ASSUME k + 1 <= n PROVE I[k + 1] \in 0..(W[k + 1] - 1)
    OBVIOUS
  <2> DEFINE w == W[k]
             x == I[k]
  <2>1. w \in Nat \ {0} /\ x \in 0..(w - 1) /\ W[k + 1] = (w + 1) \div 2 /\ I[k + 1] = x \div 2
    BY <1>1, <1>2, <1>4
  <2> HIDE DEF w, x
  <2> QED BY <2>1
<1>5. Nat \subseteq S
  BY <1>3, <1>4, SetInduction
<1> QED
  BY <1>2, <1>5 DEF W, I

\* A turn of _merkle_root halves a level and hands up a last node without a pair.
LEMMA HalveOK ==
    ASSUME NEW level, NEW w \in Nat, DOMAIN level = 1..w, Len(level) = w
    PROVE  /\ DOMAIN Halve(level) = 1..((w + 1) \div 2)
           /\ Len(Halve(level)) = (w + 1) \div 2
           /\ \A x \in 1..((w + 1) \div 2) :
                Halve(level)[x] = IF 2 * x <= w THEN NodeHash(level[2*x - 1], level[2*x])
                                  ELSE level[2*x - 1]
<1>1. (w + 1) \div 2 \in Nat
  OBVIOUS
<1> DEFINE m == (w + 1) \div 2
           h == [x \in 1..m |-> IF 2 * x <= w THEN NodeHash(level[2*x - 1], level[2*x])
                                ELSE level[2*x - 1]]
<1>2. Halve(level) = h
  BY DEF Halve
<1> HIDE DEF m
<1>3. Len(h) = m
  BY <1>1 DEF m
<1> QED BY <1>2, <1>3 DEF m

\* The levels have the widths that _verify_inclusion computes from the size.
LEMMA LevelsOK ==
    ASSUME NEW X, NEW leaves \in Seq(X), leaves # <<>>
    PROVE  LET n == Len(leaves) IN
           /\ n \in Nat \ {0}
           /\ Levels(leaves)[0] = leaves
           /\ \A k \in 0..n : DOMAIN Levels(leaves)[k] = 1..Widths(n)[k]
                              /\ Len(Levels(leaves)[k]) = Widths(n)[k]
           /\ \A k \in 1..n : Levels(leaves)[k] = Halve(Levels(leaves)[k - 1])
<1> DEFINE n == Len(leaves)
           L == Levels(leaves)
           W == Widths(n)
           S == {k \in Nat : k <= n => DOMAIN L[k] = 1..W[k] /\ Len(L[k]) = W[k]}
<1>0. n \in Nat \ {0} /\ DOMAIN leaves = 1..n
  OBVIOUS
<1>1. L = [k \in 0..n |-> IF k = 0 THEN leaves ELSE Halve(L[k - 1])]
  BY <1>0, LevelsDef
<1>2. /\ \A k \in 0..n : W[k] \in Nat \ {0}
      /\ W[0] = n /\ \A k \in 1..n : W[k] = (W[k - 1] + 1) \div 2
  BY <1>0, WidthsOK
<1> HIDE DEF L, W
<1>3. L[0] = leaves /\ \A k \in 1..n : L[k] = Halve(L[k - 1])
  BY <1>0, <1>1
<1>4. 0 \in S
  BY <1>0, <1>2, <1>3
<1>5. ASSUME NEW k \in Nat, k \in S PROVE k + 1 \in S
  <2> SUFFICES ASSUME k + 1 <= n
               PROVE  DOMAIN L[k + 1] = 1..W[k + 1] /\ Len(L[k + 1]) = W[k + 1]
    OBVIOUS
  <2>1. W[k] \in Nat /\ W[k + 1] = (W[k] + 1) \div 2
        /\ DOMAIN L[k] = 1..W[k] /\ Len(L[k]) = W[k] /\ L[k + 1] = Halve(L[k])
    BY <1>0, <1>2, <1>3, <1>5
  <2> QED BY <2>1, HalveOK
<1>6. Nat \subseteq S
  BY <1>4, <1>5, SetInduction
<1>7. \A k \in 0..n : DOMAIN L[k] = 1..W[k] /\ Len(L[k]) = W[k]
  BY <1>0, <1>6
<1> QED
  BY <1>0, <1>3, <1>7 DEF L, W

\* The ancestor of a leaf on level k, and the node beside it.
Node(leaves, i, k) == Levels(leaves)[k][Indexes(i, Len(leaves))[k] + 1]
Beside(leaves, i, k) ==
    Levels(leaves)[k][IF IsRight(i, Len(leaves), k) THEN Indexes(i, Len(leaves))[k]
                      ELSE Indexes(i, Len(leaves))[k] + 2]

\* How an ancestor is made from the one below.
LEMMA NodeOK ==
    ASSUME NEW X, NEW leaves \in Seq(X), NEW i \in 0..(Len(leaves) - 1)
    PROVE  LET n == Len(leaves) IN
           /\ n \in Nat \ {0} /\ leaves # <<>>
           /\ Node(leaves, i, 0) = leaves[i + 1]
           /\ Node(leaves, i, n) = MerkleRoot(leaves)
           /\ \A k \in 0..(n - 1) :
                /\ Node(leaves, i, k + 1) =
                     IF ~IsPaired(i, n, k) THEN Node(leaves, i, k)
                     ELSE IF IsRight(i, n, k)
                     THEN NodeHash(Beside(leaves, i, k), Node(leaves, i, k))
                     ELSE NodeHash(Node(leaves, i, k), Beside(leaves, i, k))
                /\ Sibling(Levels(leaves)[k], Indexes(i, n)[k]) =
                     IF IsPaired(i, n, k) THEN <<Beside(leaves, i, k)>> ELSE <<>>
<1> DEFINE n == Len(leaves)
           L == Levels(leaves)
           W == Widths(n)
           I == Indexes(i, n)
<1>0. n \in Nat \ {0} /\ leaves # <<>> /\ i \in 0..(n - 1)
  OBVIOUS
<1>1. /\ L[0] = leaves
      /\ \A k \in 0..n : DOMAIN L[k] = 1..W[k] /\ Len(L[k]) = W[k]
      /\ \A k \in 1..n : L[k] = Halve(L[k - 1])
  BY <1>0, LevelsOK
<1>2. /\ \A k \in 0..n : W[k] \in Nat \ {0}
      /\ W[n] = 1
      /\ \A k \in 1..n : W[k] = (W[k - 1] + 1) \div 2
  BY <1>0, WidthsOK
<1>3. /\ \A k \in 0..n : I[k] \in 0..(W[k] - 1)
      /\ I[0] = i
      /\ \A k \in 1..n : I[k] = I[k - 1] \div 2
  BY <1>0, IndexesOK
<1>4. Node(leaves, i, 0) = leaves[i + 1]
  BY <1>1, <1>3 DEF Node
<1>5. Node(leaves, i, n) = MerkleRoot(leaves)
  <2>1. I[n] = 0
    BY <1>0, <1>2, <1>3
  <2> QED BY <1>0, <2>1 DEF Node, MerkleRoot
<1>6. ASSUME NEW k \in 0..(n - 1)
      PROVE  /\ Node(leaves, i, k + 1) =
                  IF ~IsPaired(i, n, k) THEN Node(leaves, i, k)
                  ELSE IF IsRight(i, n, k)
                  THEN NodeHash(Beside(leaves, i, k), Node(leaves, i, k))
                  ELSE NodeHash(Node(leaves, i, k), Beside(leaves, i, k))
             /\ Sibling(L[k], I[k]) =
                  IF IsPaired(i, n, k) THEN <<Beside(leaves, i, k)>> ELSE <<>>
  <2> DEFINE x == I[k]
             w == W[k]
             level == L[k]
             y == (x \div 2) + 1
  <2>1. /\ w \in Nat \ {0} /\ x \in 0..(w - 1) /\ I[k + 1] = x \div 2
        /\ DOMAIN level = 1..w /\ Len(level) = w /\ L[k + 1] = Halve(level)
    <3>1. k \in 0..n /\ k + 1 \in 1..n /\ (k + 1) - 1 = k
      BY <1>0
    <3> HIDE DEF L, W, I, n
    <3> QED BY <1>1, <1>2, <1>3, <3>1
  <2>2. /\ Node(leaves, i, k) = level[x + 1]
        /\ IsRight(i, n, k) <=> x % 2 = 1
        /\ IsPaired(i, n, k) <=> (x % 2 = 1 \/ x + 1 < w)
    BY DEF Node, IsRight, IsPaired
  <2>3. Beside(leaves, i, k) = level[IF x % 2 = 1 THEN x ELSE x + 2]
    BY DEF Beside, IsRight
  <2>4. Node(leaves, i, k + 1) = Halve(level)[y]
    BY <2>1 DEF Node
  <2> HIDE DEF x, w, level
  <2>5. y \in 1..((w + 1) \div 2)
    BY <2>1
  <2>6. Halve(level)[y] = IF 2 * y <= w THEN NodeHash(level[2*y - 1], level[2*y])
                          ELSE level[2*y - 1]
    BY <2>1, <2>5, HalveOK
  <2>7. CASE x % 2 = 1
    <3>1. 2 * y = x + 1 /\ 2 * y <= w /\ 2 * y - 1 = x
      BY <2>1, <2>7
    <3>2. Sibling(level, x) = <<level[x]>>
      BY <2>7 DEF Sibling
    <3> QED BY <2>2, <2>3, <2>4, <2>6, <2>7, <3>1, <3>2 DEF x, level
  <2>8. CASE x % 2 # 1
    <3>1. 2 * y = x + 2 /\ 2 * y - 1 = x + 1 /\ (2 * y <= w <=> x + 1 < w)
      BY <2>1, <2>8
    <3>2. Sibling(level, x) = IF x + 1 < w THEN <<level[x + 2]>> ELSE <<>>
      BY <2>1, <2>8 DEF Sibling
    <3> QED BY <2>2, <2>3, <2>4, <2>6, <2>8, <3>1, <3>2 DEF x, level
  <2> QED BY <2>7, <2>8
<1> QED
  BY <1>0, <1>4, <1>5, <1>6

\* An entry of the proof is counted for every level with a pair.
LEMMA UsedOK ==
    ASSUME NEW n \in Nat \ {0}, NEW i
    PROVE  /\ \A k \in 0..n : Used(i, n)[k] \in Nat
           /\ Used(i, n)[0] = 0
           /\ \A k \in 0..(n - 1) :
                Used(i, n)[k + 1] = Used(i, n)[k] + (IF IsPaired(i, n, k) THEN 1 ELSE 0)
<1> DEFINE U == Used(i, n)
           S == {k \in Nat : k <= n => U[k] \in Nat}
<1>1. U = [k \in 0..n |-> IF k = 0 THEN 0
                          ELSE U[k - 1] + (IF IsPaired(i, n, k - 1) THEN 1 ELSE 0)]
  BY UsedDef
<1> HIDE DEF U
<1>2. U[0] = 0
  BY <1>1
<1>3. ASSUME NEW k \in 0..(n - 1)
      PROVE  U[k + 1] = U[k] + (IF IsPaired(i, n, k) THEN 1 ELSE 0)
  <2>1. k + 1 \in 0..n /\ k + 1 # 0 /\ (k + 1) - 1 = k
    OBVIOUS
  <2> QED BY <1>1, <2>1
<1>4. 0 \in S
  BY <1>2
<1>5. ASSUME NEW k \in Nat, k \in S PROVE k + 1 \in S
  BY <1>3, <1>5
<1>6. Nat \subseteq S
  BY <1>4, <1>5, SetInduction
<1> QED
  BY <1>2, <1>3, <1>6 DEF U

-----------------------------------------------------------------------------
(* Inclusion proofs *)

\* One turn of _verify_inclusion.
LEMMA ClimbOK ==
    ASSUME NEW n \in Nat \ {0}, NEW i, NEW leaf, NEW proof
    PROVE  /\ Climb(leaf, i, n, proof)[0] = leaf
           /\ \A k \in 0..(n - 1) :
                Climb(leaf, i, n, proof)[k + 1] =
                  IF ~IsPaired(i, n, k) THEN Climb(leaf, i, n, proof)[k]
                  ELSE IF IsRight(i, n, k)
                  THEN NodeHash(proof[Used(i, n)[k + 1]], Climb(leaf, i, n, proof)[k])
                  ELSE NodeHash(Climb(leaf, i, n, proof)[k], proof[Used(i, n)[k + 1]])
<1> DEFINE C == Climb(leaf, i, n, proof)
<1>1. C = [k \in 0..n |->
             IF k = 0 THEN leaf
             ELSE IF ~IsPaired(i, n, k - 1) THEN C[k - 1]
             ELSE IF IsRight(i, n, k - 1)
             THEN NodeHash(proof[Used(i, n)[k]], C[k - 1])
             ELSE NodeHash(C[k - 1], proof[Used(i, n)[k]])]
  BY ClimbDef
<1> HIDE DEF C
<1>2. C[0] = leaf
  BY <1>1
<1>3. ASSUME NEW k \in 0..(n - 1)
      PROVE  C[k + 1] = IF ~IsPaired(i, n, k) THEN C[k]
                        ELSE IF IsRight(i, n, k)
                        THEN NodeHash(proof[Used(i, n)[k + 1]], C[k])
                        ELSE NodeHash(C[k], proof[Used(i, n)[k + 1]])
  <2>1. k + 1 \in 0..n /\ k + 1 # 0 /\ (k + 1) - 1 = k
    OBVIOUS
  <2> QED BY <1>1, <2>1
<1> QED
  BY <1>2, <1>3 DEF C

\* InclusionProof holds the node beside the ancestor, for every level where
\* there is one, in the place where _verify_inclusion looks for it.
LEMMA SiblingsOK ==
    ASSUME NEW X, NEW leaves \in Seq(X), NEW i \in 0..(Len(leaves) - 1)
    PROVE  LET n == Len(leaves) IN
           /\ Len(InclusionProof(leaves, i)) = Used(i, n)[n]
           /\ \A k \in 0..(n - 1) : IsPaired(i, n, k) =>
                InclusionProof(leaves, i)[Used(i, n)[k + 1]] = Beside(leaves, i, k)
<1> DEFINE n == Len(leaves)
           P == Siblings(leaves, i)
           U == Used(i, n)
           Y == {Beside(leaves, i, k) : k \in 0..(n - 1)}
           Entries(m) == /\ P[m] \in Seq(Y) /\ Len(P[m]) = U[m]
                         /\ \A k \in 0..(m - 1) : IsPaired(i, n, k) =>
                              U[k + 1] \in 1..U[m] /\ P[m][U[k + 1]] = Beside(leaves, i, k)
           S == {m \in Nat : m <= n => Entries(m)}
<1>0. n \in Nat \ {0}
  OBVIOUS
<1>1. P = [k \in 0..n |->
             IF k = 0 THEN <<>>
             ELSE P[k - 1] \o Sibling(Levels(leaves)[k - 1], Indexes(i, n)[k - 1])]
  BY <1>0, SiblingsDef
<1> HIDE DEF P
<1>2. P[0] = <<>>
  BY <1>0, <1>1
<1>3. ASSUME NEW k \in 0..(n - 1)
      PROVE  P[k + 1] = P[k] \o (IF IsPaired(i, n, k) THEN <<Beside(leaves, i, k)>> ELSE <<>>)
  <2>1. k + 1 \in 0..n /\ k + 1 # 0 /\ (k + 1) - 1 = k
    BY <1>0
  <2>2. P[k + 1] = P[k] \o Sibling(Levels(leaves)[k], Indexes(i, n)[k])
    BY <1>1, <2>1
  <2>3. Sibling(Levels(leaves)[k], Indexes(i, n)[k]) =
          IF IsPaired(i, n, k) THEN <<Beside(leaves, i, k)>> ELSE <<>>
    BY NodeOK
  <2> QED BY <2>2, <2>3
<1>4. /\ \A k \in 0..n : U[k] \in Nat
      /\ U[0] = 0
      /\ \A k \in 0..(n - 1) : U[k + 1] = U[k] + (IF IsPaired(i, n, k) THEN 1 ELSE 0)
  BY <1>0, UsedOK
<1> HIDE DEF U
<1>5. 0 \in S
  <2> HIDE DEF Y
  <2>1. P[0] \in Seq(Y) /\ Len(P[0]) = U[0]
    BY <1>2, <1>4
  <2>2. 0..(0 - 1) = {}
    OBVIOUS
  <2>3. Entries(0)
    BY <2>1, <2>2, Zenon
  <2> HIDE DEF Entries
  <2> QED BY <2>3
<1>6. ASSUME NEW m \in Nat, m \in S PROVE m + 1 \in S
  <2> SUFFICES ASSUME m + 1 <= n PROVE Entries(m + 1)
    OBVIOUS
  <2> DEFINE b == Beside(leaves, i, m)
  <2>1. m \in 0..(n - 1) /\ m \in 0..n /\ m + 1 \in 0..n /\ Entries(m)
    BY <1>0, <1>6
  <2>2. b \in Y
    BY <2>1
  <2>3. U[m] \in Nat /\ U[m + 1] = U[m] + (IF IsPaired(i, n, m) THEN 1 ELSE 0)
    BY <1>4, <2>1
  <2>4. P[m + 1] = P[m] \o (IF IsPaired(i, n, m) THEN <<b>> ELSE <<>>)
    BY <1>3, <2>1
  <2> HIDE DEF b, Y
  <2>5. P[m] \in Seq(Y) /\ Len(P[m]) = U[m]
    BY <2>1
  <2> DEFINE s == P[m]
             u == U[m]
  <2>6. CASE IsPaired(i, n, m)
    <3>0. s \in Seq(Y) /\ Len(s) = u /\ u \in Nat /\ P[m + 1] = s \o <<b>> /\ U[m + 1] = u + 1
      BY <2>3, <2>4, <2>5, <2>6
    <3> HIDE DEF s, u
    <3>1. /\ P[m + 1] \in Seq(Y) /\ Len(P[m + 1]) = u + 1
          /\ P[m + 1][u + 1] = b
          /\ \A e \in 1..u : P[m + 1][e] = s[e]
      BY <2>2, <3>0
    <3>2. ASSUME NEW k \in 0..m, IsPaired(i, n, k)
          PROVE  U[k + 1] \in 1..U[m + 1] /\ P[m + 1][U[k + 1]] = Beside(leaves, i, k)
      <4>1. CASE k = m
        BY <3>0, <3>1, <4>1 DEF b
      <4>2. CASE k # m
        <5>1. k \in 0..(m - 1)
          BY <4>2
        <5>2. U[k + 1] \in 1..u /\ s[U[k + 1]] = Beside(leaves, i, k)
          BY <2>1, <3>2, <5>1 DEF s, u
        <5> QED BY <3>0, <3>1, <5>2
      <4> QED BY <4>1, <4>2
    <3> QED BY <3>0, <3>1, <3>2
  <2>7. CASE ~IsPaired(i, n, m)
    <3>1. P[m + 1] = P[m] /\ U[m + 1] = U[m]
      BY <2>3, <2>4, <2>5, <2>7
    <3>2. \A k \in 0..m : IsPaired(i, n, k) => k \in 0..(m - 1)
      BY <2>7
    <3> QED BY <2>1, <3>1, <3>2
  <2> QED BY <2>6, <2>7
<1>7. Entries(n)
  <2> HIDE DEF Entries
  <2>1. Nat \subseteq S
    BY <1>5, <1>6, SetInduction
  <2> QED BY <1>0, <2>1
<1> QED
  BY <1>0, <1>7 DEF InclusionProof, P, U

\* The path that _inclusion_proof returns for any leaf of any tree is accepted
\* by _verify_inclusion, with the size and the root of that tree.
THEOREM InclusionProofVerifies ==
    ASSUME NEW X, NEW leaves \in Seq(X), NEW i \in 0..(Len(leaves) - 1)
    PROVE  VerifyInclusion(leaves[i + 1], i, Len(leaves), InclusionProof(leaves, i),
                           MerkleRoot(leaves))
<1> DEFINE n == Len(leaves)
           proof == InclusionProof(leaves, i)
           C == Climb(leaves[i + 1], i, n, proof)
           S == {k \in Nat : k <= n => C[k] = Node(leaves, i, k)}
<1>0. n \in Nat \ {0} /\ i < n
  OBVIOUS
<1>1. /\ Node(leaves, i, 0) = leaves[i + 1] /\ Node(leaves, i, n) = MerkleRoot(leaves)
      /\ \A k \in 0..(n - 1) :
           Node(leaves, i, k + 1) =
             IF ~IsPaired(i, n, k) THEN Node(leaves, i, k)
             ELSE IF IsRight(i, n, k)
             THEN NodeHash(Beside(leaves, i, k), Node(leaves, i, k))
             ELSE NodeHash(Node(leaves, i, k), Beside(leaves, i, k))
  BY NodeOK
<1>2. /\ Len(proof) = Used(i, n)[n]
      /\ \A k \in 0..(n - 1) :
           IsPaired(i, n, k) => proof[Used(i, n)[k + 1]] = Beside(leaves, i, k)
  BY SiblingsOK
<1>3. /\ C[0] = leaves[i + 1]
      /\ \A k \in 0..(n - 1) :
           C[k + 1] = IF ~IsPaired(i, n, k) THEN C[k]
                      ELSE IF IsRight(i, n, k)
                      THEN NodeHash(proof[Used(i, n)[k + 1]], C[k])
                      ELSE NodeHash(C[k], proof[Used(i, n)[k + 1]])
  BY <1>0, ClimbOK
<1> HIDE DEF C, proof, n
<1>4. 0 \in S
  BY <1>1, <1>3
<1>5. ASSUME NEW k \in Nat, k \in S PROVE k + 1 \in S
  <2> SUFFICES ASSUME k + 1 <= n PROVE C[k + 1] = Node(leaves, i, k + 1)
    OBVIOUS
  <2>1. k \in 0..(n - 1) /\ C[k] = Node(leaves, i, k)
    BY <1>0, <1>5
  <2> QED BY <1>1, <1>2, <1>3, <2>1
<1>6. C[n] = MerkleRoot(leaves)
  <2>1. Nat \subseteq S
    BY <1>4, <1>5, SetInduction
  <2> QED BY <1>0, <1>1, <2>1
<1> QED
  BY <1>0, <1>2, <1>6 DEF VerifyInclusion, C, proof, n

\* The hash of a node commits to its two children.
LEMMA NodeHashInjective ==
    ASSUME NEW a, NEW b, NEW c, NEW d, NodeHash(a, b) = NodeHash(c, d)
    PROVE  a = c /\ b = d
  BY DEF NodeHash

\* What a proof that _verify_inclusion accepts has to hold: on every level the
\* value it climbs with is the ancestor of the leaf at this index.
LEMMA AcceptedClimb ==
    ASSUME NEW X, NEW leaves \in Seq(X), NEW i \in 0..(Len(leaves) - 1), NEW leaf, NEW proof,
           VerifyInclusion(leaf, i, Len(leaves), proof, MerkleRoot(leaves))
    PROVE  LET n == Len(leaves) IN
           /\ leaf = leaves[i + 1]
           /\ \A k \in 0..(n - 1) :
                IsPaired(i, n, k) => proof[Used(i, n)[k + 1]] = Beside(leaves, i, k)
<1> DEFINE n == Len(leaves)
           C == Climb(leaf, i, n, proof)
           S == {m \in Nat : m <= n => C[n - m] = Node(leaves, i, n - m)}
<1>0. n \in Nat \ {0} /\ i < n /\ C[n] = MerkleRoot(leaves)
  BY DEF VerifyInclusion
<1>1. /\ Node(leaves, i, 0) = leaves[i + 1] /\ Node(leaves, i, n) = MerkleRoot(leaves)
      /\ \A k \in 0..(n - 1) :
           Node(leaves, i, k + 1) =
             IF ~IsPaired(i, n, k) THEN Node(leaves, i, k)
             ELSE IF IsRight(i, n, k)
             THEN NodeHash(Beside(leaves, i, k), Node(leaves, i, k))
             ELSE NodeHash(Node(leaves, i, k), Beside(leaves, i, k))
  BY NodeOK
<1>2. /\ C[0] = leaf
      /\ \A k \in 0..(n - 1) :
           C[k + 1] = IF ~IsPaired(i, n, k) THEN C[k]
                      ELSE IF IsRight(i, n, k)
                      THEN NodeHash(proof[Used(i, n)[k + 1]], C[k])
                      ELSE NodeHash(C[k], proof[Used(i, n)[k + 1]])
  BY <1>0, ClimbOK
<1> HIDE DEF C, n
<1>3. ASSUME NEW k \in 0..(n - 1), C[k + 1] = Node(leaves, i, k + 1)
      PROVE  /\ C[k] = Node(leaves, i, k)
             /\ IsPaired(i, n, k) => proof[Used(i, n)[k + 1]] = Beside(leaves, i, k)
  BY <1>1, <1>2, <1>3, NodeHashInjective
<1>4. 0 \in S
  BY <1>0, <1>1
<1>5. ASSUME NEW m \in Nat, m \in S PROVE m + 1 \in S
  <2> SUFFICES ASSUME m + 1 <= n PROVE C[n - (m + 1)] = Node(leaves, i, n - (m + 1))
    OBVIOUS
  <2> DEFINE k == n - (m + 1)
  <2>1. k \in 0..(n - 1) /\ k + 1 = n - m /\ C[n - m] = Node(leaves, i, n - m)
    BY <1>0, <1>5
  <2> HIDE DEF k
  <2>2. C[k] = Node(leaves, i, k)
    BY <1>3, <2>1
  <2> QED BY <2>2 DEF k
<1>6. Nat \subseteq S
  BY <1>4, <1>5, SetInduction
<1>7. \A k \in 0..n : C[k] = Node(leaves, i, k)
  <2> SUFFICES ASSUME NEW k \in 0..n PROVE C[k] = Node(leaves, i, k)
    OBVIOUS
  <2>1. n - k \in Nat /\ n - k <= n /\ n - (n - k) = k
    BY <1>0
  <2>2. n - k \in S
    BY <1>6, <2>1
  <2> QED BY <2>1, <2>2
<1>8. ASSUME NEW k \in 0..(n - 1)
      PROVE  IsPaired(i, n, k) => proof[Used(i, n)[k + 1]] = Beside(leaves, i, k)
  <2>1. k + 1 \in 0..n
    BY <1>0
  <2> QED BY <1>3, <1>7, <2>1
<1>9. leaf = leaves[i + 1]
  BY <1>0, <1>1, <1>2, <1>7
<1> QED
  BY <1>8, <1>9 DEF n

\* _verify_inclusion accepts no other value than the leaf at that index, with
\* whatever proof: a root and a size commit to every leaf of the tree.
THEOREM VerifiedLeafIsLogged ==
    ASSUME NEW X, NEW leaves \in Seq(X), NEW i \in Nat, NEW leaf, NEW proof,
           VerifyInclusion(leaf, i, Len(leaves), proof, MerkleRoot(leaves))
    PROVE  i < Len(leaves) /\ leaf = leaves[i + 1]
<1>1. i \in 0..(Len(leaves) - 1)
  BY DEF VerifyInclusion
<1> QED
  BY <1>1, AcceptedClimb DEF VerifyInclusion

\* Two trees of one size with one root have the same leaves: a checkpoint, which
\* signs the size and the root, fixes everything that was logged before it.
THEOREM RootCommitsToLeaves ==
    ASSUME NEW X, NEW leaves \in Seq(X), NEW others \in Seq(X),
           Len(leaves) = Len(others), MerkleRoot(leaves) = MerkleRoot(others)
    PROVE  leaves = others
<1>1. ASSUME NEW x \in 1..Len(leaves) PROVE leaves[x] = others[x]
  <2> DEFINE i == x - 1
  <2>1. i \in 0..(Len(leaves) - 1) /\ i \in Nat /\ i + 1 = x
    OBVIOUS
  <2> HIDE DEF i
  <2>2. VerifyInclusion(leaves[i + 1], i, Len(leaves), InclusionProof(leaves, i),
                        MerkleRoot(leaves))
    BY <2>1, InclusionProofVerifies
  <2>3. VerifyInclusion(leaves[i + 1], i, Len(others), InclusionProof(leaves, i),
                        MerkleRoot(others))
    BY <2>2
  <2>4. leaves[i + 1] = others[i + 1]
    BY <2>1, <2>3, VerifiedLeafIsLogged
  <2> QED BY <2>1, <2>4
<1> QED BY <1>1

-----------------------------------------------------------------------------
(* The nodes of a level differ, and a proof fits one index *)

\* The place of the leftmost leaf below a node, by the level of the node and
\* its place there.
Firsts(turns) ==
    LET first[k \in 0..turns] ==
          IF k = 0 THEN [x \in Nat \ {0} |-> x] ELSE [x \in Nat \ {0} |-> first[k - 1][2 * x - 1]]
    IN first

\* Firsts, too, satisfies its definition.
LEMMA FirstsDef ==
    ASSUME NEW turns \in Nat
    PROVE  Firsts(turns) =
             [k \in 0..turns |->
                IF k = 0 THEN [x \in Nat \ {0} |-> x]
                ELSE [x \in Nat \ {0} |-> Firsts(turns)[k - 1][2 * x - 1]]]
<1> DEFINE Turn(v, k) ==
             [x \in Nat \ {0} |-> v[2 * x - 1]]
           Turns(g, m) == g = [k \in 0..m |-> IF k = 0 THEN [x \in Nat \ {0} |-> x] ELSE Turn(g[k - 1], k)]
           S == {m \in Nat : \E g : Turns(g, m)}
<1> HIDE DEF Turn
<1>1. 0 \in S
  <2> DEFINE g == [k \in 0..0 |-> [x \in Nat \ {0} |-> x]]
  <2>1. Turns(g, 0)
    OBVIOUS
  <2> QED BY <2>1
<1>2. ASSUME NEW n \in Nat, n \in S PROVE n + 1 \in S
  <2>1. PICK g : Turns(g, n)
    BY <1>2
  <2> DEFINE h == [k \in 0..(n + 1) |-> IF k = 0 THEN [x \in Nat \ {0} |-> x] ELSE Turn(g[k - 1], k)]
  <2>2. \A k \in 0..n : h[k] = g[k]
    BY <2>1
  <2>3. h = [k \in 0..(n + 1) |-> IF k = 0 THEN [x \in Nat \ {0} |-> x] ELSE Turn(g[k - 1], k)]
    OBVIOUS
  <2> HIDE DEF h
  <2>4. \A k \in 0..(n + 1) : (IF k = 0 THEN [x \in Nat \ {0} |-> x] ELSE Turn(g[k - 1], k)) =
                              (IF k = 0 THEN [x \in Nat \ {0} |-> x] ELSE Turn(h[k - 1], k))
    BY <2>2
  <2>5. Turns(h, n + 1)
    BY <2>3, <2>4, Zenon
  <2> QED BY <2>5
<1>3. \E g : Turns(g, turns)
  BY <1>1, <1>2, SetInduction
<1> QED
  BY <1>3 DEF Firsts, Turn

LEMMA FirstsOK ==
    ASSUME NEW n \in Nat
    PROVE  /\ \A x \in Nat \ {0} : Firsts(n)[0][x] = x
           /\ \A k \in 0..(n - 1), x \in Nat \ {0} :
                Firsts(n)[k + 1][x] = Firsts(n)[k][2 * x - 1]
           /\ \A k \in 0..n, x, y \in Nat \ {0} :
                Firsts(n)[k][x] = Firsts(n)[k][y] => x = y
<1> DEFINE F == Firsts(n)
           Injective(k) == \A x, y \in Nat \ {0} : F[k][x] = F[k][y] => x = y
           S == {k \in Nat : k <= n => Injective(k)}
<1>1. F = [k \in 0..n |-> IF k = 0 THEN [x \in Nat \ {0} |-> x]
                          ELSE [x \in Nat \ {0} |-> F[k - 1][2 * x - 1]]]
  BY FirstsDef
<1> HIDE DEF F
<1>2. \A x \in Nat \ {0} : F[0][x] = x
  BY <1>1
<1>3. ASSUME NEW k \in 0..(n - 1), NEW x \in Nat \ {0}
      PROVE  F[k + 1][x] = F[k][2 * x - 1]
  <2>1. k + 1 \in 0..n /\ k + 1 # 0 /\ (k + 1) - 1 = k
    OBVIOUS
  <2>2. F[k + 1] = [z \in Nat \ {0} |-> F[k][2 * z - 1]]
    BY <1>1, <2>1
  <2> QED BY <2>2
<1>4. 0 \in S
  BY <1>2
<1>5. ASSUME NEW k \in Nat, k \in S PROVE k + 1 \in S
  <2> SUFFICES ASSUME k + 1 <= n, NEW x \in Nat \ {0}, NEW y \in Nat \ {0},
                      F[k + 1][x] = F[k + 1][y]
               PROVE  x = y
    OBVIOUS
  <2>1. k \in 0..(n - 1) /\ Injective(k)
    BY <1>5
  <2>2. F[k][2 * x - 1] = F[k][2 * y - 1]
    BY <1>3, <2>1
  <2>3. 2 * x - 1 \in Nat \ {0} /\ 2 * y - 1 \in Nat \ {0}
    OBVIOUS
  <2>4. 2 * x - 1 = 2 * y - 1
    BY <2>1, <2>2, <2>3
  <2> QED BY <2>4
<1>6. \A k \in 0..n : Injective(k)
  <2> HIDE DEF Injective
  <2>1. Nat \subseteq S
    BY <1>4, <1>5, SetInduction
  <2> QED BY <2>1
<1> QED
  BY <1>2, <1>3, <1>6 DEF F

\* What stands at a place of a level, by the level below it.
LEMMA PlaceOK ==
    ASSUME NEW X, NEW leaves \in Seq(X), leaves # <<>>,
           NEW k \in 0..(Len(leaves) - 1), NEW x \in 1..Widths(Len(leaves))[k + 1]
    PROVE  LET L == Levels(leaves)
               w == Widths(Len(leaves))[k] IN
           /\ x \in Nat \ {0} /\ 2 * x - 1 \in 1..w
           /\ 2 * x <= w => L[k + 1][x] = NodeHash(L[k][2 * x - 1], L[k][2 * x])
           /\ ~(2 * x <= w) => L[k + 1][x] = L[k][2 * x - 1]
<1> DEFINE n == Len(leaves)
           L == Levels(leaves)
           W == Widths(n)
<1>1. n \in Nat \ {0}
  OBVIOUS
<1>2. /\ \A j \in 0..n : DOMAIN L[j] = 1..W[j] /\ Len(L[j]) = W[j]
      /\ \A j \in 1..n : L[j] = Halve(L[j - 1])
  BY LevelsOK
<1>3. /\ \A j \in 0..n : W[j] \in Nat \ {0}
      /\ \A j \in 1..n : W[j] = (W[j - 1] + 1) \div 2
  BY <1>1, WidthsOK
<1>4. k \in 0..n /\ k + 1 \in 1..n /\ (k + 1) - 1 = k
  BY <1>1
<1> DEFINE w == W[k]
           level == L[k]
<1>5. /\ w \in Nat \ {0} /\ W[k + 1] = (w + 1) \div 2
      /\ DOMAIN level = 1..w /\ Len(level) = w /\ L[k + 1] = Halve(level)
  <2> HIDE DEF n, L, W
  <2> QED BY <1>2, <1>3, <1>4
<1>6. x \in 1..((w + 1) \div 2)
  BY <1>5
<1> HIDE DEF w, level
<1>7. Halve(level)[x] = IF 2 * x <= w THEN NodeHash(level[2*x - 1], level[2*x])
                        ELSE level[2*x - 1]
  BY <1>5, <1>6, HalveOK
<1>8. x \in Nat \ {0} /\ 2 * x - 1 \in 1..w
  BY <1>5, <1>6
<1> QED
  BY <1>5, <1>7, <1>8 DEF w, level

\* The leaves of a tree over different bodies.
DistinctLeaves(leaves) ==
    /\ \A x \in DOMAIN leaves : \E b : leaves[x] = LeafHash(b)
    /\ \A x, y \in DOMAIN leaves : leaves[x] = leaves[y] => x = y

\* The prefixes keep the hash of a leaf apart from that of a node.
LEMMA LeafIsNoNode ==
    ASSUME NEW b, NEW l, NEW r PROVE LeafHash(b) # NodeHash(l, r)
<1>1. LeafHash(b)[1] = "leaf" /\ NodeHash(l, r)[1] = "node"
  BY DEF LeafHash, NodeHash
<1> QED BY <1>1

\* Equal nodes, of whichever levels, begin with the same leaf.
LEMMA SameNode ==
    ASSUME NEW X, NEW leaves \in Seq(X), leaves # <<>>, DistinctLeaves(leaves)
    PROVE  LET n == Len(leaves) IN
           \A k, j \in 0..n : \A x \in 1..Widths(n)[k], y \in 1..Widths(n)[j] :
             Levels(leaves)[k][x] = Levels(leaves)[j][y] => Firsts(n)[k][x] = Firsts(n)[j][y]
<1> DEFINE n == Len(leaves)
           L == Levels(leaves)
           W == Widths(n)
           F == Firsts(n)
           Same(k, j) == \A x \in 1..W[k], y \in 1..W[j] :
                           L[k][x] = L[j][y] => F[k][x] = F[j][y]
           S == {m \in Nat : \A k, j \in 0..n : k + j <= m => Same(k, j)}
<1>0. n \in Nat \ {0}
  OBVIOUS
<1>1. L[0] = leaves /\ W[0] = n /\ DOMAIN leaves = 1..n
  BY <1>0, LevelsOK, WidthsOK
<1>2. /\ \A x \in Nat \ {0} : F[0][x] = x
      /\ \A k \in 0..(n - 1), x \in Nat \ {0} : F[k + 1][x] = F[k][2 * x - 1]
  BY <1>0, FirstsOK
<1>3. \A k \in 0..(n - 1) : \A x \in 1..W[k + 1] :
        /\ x \in Nat \ {0} /\ 2 * x - 1 \in 1..W[k]
        /\ 2 * x <= W[k] => L[k + 1][x] = NodeHash(L[k][2 * x - 1], L[k][2 * x])
        /\ ~(2 * x <= W[k]) => L[k + 1][x] = L[k][2 * x - 1]
  BY PlaceOK
<1> HIDE DEF n, L, W, F
<1>4. Same(0, 0)
  BY <1>0, <1>1, <1>2 DEF DistinctLeaves
<1>5. ASSUME NEW k \in 0..(n - 1), NEW j \in 0..n, NEW x \in 1..W[k + 1], NEW y \in 1..W[j],
             L[k + 1][x] = L[j][y], ~(2 * x <= W[k]), Same(k, j)
      PROVE  F[k + 1][x] = F[j][y]
  <2>1. x \in Nat \ {0} /\ 2 * x - 1 \in 1..W[k] /\ L[k + 1][x] = L[k][2 * x - 1]
    BY <1>3, <1>5
  <2>2. F[k][2 * x - 1] = F[j][y]
    BY <1>5, <2>1
  <2> QED BY <1>2, <2>1, <2>2
<1>6. ASSUME NEW k \in 0..(n - 1), NEW x \in 1..W[k + 1], NEW y \in 1..W[0],
             L[k + 1][x] = L[0][y]
      PROVE  ~(2 * x <= W[k])
  <2>1. \E b : L[0][y] = LeafHash(b)
    BY <1>1 DEF DistinctLeaves
  <2> QED BY <1>3, <1>6, <2>1, LeafIsNoNode
<1>7. ASSUME NEW k \in 0..(n - 1), NEW j \in 0..(n - 1),
             NEW x \in 1..W[k + 1], NEW y \in 1..W[j + 1],
             L[k + 1][x] = L[j + 1][y], 2 * x <= W[k], 2 * y <= W[j], Same(k, j)
      PROVE  F[k + 1][x] = F[j + 1][y]
  <2>1. /\ x \in Nat \ {0} /\ 2 * x - 1 \in 1..W[k]
        /\ y \in Nat \ {0} /\ 2 * y - 1 \in 1..W[j]
        /\ L[k + 1][x] = NodeHash(L[k][2 * x - 1], L[k][2 * x])
        /\ L[j + 1][y] = NodeHash(L[j][2 * y - 1], L[j][2 * y])
    BY <1>3, <1>7
  <2>2. L[k][2 * x - 1] = L[j][2 * y - 1]
    <3> DEFINE a == L[k][2 * x - 1]
               b == L[k][2 * x]
               c == L[j][2 * y - 1]
               d == L[j][2 * y]
    <3>1. L[k + 1][x] = NodeHash(a, b) /\ L[j + 1][y] = NodeHash(c, d)
      BY <2>1
    <3> HIDE DEF a, b, c, d
    <3>2. NodeHash(a, b) = NodeHash(c, d)
      BY <1>7, <3>1
    <3>3. a = c
      BY <3>2, NodeHashInjective
    <3> QED BY <3>3 DEF a, c
  <2>3. F[k][2 * x - 1] = F[j][2 * y - 1]
    BY <1>7, <2>1, <2>2
  <2> QED BY <1>2, <2>1, <2>3
<1>8. 0 \in S
  <2> HIDE DEF Same
  <2>1. \A k, j \in 0..n : k + j <= 0 => k = 0 /\ j = 0
    BY <1>0
  <2> QED BY <1>4, <2>1
<1>9. ASSUME NEW m \in Nat, m \in S PROVE m + 1 \in S
  <2> SUFFICES ASSUME NEW k \in 0..n, NEW j \in 0..n, k + j <= m + 1,
                      NEW x \in 1..W[k], NEW y \in 1..W[j], L[k][x] = L[j][y]
               PROVE  F[k][x] = F[j][y]
    OBVIOUS
  <2> HIDE DEF Same
  <2>0. \A a, b \in 0..n : a + b <= m => Same(a, b)
    BY <1>9
  <2> DEFINE a == k - 1
             b == j - 1
  <2>1. ASSUME k # 0 PROVE a \in 0..(n - 1) /\ a \in 0..n /\ k = a + 1 /\ Same(a, j)
    <3>1. a \in 0..(n - 1) /\ a \in 0..n /\ k = a + 1 /\ a + j <= m
      BY <1>0, <2>1
    <3> QED BY <2>0, <3>1
  <2>2. ASSUME j # 0 PROVE b \in 0..(n - 1) /\ b \in 0..n /\ j = b + 1 /\ Same(b, k)
    <3>1. b \in 0..(n - 1) /\ b \in 0..n /\ j = b + 1 /\ b + k <= m
      BY <1>0, <2>2
    <3> QED BY <2>0, <3>1
  <2>3. ASSUME k # 0, j # 0 PROVE Same(a, b)
    <3>1. a \in 0..n /\ b \in 0..n /\ a + b <= m
      BY <1>0, <2>3
    <3> QED BY <2>0, <3>1
  <2> HIDE DEF a, b
  <2>4. CASE k = 0 /\ j = 0
    BY <1>4, <2>4 DEF Same
  <2>5. CASE k # 0 /\ ~(2 * x <= W[a])
    BY <1>5, <2>1, <2>5
  <2>6. CASE j # 0 /\ ~(2 * y <= W[b])
    BY <1>5, <2>2, <2>6
  <2>7. CASE k # 0 /\ j # 0 /\ 2 * x <= W[a] /\ 2 * y <= W[b]
    BY <1>7, <2>1, <2>2, <2>3, <2>7
  <2>8. CASE k # 0 /\ j = 0 /\ 2 * x <= W[a]
    BY <1>6, <2>1, <2>8
  <2>9. CASE k = 0 /\ j # 0 /\ 2 * y <= W[b]
    BY <1>6, <2>2, <2>9
  <2> QED BY <2>4, <2>5, <2>6, <2>7, <2>8, <2>9, Zenon
<1>10. ASSUME NEW k \in 0..n, NEW j \in 0..n PROVE Same(k, j)
  <2> HIDE DEF Same
  <2>1. Nat \subseteq S
    BY <1>8, <1>9, SetInduction
  <2>2. k + j \in Nat /\ k + j <= k + j
    BY <1>0
  <2>3. k + j \in S
    BY <2>1, <2>2
  <2> QED BY <2>2, <2>3
<1> QED
  BY <1>10 DEF n, L, W, F

\* The nodes of a level are all different.
LEMMA NodesDiffer ==
    ASSUME NEW X, NEW leaves \in Seq(X), leaves # <<>>, DistinctLeaves(leaves),
           NEW k \in 0..Len(leaves), NEW x \in 1..Widths(Len(leaves))[k],
           NEW y \in 1..Widths(Len(leaves))[k], Levels(leaves)[k][x] = Levels(leaves)[k][y]
    PROVE  x = y
<1>1. Len(leaves) \in Nat \ {0}
  OBVIOUS
<1>2. Widths(Len(leaves))[k] \in Nat
  BY <1>1, WidthsOK
<1>3. x \in Nat \ {0} /\ y \in Nat \ {0}
  BY <1>2
<1>4. Firsts(Len(leaves))[k][x] = Firsts(Len(leaves))[k][y]
  BY SameNode
<1> QED
  BY <1>1, <1>3, <1>4, FirstsOK

\* A path that _inclusion_proof made for one leaf is accepted at no other index.
LEMMA ProofHasOneIndex ==
    ASSUME NEW X, NEW leaves \in Seq(X), leaves # <<>>, DistinctLeaves(leaves),
           NEW i \in 0..(Len(leaves) - 1), NEW j \in 0..(Len(leaves) - 1), NEW leaf,
           VerifyInclusion(leaf, i, Len(leaves), InclusionProof(leaves, j), MerkleRoot(leaves))
    PROVE  i = j
<1> SUFFICES ASSUME i # j PROVE FALSE
  OBVIOUS
<1> DEFINE n == Len(leaves)
           L == Levels(leaves)
           W == Widths(n)
           I == Indexes(i, n)
           J == Indexes(j, n)
           U == Used(i, n)
           V == Used(j, n)
           proof == InclusionProof(leaves, j)
           T == {m \in Nat : m <= n /\ I[n - m] # J[n - m]}
<1>0. n \in Nat \ {0} /\ i \in 0..(n - 1) /\ j \in 0..(n - 1)
  OBVIOUS
<1>1. W[n] = 1 /\ \A k \in 0..n : W[k] \in Nat \ {0}
  BY <1>0, WidthsOK
<1>2. /\ I[0] = i /\ J[0] = j
      /\ \A k \in 0..n : I[k] \in 0..(W[k] - 1) /\ J[k] \in 0..(W[k] - 1)
      /\ \A k \in 1..n : I[k] = I[k - 1] \div 2 /\ J[k] = J[k - 1] \div 2
  BY <1>0, IndexesOK
<1>3. /\ \A k \in 0..n : U[k] \in Nat /\ V[k] \in Nat
      /\ \A k \in 0..(n - 1) :
           /\ U[k + 1] = U[k] + (IF IsPaired(i, n, k) THEN 1 ELSE 0)
           /\ V[k + 1] = V[k] + (IF IsPaired(j, n, k) THEN 1 ELSE 0)
  BY <1>0, UsedOK
<1>4. U[n] = V[n]
  BY SiblingsOK DEF VerifyInclusion
<1>5. \A k \in 0..(n - 1) :
        /\ IsPaired(i, n, k) => proof[U[k + 1]] = Beside(leaves, i, k)
        /\ IsPaired(j, n, k) => proof[V[k + 1]] = Beside(leaves, j, k)
  BY AcceptedClimb, SiblingsOK
<1>6. \A k \in 0..n : \A x, y \in 1..W[k] : L[k][x] = L[k][y] => x = y
  BY NodesDiffer
<1>7. \A k \in 0..n :
        /\ IsRight(i, n, k) <=> I[k] % 2 = 1
        /\ IsRight(j, n, k) <=> J[k] % 2 = 1
        /\ IsPaired(i, n, k) <=> (I[k] % 2 = 1 \/ I[k] + 1 < W[k])
        /\ IsPaired(j, n, k) <=> (J[k] % 2 = 1 \/ J[k] + 1 < W[k])
        /\ Beside(leaves, i, k) = L[k][IF I[k] % 2 = 1 THEN I[k] ELSE I[k] + 2]
        /\ Beside(leaves, j, k) = L[k][IF J[k] % 2 = 1 THEN J[k] ELSE J[k] + 2]
  BY DEF IsRight, IsPaired, Beside
<1> HIDE DEF n, L, W, I, J, U, V, proof
\* The highest level on which the two indexes differ.
<1>8. PICK m \in T : \A z \in T : m <= z
  <2>1. n \in Nat /\ n <= n /\ n - n = 0
    BY <1>0
  <2>2. n \in T
    BY <1>2, <2>1
  <2>3. T # {} /\ T \subseteq Nat
    BY <2>2
  <2> HIDE DEF T
  <2> QED BY <2>3, LeastNatural
<1> DEFINE k == n - m
<1>9. m # 0 /\ k \in 0..(n - 1) /\ k \in 0..n /\ k + 1 \in 1..n /\ I[k] # J[k]
  <2>1. n \in 0..n /\ n - 0 = n
    BY <1>0
  <2>2. I[n] = 0 /\ J[n] = 0
    BY <1>1, <1>2, <2>1
  <2>3. m # 0
    BY <1>8, <2>1, <2>2
  <2> QED BY <1>0, <1>8, <2>3
<1>10. \A q \in (k + 1)..n : I[q] = J[q]
  <2> SUFFICES ASSUME NEW q \in (k + 1)..n, I[q] # J[q] PROVE FALSE
    OBVIOUS
  <2>1. n - q \in Nat /\ n - q <= n /\ n - (n - q) = q /\ n - q < m
    BY <1>0, <1>8, <1>9
  <2>2. n - q \in T
    BY <2>1
  <2>3. m <= n - q
    BY <1>8, <2>2
  <2> QED BY <1>0, <1>8, <2>1, <2>3
<1> HIDE DEF k
\* Above it the two climbs use the same entries.
<1>11. U[k + 1] = V[k + 1]
  <2> DEFINE S == {d \in Nat : (k + 1) + d <= n =>
                     U[(k + 1) + d] - V[(k + 1) + d] = U[k + 1] - V[k + 1]}
  <2>1. 0 \in S
    <3>1. (k + 1) + 0 = k + 1
      BY <1>9
    <3> QED BY <3>1
  <2>2. ASSUME NEW d \in Nat, d \in S PROVE d + 1 \in S
    <3> SUFFICES ASSUME (k + 1) + (d + 1) <= n
                 PROVE  U[(k + 1) + (d + 1)] - V[(k + 1) + (d + 1)] = U[k + 1] - V[k + 1]
      OBVIOUS
    <3> DEFINE q == (k + 1) + d
    <3>1. q \in (k + 1)..n /\ q \in 0..n /\ q \in 0..(n - 1) /\ q + 1 = (k + 1) + (d + 1)
      BY <1>0, <1>9
    <3>2. U[q] - V[q] = U[k + 1] - V[k + 1]
      BY <2>2, <3>1
    <3> HIDE DEF q
    <3>3. IsPaired(i, n, q) <=> IsPaired(j, n, q)
      BY <1>7, <1>10, <3>1
    <3>4. U[q] \in Nat /\ V[q] \in Nat /\ U[q + 1] - V[q + 1] = U[q] - V[q]
      <4> DEFINE u == U[q]
                 v == V[q]
      <4>1. /\ u \in Nat /\ v \in Nat
            /\ U[q + 1] = u + (IF IsPaired(i, n, q) THEN 1 ELSE 0)
            /\ V[q + 1] = v + (IF IsPaired(i, n, q) THEN 1 ELSE 0)
        BY <1>3, <3>1, <3>3
      <4> HIDE DEF u, v
      <4>2. U[q + 1] - V[q + 1] = u - v
        BY <4>1
      <4> QED BY <4>1, <4>2 DEF u, v
    <3> QED BY <3>1, <3>2, <3>4
  <2>3. Nat \subseteq S
    BY <2>1, <2>2, SetInduction
  <2>4. n - (k + 1) \in Nat /\ (k + 1) + (n - (k + 1)) = n /\ n <= n
    BY <1>0, <1>9
  <2>5. n - (k + 1) \in S
    BY <2>3, <2>4
  <2>6. U[n] - V[n] = U[k + 1] - V[k + 1]
    BY <2>4, <2>5
  <2>7. U[n] \in Nat /\ U[k + 1] \in Nat /\ V[k + 1] \in Nat
    BY <1>0, <1>3, <1>9
  <2> QED BY <1>4, <2>6, <2>7
\* On it they are at two siblings, each of which would be the other's entry.
<1> DEFINE x == I[k]
           y == J[k]
           w == W[k]
<1>12. /\ w \in Nat \ {0} /\ x \in 0..(w - 1) /\ y \in 0..(w - 1)
       /\ x # y /\ x \div 2 = y \div 2
  <2>1. k + 1 \in (k + 1)..n /\ (k + 1) - 1 = k
    BY <1>0, <1>9
  <2> QED BY <1>1, <1>2, <1>9, <1>10, <2>1
<1> DEFINE level == L[k]
<1>13. \A a, b \in 1..w : level[a] = level[b] => a = b
  BY <1>6, <1>9
<1>14. ASSUME x % 2 = 1 \/ x + 1 < w, y % 2 = 1 \/ y + 1 < w
       PROVE  level[IF x % 2 = 1 THEN x ELSE x + 2] = level[IF y % 2 = 1 THEN y ELSE y + 2]
  <2>1. proof[U[k + 1]] = Beside(leaves, i, k) /\ proof[V[k + 1]] = Beside(leaves, j, k)
    BY <1>5, <1>7, <1>9, <1>14
  <2>2. Beside(leaves, i, k) = Beside(leaves, j, k)
    BY <1>11, <2>1
  <2> QED BY <1>7, <1>9, <2>2
<1> HIDE DEF x, y, w, level
<1>15. CASE x = y + 1
  <2>1. x % 2 = 1 /\ y % 2 # 1 /\ y + 1 < w
    BY <1>12, <1>15
  <2>2. level[x] = level[y + 2]
    BY <1>14, <2>1
  <2>3. x \in 1..w /\ y + 2 \in 1..w /\ x # y + 2
    BY <1>12, <1>15, <2>1
  <2> QED BY <1>13, <2>2, <2>3
<1>16. CASE y = x + 1
  <2>1. y % 2 = 1 /\ x % 2 # 1 /\ x + 1 < w
    BY <1>12, <1>16
  <2>2. level[x + 2] = level[y]
    BY <1>14, <2>1
  <2>3. y \in 1..w /\ x + 2 \in 1..w /\ y # x + 2
    BY <1>12, <1>16, <2>1
  <2> QED BY <1>13, <2>2, <2>3
<1>17. x = y + 1 \/ y = x + 1
  BY <1>12
<1> QED BY <1>15, <1>16, <1>17

-----------------------------------------------------------------------------
(* Receipts *)

\* The hash of a leaf commits to its body.
LEMMA LeafHashInjective ==
    ASSUME NEW a, NEW b, LeafHash(a) = LeafHash(b)
    PROVE  a = b
  BY DEF LeafHash

\* The tree of a receipt: leaves over different bodies, with the receipt's
\* body at the receipt's index.
LEMMA ReceiptTree ==
    ASSUME TypeInv, SerialInv, NEW p \in Processes, Done(p)
    PROVE  LET leaves == Hashes(proc[p].rows) IN
           /\ \E X : leaves \in Seq(X)
           /\ leaves # <<>> /\ DistinctLeaves(leaves)
           /\ Len(leaves) = Len(proc[p].rows)
           /\ proc[p].index \in 0..(Len(leaves) - 1)
           /\ leaves[proc[p].index + 1] = LeafHash(proc[p].body)
           /\ \A i \in DOMAIN leaves : leaves[i] = LeafHash(proc[p].rows[i].body)
<1> DEFINE rows == proc[p].rows
           leaves == Hashes(rows)
           n == Len(rows)
           X == {LeafHash(b) : b \in Bodies}
<1>1. /\ rows \in Seq(Leaves) /\ log \in Seq(Leaves)
      /\ proc[p].index \in Nat /\ proc[p].index < n
  BY DEF TypeInv, TypeOK, Steps, Appends, Done
<1>2. /\ n <= Len(log) /\ \A i \in 1..n : rows[i] = log[i]
      /\ rows[proc[p].index + 1].body = proc[p].body
  BY DEF SerialInv, Fresh, Done
<1> HIDE DEF rows
<1>3. /\ n \in Nat /\ DOMAIN rows = 1..n
      /\ Len(log) \in Nat /\ DOMAIN log = 1..Len(log)
      /\ \A i \in 1..n : rows[i].body \in Bodies
  <2>1. n \in Nat /\ DOMAIN rows = 1..n /\ Len(log) \in Nat /\ DOMAIN log = 1..Len(log)
    BY <1>1
  <2>2. \A i \in 1..n : rows[i] \in Leaves
    BY <1>1
  <2>3. \A leaf \in Leaves : leaf.body \in Bodies
    BY DEF Leaves
  <2> QED BY <2>1, <2>2, <2>3
<1>4. leaves = [i \in 1..n |-> LeafHash(rows[i].body)]
  BY <1>3 DEF Hashes
<1> HIDE DEF n
<1>5. leaves \in Seq(X) /\ Len(leaves) = n
  BY <1>3, <1>4
<1>6. DistinctLeaves(leaves)
  <2>1. \A i, j \in 1..n : rows[i].body = rows[j].body => i = j
    BY <1>2, <1>3 DEF SerialInv, IndexIsPosition
  <2>2. ASSUME NEW i \in 1..n, NEW j \in 1..n, leaves[i] = leaves[j] PROVE i = j
    <3>1. LeafHash(rows[i].body) = LeafHash(rows[j].body)
      BY <1>4, <2>2
    <3>2. rows[i].body = rows[j].body
      BY <3>1, LeafHashInjective
    <3> QED BY <2>1, <3>2
  <2>3. DOMAIN leaves = 1..n /\ \A i \in 1..n : leaves[i] = LeafHash(rows[i].body)
    BY <1>4
  <2> HIDE DEF leaves
  <2> QED BY <2>2, <2>3 DEF DistinctLeaves
<1>7. leaves # <<>>
  BY <1>1, <1>3, <1>5
<1>8. proc[p].index \in 0..(n - 1) /\ proc[p].index + 1 \in 1..n
  BY <1>1, <1>3
<1>9. leaves[proc[p].index + 1] = LeafHash(proc[p].body)
  BY <1>2, <1>4, <1>8
<1>10. \A i \in DOMAIN leaves : leaves[i] = LeafHash(rows[i].body)
  BY <1>4
<1> HIDE DEF leaves
<1> QED
  BY <1>5, <1>6, <1>7, <1>8, <1>9, <1>10 DEF rows, leaves, n

\* When appends do not overlap, a receipt of append_hashedrekord is a proof,
\* for logs of every length and any number of processes: verify_external_anchor
\* accepts it for its leaf at its index, and its path for no other leaf and at
\* no other index.
THEOREM LogReceiptProves ==
    ASSUME Serialised PROVE Spec => []ReceiptProvesItsLeaf
<1>1. TypeInv /\ SerialInv => ReceiptProvesItsLeaf
  <2> SUFFICES ASSUME TypeInv, SerialInv, NEW p \in Processes, Done(p)
               PROVE  /\ Verifies(Receipt(p), proc[p].body)
                      /\ \A b \in Bodies, i \in 0..(Receipt(p).tree_size - 1) :
                           VerifyInclusion(LeafHash(b), i, Receipt(p).tree_size,
                                           Receipt(p).hashes, Receipt(p).root)
                             => b = proc[p].body /\ i = Receipt(p).log_index
    BY DEF ReceiptProvesItsLeaf, EveryReceiptVerifies, ReceiptProvesOneLeaf
  <2> DEFINE leaves == Hashes(proc[p].rows)
             j == proc[p].index
  <2>1. PICK X : leaves \in Seq(X)
    BY ReceiptTree
  <2>2. /\ leaves # <<>> /\ DistinctLeaves(leaves)
        /\ Len(leaves) = Len(proc[p].rows)
        /\ j \in 0..(Len(leaves) - 1)
        /\ leaves[j + 1] = LeafHash(proc[p].body)
    BY ReceiptTree
  <2>3. /\ Receipt(p).log_index = j /\ Receipt(p).leaf = leaves[j + 1]
        /\ Receipt(p).hashes = InclusionProof(leaves, j)
        /\ Receipt(p).tree_size = Len(leaves)
        /\ Receipt(p).root = MerkleRoot(leaves)
    BY <2>2 DEF Receipt, ReceiptOf
  <2> HIDE DEF leaves, j
  <2>4. Verifies(Receipt(p), proc[p].body)
    <3>1. VerifyInclusion(leaves[j + 1], j, Len(leaves), InclusionProof(leaves, j),
                          MerkleRoot(leaves))
      BY <2>1, <2>2, InclusionProofVerifies
    <3> QED BY <2>2, <2>3, <3>1 DEF Verifies
  <2>5. ASSUME NEW b \in Bodies, NEW i \in 0..(Len(leaves) - 1),
               VerifyInclusion(LeafHash(b), i, Len(leaves), InclusionProof(leaves, j),
                               MerkleRoot(leaves))
        PROVE  b = proc[p].body /\ i = j
    <3>1. LeafHash(b) = leaves[i + 1]
      BY <2>1, <2>5, AcceptedClimb
    <3>2. i = j
      BY <2>1, <2>2, <2>5, ProofHasOneIndex
    <3> QED BY <2>2, <3>1, <3>2, LeafHashInjective
  <2> QED BY <2>3, <2>4, <2>5
<1> QED BY <1>1, SerialInvHolds, TypeInvHolds, PTL

\* Overlapping appends may give two leaves one index, yet neither is answered with
\* a receipt that fails: whatever other processes do between the read and the
\* write, the receipt of a leaf that was just appended verifies.
THEOREM LogAppendedReceiptVerifies ==
    Spec => [][\A p \in Processes :
                 AppendLeaf(p) => Verifies(Receipt(p), proc[p].body)']_vars
<1>1. ASSUME TypeInv, TypeInv', NEW p \in Processes, AppendLeaf(p)
      PROVE  Verifies(Receipt(p), proc[p].body)'
  <2> DEFINE leaf == [index |-> proc[p].index, body |-> proc[p].body]
             rows == Append(proc[p].rows, leaf)
             leaves == Hashes(rows)
             n == Len(proc[p].rows)
             j == proc[p].index
             X == {LeafHash(b) : b \in Bodies}
  <2>1. /\ leaf \in Leaves /\ proc[p].body \in Bodies
        /\ proc[p].rows \in Seq(Leaves) /\ j = n
        /\ proc'[p].index = j /\ proc'[p].rows = rows /\ proc'[p].body = proc[p].body
    BY <1>1, AppendOK DEF TypeInv, Numbered, AppendLeaf, Appends
  <2>2. rows \in Seq(Leaves) /\ Len(rows) = n + 1 /\ n \in Nat /\ rows[n + 1] = leaf
    BY <2>1
  <2> HIDE DEF rows, n, leaf
  <2>3. DOMAIN rows = 1..(n + 1) /\ \A i \in 1..(n + 1) : rows[i].body \in Bodies
    <3>1. DOMAIN rows = 1..(n + 1) /\ \A i \in 1..(n + 1) : rows[i] \in Leaves
      BY <2>2
    <3>2. \A l \in Leaves : l.body \in Bodies
      BY DEF Leaves
    <3> QED BY <3>1, <3>2
  <2>4. leaves = [i \in 1..(n + 1) |-> LeafHash(rows[i].body)]
    BY <2>3 DEF Hashes
  <2>5. leaves \in Seq(X) /\ Len(leaves) = n + 1
    BY <2>2, <2>3, <2>4
  <2>6. leaves[j + 1] = LeafHash(proc[p].body) /\ j \in 0..(Len(leaves) - 1)
    BY <2>1, <2>2, <2>4, <2>5 DEF leaf
  <2> DEFINE receipt == ReceiptOf(rows, j)
  <2> HIDE DEF leaves, j, X
  <2>7. VerifyInclusion(leaves[j + 1], j, Len(leaves), InclusionProof(leaves, j),
                        MerkleRoot(leaves))
    BY <2>5, <2>6, InclusionProofVerifies
  <2>8. Verifies(receipt, proc[p].body)
    <3>1. /\ receipt.log_index = j /\ receipt.leaf = leaves[j + 1]
          /\ receipt.hashes = InclusionProof(leaves, j)
          /\ receipt.tree_size = Len(leaves)
          /\ receipt.root = MerkleRoot(leaves)
      BY <2>2, <2>5 DEF ReceiptOf, leaves
    <3> QED BY <2>6, <2>7, <3>1 DEF Verifies
  <2>9. Receipt(p)' = receipt /\ proc'[p].body = proc[p].body
    BY <2>1 DEF Receipt, j
  <2> QED BY <2>8, <2>9 DEF Verifies
<1>2. TypeInv /\ TypeInv' /\ [Next]_vars =>
        [\A p \in Processes : AppendLeaf(p) => Verifies(Receipt(p), proc[p].body)']_vars
  BY <1>1
<1> QED BY <1>2, TypeInvHolds, PTL DEF Spec
=============================================================================
