--------------------------- MODULE TransparencyLog ---------------------------
(***************************************************************************)
(* The local append-only log in which exports are anchored                 *)
(* (trust_crypto/transparency.py): the identity that "amof trust tlog-init" *)
(* creates as three exclusive files, and the leaves that exports append.   *)
(* No lock protects the file of leaves: an append reads it, numbers its    *)
(* leaf by what it read, and writes with O_APPEND.                         *)
(***************************************************************************)
EXTENDS Merkle

CONSTANTS Bodies,      \* digests to be logged
          Processes,   \* amof processes
          None,
          Serialised   \* TRUE: no process reads or writes the leaves between
                       \* another's read and its append

ASSUME SerialisedIsBoolean == Serialised \in BOOLEAN
ASSUME NoneIsNoProcess == None \notin Processes

VARIABLES pub,   \* log-public.raw, by the process that generated the key
          priv,  \* log-private.raw, likewise
          meta,  \* log-meta.json exists
          log,   \* leaves.jsonl
          proc   \* what every process is doing

vars == <<pub, priv, meta, log, proc>>

Leaves == [index : Nat, body : Bodies]
Hashes(rows) == [i \in DOMAIN rows |-> LeafHash(rows[i].body)]

\* A process at rest or at a write of tlog-init, and one that appends.
Steps == [pc : {"idle", "pub", "priv", "meta"}]
Appends == [pc : {"append", "done"}, body : Bodies, rows : Seq(Leaves), index : Nat]

Idle == [pc |-> "idle"]
Become(p, step) == proc' = [proc EXCEPT ![p] = step]
Free(p) == Serialised => \A q \in Processes \ {p} : proc[q].pc # "append"

-----------------------------------------------------------------------------
(* init_transparency_log *)

InitBegin(p) ==
    /\ proc[p] = Idle
    /\ pub = None /\ priv = None /\ ~meta
    /\ Become(p, [pc |-> "pub"])
    /\ UNCHANGED <<pub, priv, meta, log>>

\* Mutant: the public key is written without O_EXCL.
WritePubOverwrites(p) ==
    /\ proc[p].pc = "pub"
    /\ pub' = p
    /\ Become(p, [pc |-> "priv"])
    /\ UNCHANGED <<priv, meta, log>>

\* write_bytes_exclusive raises when another process was faster.
WritePub(p) ==
    /\ proc[p].pc = "pub"
    /\ IF pub = None THEN pub' = p /\ Become(p, [pc |-> "priv"])
       ELSE Become(p, Idle) /\ UNCHANGED pub
    /\ UNCHANGED <<priv, meta, log>>

WritePriv(p) ==
    /\ proc[p].pc = "priv"
    /\ IF priv = None THEN priv' = p /\ Become(p, [pc |-> "meta"])
       ELSE Become(p, Idle) /\ UNCHANGED priv
    /\ UNCHANGED <<pub, meta, log>>

WriteMeta(p) ==
    /\ proc[p].pc = "meta"
    /\ meta' = TRUE
    /\ Become(p, Idle)
    /\ UNCHANGED <<pub, priv, log>>

-----------------------------------------------------------------------------
(* append_hashedrekord *)

\* The index stored in the first row with this body.
Existing(rows, b) ==
    {rows[i].index : i \in {j \in DOMAIN rows :
        rows[j].body = b /\ \A k \in 1..(j - 1) : rows[k].body # b}}

\* Mutant: a body that is already logged is appended again.
ReadLeavesAlwaysAppends(p, b) ==
    /\ proc[p] = Idle /\ Free(p)
    /\ pub # None /\ priv # None
    /\ Become(p, [pc |-> "append", body |-> b, rows |-> log, index |-> Len(log)])
    /\ UNCHANGED <<pub, priv, meta, log>>

\* Mutant: leaves are numbered from one.
ReadLeavesOffByOne(p, b) ==
    /\ proc[p] = Idle /\ Free(p)
    /\ pub # None /\ priv # None
    /\ \/ /\ Existing(log, b) = {}
          /\ Become(p, [pc |-> "append", body |-> b, rows |-> log, index |-> Len(log) + 1])
       \/ \E i \in Existing(log, b) :
            Become(p, [pc |-> "done", body |-> b, rows |-> log, index |-> i])
    /\ UNCHANGED <<pub, priv, meta, log>>

\* _require_log_identity, _read_leaves and the search for the body.
ReadLeaves(p, b) ==
    /\ proc[p] = Idle /\ Free(p)
    /\ pub # None /\ priv # None
    /\ \/ /\ Existing(log, b) = {}
          /\ Become(p, [pc |-> "append", body |-> b, rows |-> log, index |-> Len(log)])
       \/ \E i \in Existing(log, b) :
            Become(p, [pc |-> "done", body |-> b, rows |-> log, index |-> i])
    /\ UNCHANGED <<pub, priv, meta, log>>

\* The O_APPEND write; the rows are not read again.
AppendLeaf(p) ==
    LET leaf == [index |-> proc[p].index, body |-> proc[p].body] IN
    /\ proc[p].pc = "append" /\ Free(p)
    /\ log' = Append(log, leaf)
    /\ Become(p, [pc |-> "done", body |-> proc[p].body,
                  rows |-> Append(proc[p].rows, leaf), index |-> proc[p].index])
    /\ UNCHANGED <<pub, priv, meta>>

\* Mutant: the first leaf is left out of the tree that is signed.
ReceiptOfStale(rows, index) ==
    [log_index |-> index,
     leaf |-> Hashes(rows)[index + 1],
     hashes |-> InclusionProof(Hashes(rows), index),
     tree_size |-> Len(rows),
     root |-> MerkleRoot(Tail(Hashes(rows)))]

\* The receipt is computed from the rows the process holds; the file is not
\* read again.
ReceiptOf(rows, index) ==
    [log_index |-> index,
     leaf |-> Hashes(rows)[index + 1],
     hashes |-> InclusionProof(Hashes(rows), index),
     tree_size |-> Len(rows),
     root |-> MerkleRoot(Hashes(rows))]

\* verify_external_anchor of the package that holds the receipt.
Verifies(receipt, b) ==
    /\ receipt.leaf = LeafHash(b)
    /\ VerifyInclusion(LeafHash(b), receipt.log_index, receipt.tree_size,
                       receipt.hashes, receipt.root)

\* The receipt was written out, or the process was killed.  A process that is
\* not ended stands for a receipt that is kept.
End(p) ==
    /\ proc[p] # Idle
    /\ Become(p, Idle)
    /\ UNCHANGED <<pub, priv, meta, log>>

-----------------------------------------------------------------------------
Init ==
    /\ pub = None /\ priv = None /\ meta = FALSE
    /\ log = <<>>
    /\ proc = [p \in Processes |-> Idle]

Step(p) ==
    \/ InitBegin(p) \/ WritePub(p) \/ WritePriv(p) \/ WriteMeta(p)
    \/ \E b \in Bodies : ReadLeaves(p, b)
    \/ AppendLeaf(p) \/ End(p)

Next == \E p \in Processes : Step(p)

Spec == Init /\ [][Next]_vars

-----------------------------------------------------------------------------
(* Properties *)

Done(p) == proc[p].pc = "done"
Receipt(p) == ReceiptOf(proc[p].rows, proc[p].index)

\* Every file and every process has its type, and a leaf never has an index
\* beyond its place in the file, so that the receipt's lookup is in range.
TypeOK ==
    /\ pub \in Processes \cup {None} /\ priv \in Processes \cup {None}
    /\ meta \in BOOLEAN
    /\ log \in Seq(Leaves)
    /\ proc \in [Processes -> Steps \cup Appends]
    /\ \A i \in DOMAIN log : log[i].index < i
    /\ \A p \in Processes : Done(p) => proc[p].index < Len(proc[p].rows)

\* The keys of the log are the two halves of one key pair, whoever runs
\* tlog-init at the same time and wherever a process is killed: checkpoints
\* signed with the private key verify with the public one.
KeyPairMatches == priv # None => pub = priv

\* The file numbers its leaves without gaps or repetitions, and logs a body once.
IndexIsPosition ==
    /\ \A i \in DOMAIN log : log[i].index = i - 1
    /\ \A i, j \in DOMAIN log : log[i].body = log[j].body => i = j

\* The checkpoint of every receipt that was ever returned is a checkpoint of
\* the log as it is now: its root is that of the first tree_size leaves.
CheckpointsConsistent ==
    \A p \in Processes : Done(p) =>
      LET receipt == Receipt(p) IN
      /\ receipt.tree_size <= Len(log)
      /\ receipt.root = MerkleRoot(Hashes(SubSeq(log, 1, receipt.tree_size)))

\* verify_external_anchor accepts every receipt that append_hashedrekord
\* returns, for a new leaf and for one that was logged before.
EveryReceiptVerifies ==
    \A p \in Processes : Done(p) => Verifies(Receipt(p), proc[p].body)

\* The inclusion proof of a receipt proves one leaf at one index of its tree,
\* and nothing else.
ReceiptProvesOneLeaf ==
    \A p \in Processes : Done(p) =>
      LET receipt == Receipt(p) IN
      \A b \in Bodies, i \in 0..(receipt.tree_size - 1) :
        VerifyInclusion(LeafHash(b), i, receipt.tree_size, receipt.hashes, receipt.root)
          => b = proc[p].body /\ i = receipt.log_index

\* A returned receipt is a proof: it verifies for its leaf and for no other.
ReceiptProvesItsLeaf == EveryReceiptVerifies /\ ReceiptProvesOneLeaf
=============================================================================
