--------------------------- MODULE MCChainReads ---------------------------
(* A tree of two branches over a common root, for ChainReads:             *)
(*      r1 -- a2 -- a3                                                     *)
(*        \-- b2 -- b3                                                     *)
EXTENDS ChainReads

CONSTANTS r1, a2, a3, b2, b3, boot, t1

MCBlocks == {r1, a2, a3, b2, b3}
MCParent == [b \in MCBlocks |-> CASE b = r1 -> boot [] b \in {a2, b2} -> r1
                                  [] b = a3 -> a2 [] b = b3 -> b2]
MCHeight == [b \in MCBlocks |-> CASE b = r1 -> 1 [] b \in {a2, b2} -> 2
                                  [] b \in {a3, b3} -> 3]
\* A reorg moves t1 from a2 to b3.
MCTxsOf == [b \in MCBlocks |-> CASE b \in {a2, b3} -> {t1}
                                 [] OTHER -> {}]
MCTxs == {t1}
MCSubAccounts == {"undefined", "locked", "unheard-of"}
MCIndexes == 1..3
\* Both hashes of a block on each branch and of the root's parent, some of them
\* without prefix.
MCAskHashes ==
    [kind : Kinds, block : {a2}, prefixed : {FALSE}]
    \cup [kind : Kinds, block : {b3}, prefixed : {TRUE}]
    \cup [kind : {"index_block_hash"}, block : {boot}, prefixed : {TRUE}]
=============================================================================
