------------------------------ MODULE MCChain ------------------------------
(* ChainReadsConsistent on the tree of MCChainReads.                       *)
EXTENDS MCChainReads, ChainReadsConsistent

\* The node is in sync only while the client has no request, or one whose answer
\* says so: a block or a balance is the same either way.
SyncedForStatus == synced => \A c \in Clients : ask[c].op = "status"

\* While the only client looks at its answer the node stands still: whatever it
\* could do then it does after the client has left.
StillWhileAnswered == (\E c \in Clients : Answered(c)) => UNCHANGED node
=============================================================================
