----------------------------- MODULE ChainNode -----------------------------
(* The Stacks node the API asks (external): blocks form a fixed tree, of   *)
(* which the node has stored a part and follows one branch.                *)
EXTENDS ChainData

VARIABLES
    chain,      \* the blocks of the branch it follows
    tip,        \* the last of them
    stored,     \* every block it has stored, those of other branches included
    synced      \* does it take itself to be in sync (is_fully_synced)?

node == <<chain, tip, stored, synced>>

NodeInit == chain = {Root} /\ tip = Root /\ stored = {Root} /\ synced = FALSE

\* The branches of the tree, each from the root to one of its blocks.
Branches ==
    {B \in SUBSET Blocks :
        /\ Root \in B
        /\ \A b \in B \ {Root} : Parent[b] \in B
        /\ \A x, y \in B : Height[x] = Height[y] => x = y}

BlocksAtHeight(h) == {b \in chain : Height[b] = h}

\* The node parses only an unprefixed index block hash.
BlocksById(h) ==
    {b \in stored : ~h.prefixed /\ h = RemoveHexPrefix(IndexBlockHash(b))}

\* GET /v2/accounts: the state at `tip`, or at the chain tip if it cannot
\* parse `tip`.
AccountStateAt(h) == IF h.prefixed THEN {tip} ELSE BlocksById(h)

\* A block arrives, on whichever branch.
Store(b) ==
    /\ b \notin stored /\ Parent[b] \in stored
    /\ stored' = stored \cup {b}
    /\ UNCHANGED <<chain, tip, synced>>

\* The node's branch becomes the one that ends in b: the branch it followed with a
\* block more, or another of which all the blocks had been stored before.
Follow(b) ==
    /\ b # tip
    /\ chain' \in {B \in Branches : /\ b \in B /\ B \subseteq stored
                                    /\ \A x \in B : Height[x] <= Height[b]}
    /\ tip' = b
    /\ UNCHANGED <<stored, synced>>

\* The node falls behind its peers or catches up with them.
Sync == synced' = ~synced /\ UNCHANGED <<chain, tip, stored>>
=============================================================================
