----------------------------- MODULE ChainData -----------------------------
(***************************************************************************)
(* The vocabulary of the Data API's reads: the tree of blocks, requests,   *)
(* hash strings, block identifiers and answers.                            *)
(***************************************************************************)
EXTENDS Naturals, MeshErrors

CONSTANTS
    Blocks,      \* every block the node may come to store
    Root,        \* the first block its /v3/blocks endpoints serve
    Boot,        \* what Root names as its parent; the node does not serve it
    Parent,      \* Parent[b]: the parent of block b
    Height,      \* Height[b]: the chain length at b
    TxsOf,       \* TxsOf[b]: the ids of the transactions of b
    Txs,         \* the transaction ids clients ask for
    SubAccounts, \* the sub-account names clients ask for; "undefined" is none
    Indexes,     \* the block indexes clients ask for
    AskHashes,   \* the block hash strings clients ask for
    Clients,     \* concurrent HTTP requests, one per client at a time
    NoBlock, NoHash, NoId, NoAnswer, NoTx

Kinds == {"index_block_hash", "block_hash"}
Hashes == [kind : Kinds, block : Blocks \cup {Boot}, prefixed : BOOLEAN]
NoIndex == 0

ASSUME TreeAssumption ==
    /\ Root \in Blocks /\ Boot \notin Blocks /\ Parent[Root] = Boot
    /\ Parent \in [Blocks -> Blocks \cup {Boot}]
    /\ Height \in [Blocks -> Nat \ {0}]
    /\ \A b \in Blocks \ {Root} :
          Parent[b] \in Blocks /\ Height[b] = Height[Parent[b]] + 1
ASSUME AskAssumption ==
    /\ Indexes \subseteq Nat \ {0}
    /\ AskHashes \subseteq Hashes
    /\ TxsOf \in [Blocks -> SUBSET Txs]
    /\ "undefined" \in SubAccounts
ASSUME AbsentAssumption ==
    /\ NoBlock \notin Blocks /\ NoHash \notin Hashes /\ NoTx \notin Txs
    /\ NoId \notin [index : Nat, hash : Hashes]

-----------------------------------------------------------------------------
(* Requests.  "given" tells a request without block_identifier from one    *)
(* whose block_identifier is an empty object; "mode" is the BLOCK_HASH_MODE *)
(* of the server that the request is made to: servers of either mode stand  *)
(* beside one node.                                                        *)

Ops == {"block", "transaction", "balance", "status"}
Asks == [op : Ops, given : BOOLEAN, index : Indexes \cup {NoIndex},
         hash : AskHashes \cup {NoHash}, tx : Txs \cup {NoTx},
         sub : SubAccounts, mode : Kinds]
\* The request schemas: which fields each endpoint requires or has.
WellFormed(a) ==
    /\ ~a.given => a.index = NoIndex /\ a.hash = NoHash
    /\ a.op \in {"block", "transaction"} => a.given
    /\ a.op = "status" => ~a.given
    /\ (a.tx # NoTx) <=> a.op = "transaction"
    /\ a.op # "balance" => a.sub = "undefined"
Requests == {a \in Asks : WellFormed(a)}
NoAsk == [op |-> "status", given |-> FALSE, index |-> NoIndex,
          hash |-> NoHash, tx |-> NoTx, sub |-> "undefined", mode |-> "index_block_hash"]

-----------------------------------------------------------------------------
(* Hash strings and identifiers.                                           *)

AddHexPrefix(h)    == [kind |-> h.kind, block |-> h.block, prefixed |-> TRUE]
RemoveHexPrefix(h) == [kind |-> h.kind, block |-> h.block, prefixed |-> FALSE]

\* A hash of block b as the codec and the replay hand it over.
BlockHashOf(kind, b) == [kind |-> kind, block |-> b, prefixed |-> TRUE]
IndexBlockHash(b)    == BlockHashOf("index_block_hash", b)

SelectDisplayBlockHash(mode, b) == BlockHashOf(mode, b)

Identifier(mode, b) ==
    [index |-> Height[b], hash |-> AddHexPrefix(SelectDisplayBlockHash(mode, b))]
Identifiers == [index : Nat, hash : Hashes]

\* Mutant: a sub-account nobody knows is read like any other.
UnknownIsRead(sub) ==
    CASE sub \in {"undefined", "SpendableBalance"} -> "liquid"
      [] sub \in {"StackedBalance", "locked"} -> "locked"
      [] sub \in {"VestingLockedBalance", "VestingUnlockedBalance"} -> "zero"
      [] OTHER -> "undefined"
SubAccountReading(sub) ==
    CASE sub \in {"undefined", "SpendableBalance"} -> "liquid"
      [] sub \in {"StackedBalance", "locked"} -> "locked"
      [] sub \in {"VestingLockedBalance", "VestingUnlockedBalance"} -> "zero"
      [] OTHER -> "invalid"

\* A 200 answer: the block it says it is about and that block's parent (in
\* /block), the block that what it reports was read from (in /account/balance and,
\* though the answer does not say it, in /block/transaction), and what it reports:
\* a balance, or whether the node was in sync (in /network/status).
Ok(id, parent, state, figure) ==
    [ok |-> TRUE, id |-> id, parent |-> parent, state |-> state, figure |-> figure]
Figures == {"none", "liquid", "locked", "zero", "synced", "behind"}
Oks == [ok : {TRUE}, id : Identifiers \cup {NoId}, parent : Identifiers \cup {NoId},
        state : Blocks \cup {NoBlock}, figure : Figures]

-----------------------------------------------------------------------------
\* Requests that are refused before the node is asked anything.
RejectedAtOnce(a) ==
    CASE a.given /\ a.index = NoIndex /\ a.hash = NoHash -> "blockIdentifierRequired"
      [] a.given /\ a.index = NoIndex /\ a.hash # NoHash /\ a.mode = "block_hash"
            -> "invalidBlockIdentifier"
      [] OTHER -> "no"
=============================================================================
