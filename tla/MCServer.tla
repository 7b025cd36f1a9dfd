------------------------------ MODULE MCServer ------------------------------
(* Mainnet, the testnet that has a name and one that has none; requests of *)
(* every kind, some of them for the wrong network.  Two clients, so that a *)
(* process that is told to stop may have two requests under way.           *)
EXTENDS Server

MCEnvironments ==
    {[mode |-> "online", chainId |-> NoId, node |-> node1] : node1 \in BOOLEAN}
    \cup {[mode |-> "offline", chainId |-> id, node |-> FALSE] : id \in {3, NoId}}

Request(to, network) == [to |-> to, network |-> network, valid |-> TRUE, block |-> "absent"]
\* One of the unimplemented, and of those that are refused alike.
Asked == {"derive", "payloads", "combine", "parse", "hash", "submit", "block", "transaction",
          "balance", "call", "mempool"}
MCPosts ==
    {NoPost}
    \cup {Request(to, network) : to \in {"status", "contract_payloads"}, network \in Networks}
    \cup {Request(to, "testnet") : to \in Asked}
    \cup {[Request("block", "testnet") EXCEPT !.block = "empty"],
          [Request("block", "none") EXCEPT !.valid = FALSE]}
=============================================================================
