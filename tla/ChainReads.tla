---------------------------- MODULE ChainReads ----------------------------
(***************************************************************************)
(* The Data API handlers that read the chain: /block, /block/transaction,  *)
(* /account/balance and /network/status.  Each handler is a sequence of    *)
(* awaited RPCs to a Stacks node, and the node keeps moving between them:  *)
(* it appends blocks and it reorganises.  One action is one awaited RPC    *)
(* together with the synchronous code that runs on its reply, up to the    *)
(* next await or the HTTP answer.                                          *)
(***************************************************************************)
EXTENDS ChainNode

VARIABLES
    \* the handlers' locals, per client
    stage,      \* the RPC being awaited, or "idle" / "answered"
    ask,        \* the request
    got,        \* the decoded or replayed block in hand
    nodeInfo,   \* the reply to /v2/info, from then on
    peers,      \* has the /v2/neighbors half of Promise.all settled?
    answer,     \* the HTTP answer
    \* history, for the properties only
    was,        \* blocks on the node's branch at some time since the request
    left        \* blocks off the node's branch at some time since the request

request == <<stage, ask, got, nodeInfo, peers, answer>>
vars    == <<node, request, was, left>>

Awaiting == {"byHeight", "byId", "replay", "parent", "info", "tipBlock",
             "neighbors", "account"}
Waiting(c) == stage[c] \in Awaiting

-----------------------------------------------------------------------------
(* The node moves; waiting requests keep the history.                      *)

NodeMoves ==
    /\ (\E b \in Blocks : Store(b) \/ Follow(b)) \/ Sync
    /\ was' = [c \in Clients |-> IF Waiting(c) THEN was[c] \cup chain' ELSE was[c]]
    /\ left' = [c \in Clients |->
                  IF Waiting(c) THEN left[c] \cup (Blocks \ chain') ELSE left[c]]
    /\ UNCHANGED request

-----------------------------------------------------------------------------
(* Steps every handler is made of.                                         *)

NoInfo == [height |-> 0, synced |-> FALSE]

\* The handler answers; its locals are gone.
Answer(c, a) ==
    /\ stage' = [stage EXCEPT ![c] = "answered"]
    /\ answer' = [answer EXCEPT ![c] = a]
    /\ got' = [got EXCEPT ![c] = NoBlock]
    /\ nodeInfo' = [nodeInfo EXCEPT ![c] = NoInfo]
    /\ peers' = [peers EXCEPT ![c] = FALSE]
    /\ UNCHANGED ask

\* The handler holds block b and awaits its next RPC.
Await(c, next, b) ==
    /\ stage' = [stage EXCEPT ![c] = next]
    /\ got' = [got EXCEPT ![c] = b]
    /\ UNCHANGED <<ask, nodeInfo, peers, answer>>

Throw(c, exception) == Answer(c, HandleMeshError(exception))

\* The RPC that a request's block identifier leads to.
FirstRpc(a) ==
    IF ~a.given THEN "info"
    ELSE IF a.index # NoIndex THEN "byHeight"
    ELSE IF a.op = "balance" THEN "byId" ELSE "replay"

\* A request arrives and runs to its first await.
Ask(c, a) ==
    /\ stage[c] = "idle"
    /\ ask' = [ask EXCEPT ![c] = a]
    /\ was' = [was EXCEPT ![c] = chain]
    /\ left' = [left EXCEPT ![c] = Blocks \ chain]
    /\ IF RejectedAtOnce(a) # "no"
       THEN /\ stage' = [stage EXCEPT ![c] = "answered"]
            /\ answer' = [answer EXCEPT ![c] = Error(RejectedAtOnce(a))]
       ELSE /\ stage' = [stage EXCEPT ![c] = FirstRpc(a)]
            /\ answer' = [answer EXCEPT ![c] = NoAnswer]
    /\ UNCHANGED <<node, got, nodeInfo, peers>>

\* The client has its answer and may ask again.
Leave(c) ==
    /\ stage[c] = "answered"
    /\ stage' = [stage EXCEPT ![c] = "idle"]
    /\ ask' = [ask EXCEPT ![c] = NoAsk]
    /\ answer' = [answer EXCEPT ![c] = NoAnswer]
    /\ was' = [was EXCEPT ![c] = {}]
    /\ left' = [left EXCEPT ![c] = {}]
    /\ UNCHANGED <<node, got, nodeInfo, peers>>

-----------------------------------------------------------------------------
(* resolveIndexBlockHash, on the reply to the height fetch: the index is    *)
(* authoritative and a hash given with it must name the same block.        *)

\* Mutant: an input hash is always compared with the index block hash.
HeaderHashAlwaysIndex(mode, b) == BlockHashOf("index_block_hash", b)
HeaderHashForMode(mode, b) == BlockHashOf(mode, b)

\* Mutant: the validation of the hash is forgotten.
HashNeverChecked(mode, h, b) == TRUE
HashMatches(mode, h, b) == AddHexPrefix(h) = AddHexPrefix(HeaderHashForMode(mode, b))

ByHeight(c) ==
    /\ stage[c] = "byHeight"
    /\ \/ /\ BlocksAtHeight(ask[c].index) = {}
          /\ Throw(c, "StacksRpcBlockNotFoundError")
       \/ \E b \in BlocksAtHeight(ask[c].index) :
            IF ask[c].hash # NoHash /\ ~HashMatches(ask[c].mode, ask[c].hash, b)
            THEN Throw(c, "StacksRpcInvalidBlockIdentifierError")
            ELSE Await(c, IF ask[c].op = "balance" THEN "account" ELSE "replay", b)
    /\ UNCHANGED <<node, was, left>>

\* The header of a block asked for by hash alone (/account/balance).
ById(c) ==
    /\ stage[c] = "byId"
    /\ \/ /\ BlocksById(RemoveHexPrefix(ask[c].hash)) = {}
          /\ Throw(c, "StacksRpcBlockNotFoundError")
       \/ \E b \in BlocksById(RemoveHexPrefix(ask[c].hash)) : Await(c, "account", b)
    /\ UNCHANGED <<node, was, left>>

-----------------------------------------------------------------------------
(* /block and /block/transaction: replay the block, then its parent's hash  *)
(* in block_hash mode.                                                     *)

\* The replay is fetched by the index hash that the height fetch resolved, or
\* by the hash of the request.
IndexHashInHand(c) ==
    IF got[c] # NoBlock THEN IndexBlockHash(got[c]) ELSE ask[c].hash

ParentIdentifier(b, hash) ==
    [index |-> IF Height[b] > 0 THEN Height[b] - 1 ELSE 0, hash |-> hash]
BlockAnswer(mode, b, parentHash) ==
    Ok(Identifier(mode, b), ParentIdentifier(b, parentHash), NoBlock, "none")

\* Mutant: the transaction is answered whether or not the block holds it.
FindsAnything(b, tx) == Ok(NoId, NoId, b, "none")
TransactionAnswer(b, tx) ==
    IF tx \in TxsOf[b] THEN Ok(NoId, NoId, b, "none")
    ELSE HandleMeshError("StacksRpcTransactionNotFoundError")

Replay(c) ==
    /\ stage[c] = "replay"
    /\ LET found == BlocksById(RemoveHexPrefix(IndexHashInHand(c)))
           q == ask[c]
       IN  \/ found = {} /\ Throw(c, "StacksRpcBlockNotFoundError")
           \/ \E b \in found :
                \/ /\ q.op = "transaction"
                   /\ Answer(c, TransactionAnswer(b, q.tx))
                \/ /\ q.op = "block" /\ q.mode = "block_hash"
                   /\ Await(c, "parent", b)
                \/ /\ q.op = "block" /\ q.mode = "index_block_hash"
                   /\ Answer(c, BlockAnswer(q.mode, b, IndexBlockHash(Parent[b])))
    /\ UNCHANGED <<node, was, left>>

\* Mutant: the parent is looked up by the height below the block.
ParentsByHeight(b) == BlocksAtHeight(Height[b] - 1)
ParentsFound(b) == BlocksById(RemoveHexPrefix(IndexBlockHash(Parent[b])))

\* A parent the node does not serve is displayed by its index block hash.
ParentHash(c) ==
    /\ stage[c] = "parent"
    /\ LET b == got[c]
           mode == ask[c].mode
       IN  \/ /\ ParentsFound(b) = {}
              /\ Answer(c, BlockAnswer(mode, b, IndexBlockHash(Parent[b])))
           \/ \E p \in ParentsFound(b) :
                Answer(c, BlockAnswer(mode, b, AddHexPrefix(BlockHashOf("block_hash", p))))
    /\ UNCHANGED <<node, was, left>>

-----------------------------------------------------------------------------
(* getChainTipNakamotoBlock: /v2/info, then the block at the height it gave *)
(* -- for /account/balance without a block, and for /network/status, where  *)
(* it runs beside GET /v2/neighbors under Promise.all.                      *)

\* Mutant: the tip height is one too high.
HeightAbove == [height |-> Height[tip] + 1, synced |-> synced]
\* Mutant: the tip height is one too low.
HeightBelow == [height |-> Height[tip] - 1, synced |-> synced]
\* What the handler keeps of the reply that /v2/info gives now.
KeptOfInfo == [height |-> Height[tip], synced |-> synced]

Info(c) ==
    /\ stage[c] = "info"
    /\ stage' = [stage EXCEPT ![c] = "tipBlock"]
    /\ nodeInfo' = [nodeInfo EXCEPT ![c] = KeptOfInfo]
    /\ UNCHANGED <<node, ask, got, peers, answer, was, left>>

\* The sync status was read before the block was.
StatusAnswer(mode, b, info) ==
    Ok(Identifier(mode, b), NoId, NoBlock, IF info.synced THEN "synced" ELSE "behind")

\* Mutant: the handler waits for the neighbors even when they came first.
AlwaysAwaitsNeighbors(c, b) ==
    IF ask[c].op = "balance" THEN Await(c, "account", b)
    ELSE Await(c, "neighbors", b)
WithTipBlock(c, b) ==
    IF ask[c].op = "balance" THEN Await(c, "account", b)
    ELSE IF peers[c] THEN Answer(c, StatusAnswer(ask[c].mode, b, nodeInfo[c]))
    ELSE Await(c, "neighbors", b)

\* Here a 404 is not translated: it is answered as an internal error.
TipBlock(c) ==
    /\ stage[c] = "tipBlock"
    /\ \/ BlocksAtHeight(nodeInfo[c].height) = {} /\ Throw(c, "CoreRpcError")
       \/ \E b \in BlocksAtHeight(nodeInfo[c].height) : WithTipBlock(c, b)
    /\ UNCHANGED <<node, was, left>>

AwaitsNeighbors(c) ==
    /\ stage[c] \in {"info", "tipBlock", "neighbors"}
    /\ ask[c].op = "status" /\ ~peers[c]

Neighbors(c) ==
    /\ AwaitsNeighbors(c)
    /\ IF stage[c] = "neighbors"
       THEN Answer(c, StatusAnswer(ask[c].mode, got[c], nodeInfo[c]))
       ELSE /\ peers' = [peers EXCEPT ![c] = TRUE]
            /\ UNCHANGED <<stage, ask, got, nodeInfo, answer>>
    /\ UNCHANGED <<node, was, left>>

-----------------------------------------------------------------------------
(* /account/balance, once the block is in hand.                             *)

\* Mutant: the tip parameter keeps its 0x prefix.
TipKeepsPrefix(b) == AddHexPrefix(IndexBlockHash(b))
TipParameter(b) == RemoveHexPrefix(AddHexPrefix(IndexBlockHash(b)))

Account(c) ==
    /\ stage[c] = "account"
    /\ LET figure == SubAccountReading(ask[c].sub)
           states == AccountStateAt(TipParameter(got[c]))
       IN  \/ states = {} /\ Throw(c, "CoreRpcError")
           \/ states # {} /\ figure = "invalid" /\ Answer(c, Error("invalidSubAccount"))
           \/ \E b \in states :
                /\ figure # "invalid"
                /\ Answer(c, Ok(Identifier(ask[c].mode, got[c]), NoId, b, figure))
    /\ UNCHANGED <<node, was, left>>

-----------------------------------------------------------------------------
\* Any RPC may fail otherwise: a 5xx, a connection error, a timeout.
RpcFails(c) ==
    /\ stage[c] \in Awaiting
    /\ stage[c] = "neighbors" => AwaitsNeighbors(c)
    /\ Throw(c, "CoreRpcError")
    /\ UNCHANGED <<node, was, left>>

Handle(c) ==
    \/ ByHeight(c) \/ ById(c) \/ Replay(c) \/ ParentHash(c)
    \/ Info(c) \/ TipBlock(c) \/ Neighbors(c) \/ Account(c)
    \/ RpcFails(c)

Init ==
    /\ NodeInit
    /\ stage = [c \in Clients |-> "idle"]
    /\ ask = [c \in Clients |-> NoAsk]
    /\ got = [c \in Clients |-> NoBlock]
    /\ nodeInfo = [c \in Clients |-> NoInfo]
    /\ peers = [c \in Clients |-> FALSE]
    /\ answer = [c \in Clients |-> NoAnswer]
    /\ was = [c \in Clients |-> {}]
    /\ left = [c \in Clients |-> {}]

Next ==
    \/ NodeMoves
    \/ \E c \in Clients : stage[c] = "idle" /\ \E a \in Requests : Ask(c, a)
    \/ \E c \in Clients : Handle(c) \/ Leave(c)

Spec == Init /\ [][Next]_vars

\* Every RPC settles: with a reply or, at the latest, with the HTTP client's
\* timeout.  Nothing is assumed of the chain or of the clients.
FairSpec == Spec /\ \A c \in Clients : WF_vars(Handle(c))

-----------------------------------------------------------------------------
(* Properties.                                                             *)

TypeOK ==
    /\ chain \subseteq stored /\ stored \subseteq Blocks /\ tip \in chain
    /\ synced \in BOOLEAN
    /\ stage \in [Clients -> Awaiting \cup {"idle", "answered"}]
    /\ ask \in [Clients -> Asks]
    /\ got \in [Clients -> Blocks \cup {NoBlock}]
    /\ nodeInfo \in [Clients -> [height : Nat, synced : BOOLEAN]]
    /\ peers \in [Clients -> BOOLEAN]
    /\ answer \in [Clients -> Oks \cup Errors \cup {NoAnswer}]
    /\ was \in [Clients -> SUBSET Blocks]
    /\ left \in [Clients -> SUBSET Blocks]

Answered(c) == stage[c] = "answered"
AnsweredOk(c) == Answered(c) /\ answer[c].ok

\* Does request a name block b, in the way the display mode allows?
Names(a, b) ==
    /\ a.given
    /\ a.index # NoIndex => a.index = Height[b]
    /\ a.hash # NoHash => AddHexPrefix(a.hash) = SelectDisplayBlockHash(a.mode, b)
    /\ a.index # NoIndex \/ (a.hash # NoHash /\ a.mode = "index_block_hash")

\* Is answer r to request a about block b?  /block/transaction does not name the
\* block that it tells of.
About(a, r, b) ==
    IF a.op = "transaction" THEN r.state = b ELSE r.id = Identifier(a.mode, b)

\* The balance that /account/balance reports was read in the state of the very
\* block it reports, whatever the chain did between the RPCs and whichever hash
\* is displayed; and that state is there to be read, whichever hash is displayed.
BalanceIsOfReportedBlock ==
    \A c \in Clients :
        /\ AnsweredOk(c) /\ ask[c].op = "balance" =>
             answer[c].id = Identifier(ask[c].mode, answer[c].state)
        /\ stage[c] = "account" => AccountStateAt(TipParameter(got[c])) = {got[c]}

\* A successful answer is about a block the request named, or, if it named none,
\* about one that was on the node's branch at some time since the request; a
\* block named by its index was on the branch at some time since the request.
AnswersTheBlockAsked ==
    \A c \in Clients : AnsweredOk(c) =>
        \E b \in Blocks :
            /\ About(ask[c], answer[c], b)
            /\ ask[c].given => Names(ask[c], b)
            /\ ~ask[c].given \/ ask[c].index # NoIndex => b \in was[c]

\* The parent in a /block answer is the true parent of the answered block, even
\* if a reorg replaced it between the two RPCs of block_hash mode; only a parent
\* the node does not serve is displayed by the other hash.
ParentIsLinked ==
    \A c \in Clients : AnsweredOk(c) /\ ask[c].op = "block" =>
        \E b \in Blocks :
            /\ answer[c].id = Identifier(ask[c].mode, b)
            /\ answer[c].parent.index = Height[b] - 1
            /\ answer[c].parent.hash =
                 BlockHashOf(IF Parent[b] \in stored THEN ask[c].mode ELSE "index_block_hash",
                             Parent[b])

\* A request that names a block properly is refused (BLOCK_NOT_FOUND or
\* INVALID_BLOCK_IDENTIFIER) only for cause: with an index, only if that block was
\* off the node's branch at some time since the request; by its hash alone, only
\* if it was not on the branch at any time since the request.
RefusalsHaveCause ==
    \A c \in Clients, b \in Blocks :
        /\ Answered(c) /\ ~answer[c].ok
        /\ answer[c].code \in {"blockNotFound", "invalidBlockIdentifier"}
        /\ Names(ask[c], b)
        => IF ask[c].index # NoIndex THEN b \in left[c] ELSE b \notin was[c]

\* TRANSACTION_NOT_FOUND and a found transaction both tell the truth about a
\* block the request named: when a reorg moves a transaction between two blocks
\* of one height, the answer goes with the block it was read from.
TransactionFollowsBlock ==
    \A c \in Clients : Answered(c) /\ ask[c].op = "transaction" =>
        /\ answer[c].ok => Names(ask[c], answer[c].state) /\ ask[c].tx \in TxsOf[answer[c].state]
        /\ ~answer[c].ok /\ answer[c].code = "transactionNotFound" =>
             \E b \in Blocks : Names(ask[c], b) /\ ask[c].tx \notin TxsOf[b]

\* The chain-tip lookup misses (a 404 turned into an internal error) only if
\* the branch got shorter between its two RPCs: some block at the height that
\* /v2/info gave was on the branch since the request and left it again.
TipMissNeedsReorg ==
    \A c \in Clients :
        stage[c] = "tipBlock" /\ BlocksAtHeight(nodeInfo[c].height) = {} =>
            \E b \in was[c] \cap left[c] : Height[b] = nodeInfo[c].height

\* Every request is answered, however often the chain moves meanwhile.
EveryRequestIsAnswered == \A c \in Clients : Waiting(c) ~> Answered(c)
=============================================================================
