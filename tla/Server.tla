------------------------------- MODULE Server -------------------------------
(***************************************************************************)
(* The life of the server process: it reads its environment, in online     *)
(* mode waits for its Stacks node, takes the network over from it, serves  *)
(* the routes of its mode and shuts down.  A request passes the route,     *)
(* the schema, the network and the block identifier before its handler     *)
(* runs.  What the handlers do with the node is the subject of other       *)
(* modules: here each awaits one reply, or answers at once, and may refuse *)
(* with any of the errors that its code has.                               *)
(*                                                                         *)
(* External: the node, the operator who starts and stops the process, and  *)
(* the HTTP clients.                                                       *)
(***************************************************************************)
EXTENDS MeshErrors

CONSTANTS
    Clients,      \* concurrent HTTP requests, one per client at a time
    ChainIds,     \* chain ids of Stacks networks
    Mainnet, CanonicalTestnet,  \* the two that have a name
    Environments, \* what the process may be started with
    Posts,        \* the requests clients make
    NoId, NoConfig, NoReply

Networks == {"mainnet", "testnet"}
OfflineSafe == {"list", "options", "derive", "preprocess", "payloads",
                "contract_payloads", "combine", "parse", "hash"}
NodeBacked == {"status", "metadata", "submit"}
Unimplemented == {"coins", "mempool", "mempool_transaction"}
DataApi == {"block", "transaction", "balance", "call"} \cup Unimplemented
Endpoints == OfflineSafe \cup NodeBacked \cup DataApi

\* A request: where to, for which network ("none" without network_identifier),
\* whether it has the fields its schema requires, its block_identifier.
AllPosts == [to : Endpoints, network : Networks \cup {"none"}, valid : BOOLEAN,
             block : {"absent", "empty", "named"}]
NoPost == [to |-> "list", network |-> "none", valid |-> TRUE, block |-> "absent"]

ASSUME IdAssumption ==
    /\ {Mainnet, CanonicalTestnet} \subseteq ChainIds /\ Mainnet # CanonicalTestnet
    /\ NoId \notin ChainIds
ASSUME EnvironmentAssumption ==
    Environments \subseteq [mode : {"online", "offline"}, chainId : ChainIds \cup {NoId},
                            node : BOOLEAN]
ASSUME PostAssumption ==
    /\ Posts \subseteq AllPosts
    /\ \A a \in Posts : a.network = "none" /\ a.valid => a.to = "list"

VARIABLES
    env,      \* the environment of the process
    phase,    \* "starting", "asking", "pausing", "configured", "listening",
              \* "closing", "stopped", "failed"
    config,   \* ApiConfig: mode, network label, chain id for signing
    \* the node
    up,       \* does it answer?
    nodeId,   \* its chain id
    \* requests, per client
    stage,    \* "idle", "asked" (a reply of the node is awaited), "answered"
    ask, reply,
    \* history
    seen      \* chain ids the node had since the process has its configuration

process == <<env, phase, config>>
node    == <<up, nodeId>>
request == <<stage, ask, reply>>
vars    == <<process, node, request, seen>>

Configs == [mode : {"online", "offline"}, label : Networks, chainId : ChainIds]
ASSUME ConfigAssumption == NoConfig \notin Configs

NotFound == [ok |-> FALSE, code |-> "404", retriable |-> FALSE]
Oks == [ok : {TRUE}, chain : ChainIds]
\* An answer with what is so on a chain.
Ok(chain) == [ok |-> TRUE, chain |-> chain]

-----------------------------------------------------------------------------
(* Boot.                                                                   *)

\* Mutant: only the testnet that has a name is one.
CanonicalTestnetOnly(id) == IF id = CanonicalTestnet THEN "testnet" ELSE "mainnet"
getStacksNetworkName(id) == IF id = Mainnet THEN "mainnet" ELSE "testnet"

\* Mutant: the chain id of the network's constant is kept.
ChainIdOfLabel(label, id) == IF label = "mainnet" THEN Mainnet ELSE CanonicalTestnet
\* The chain id that transactions are built for.
buildStacksNetwork(label, id) == id

Configure(mode, id) ==
    /\ phase' = "configured"
    /\ config' = [mode |-> mode, label |-> getStacksNetworkName(id),
                  chainId |-> buildStacksNetwork(getStacksNetworkName(id), id)]
    /\ seen' = {id}

\* process.exit(1)
Fail == phase' = "failed" /\ UNCHANGED <<config, seen>>

\* Mutant: offline, a process starts without a chain id, too.
StartsWithoutChainId ==
    /\ phase = "starting"
    /\ CASE env.mode = "offline" -> Configure("offline", env.chainId)
         [] env.mode = "online" /\ ~env.node -> Fail
         [] env.mode = "online" /\ env.node -> phase' = "asking" /\ UNCHANGED <<config, seen>>
    /\ UNCHANGED <<env, node, request>>
Start ==
    /\ phase = "starting"
    /\ CASE env.mode = "offline" /\ env.chainId = NoId -> Fail
         [] env.mode = "offline" /\ env.chainId # NoId -> Configure("offline", env.chainId)
         [] env.mode = "online" /\ ~env.node -> Fail
         [] env.mode = "online" /\ env.node -> phase' = "asking" /\ UNCHANGED <<config, seen>>
    /\ UNCHANGED <<env, node, request>>

\* waitForNodeReady: GET /v2/info answers.
NodeReady ==
    /\ phase = "asking" /\ up
    /\ Configure("online", nodeId)
    /\ UNCHANGED <<env, node, request>>

\* Mutant: the first failure is final.
GivesUp == phase = "asking" /\ ~up /\ Fail /\ UNCHANGED <<env, node, request>>
\* GET /v2/info fails: wait a second.
NodeNotReady ==
    /\ phase = "asking" /\ ~up
    /\ phase' = "pausing"
    /\ UNCHANGED <<env, config, node, request, seen>>

Retry ==
    /\ phase = "pausing"
    /\ phase' = "asking"
    /\ UNCHANGED <<env, config, node, request, seen>>

Listen ==
    /\ phase = "configured"
    /\ phase' \in {"listening", "failed"}
    /\ UNCHANGED <<env, config, node, request, seen>>

-----------------------------------------------------------------------------
(* Shutdown, and the next start.                                           *)

\* A process that listens closes its server; before that there is nothing to close.
Signal ==
    /\ phase \in {"asking", "pausing", "configured", "listening"}
    /\ phase' = IF phase = "listening" THEN "closing" ELSE "stopped"
    /\ UNCHANGED <<env, config, node, request, seen>>

InFlight == {c \in Clients : stage[c] = "asked"}

\* Mutant: the server is closed over its running requests.
CloseAtOnce ==
    /\ phase = "closing"
    /\ phase' = "stopped"
    /\ UNCHANGED <<env, config, node, request, seen>>
\* apiServer.close() waits for them.
Close ==
    /\ phase = "closing" /\ InFlight = {}
    /\ phase' = "stopped"
    /\ UNCHANGED <<env, config, node, request, seen>>

\* The operator starts a process again.
Restart ==
    /\ phase \in {"stopped", "failed"}
    /\ \E e \in Environments : env' = e
    /\ phase' = "starting" /\ config' = NoConfig
    /\ stage' = [c \in Clients |-> "idle"]
    /\ ask' = [c \in Clients |-> NoPost]
    /\ reply' = [c \in Clients |-> NoReply]
    /\ seen' = {}
    /\ UNCHANGED <<node>>

-----------------------------------------------------------------------------
(* The way of a request to its handler.                                    *)

Registered(mode) ==
    OfflineSafe \cup IF mode = "online" THEN NodeBacked \cup DataApi ELSE {}

validateNetwork(network) == network \in {config.label, "none"}

\* What the hooks before the handler refuse a request with: the schema of its body,
\* then preHandler.
Screened(a) ==
    CASE ~a.valid -> {HandleMeshError("validation")}
      [] a.valid /\ ~validateNetwork(a.network) -> {Error("networkNotSupported")}
      [] a.valid /\ validateNetwork(a.network) /\ a.block = "empty" ->
            {Error("blockIdentifierRequired")}
      [] OTHER -> {}

\* What a handler may refuse a request with before it awaits anything.
RefusedAtOnce(to) ==
    CASE to \in Unimplemented -> {Error("notImplemented")}
      [] to = "derive" -> {Error("invalidPublicKey")}
      [] to \in {"preprocess", "parse"} -> {Error("invalidTransaction")}
      [] to \in {"payloads", "contract_payloads"} ->
            {Error("invalidTransaction"), Error("invalidPublicKey"), HandleMeshError("Error")}
      [] to = "combine" ->
            {Error("invalidSignature"), Error("notImplemented"), HandleMeshError("Error")}
      [] to = "hash" -> {HandleMeshError("Error")}
      [] OTHER -> {}

\* Whose handlers await a reply; contract payloads do because the transaction
\* builder looks the nonce up at a node of its own, and parse for the ABI of a call.
Awaits(to) ==
    \/ to \in (NodeBacked \cup DataApi \cup {"contract_payloads"}) \ Unimplemented
    \/ to = "parse" /\ config.mode = "online"

\* What a request may be answered at once.
AtOnce(a) ==
    IF a.to \notin Registered(config.mode) THEN {NotFound}
    ELSE IF Screened(a) # {} THEN Screened(a)
    ELSE RefusedAtOnce(a.to)
         \cup IF Awaits(a.to) \/ a.to \in Unimplemented THEN {} ELSE {Ok(config.chainId)}

Post(c, a) ==
    /\ phase = "listening" /\ stage[c] = "idle"
    /\ ask' = [ask EXCEPT ![c] = a]
    /\ \/ /\ a.to \in Registered(config.mode) /\ Screened(a) = {} /\ Awaits(a.to)
          /\ stage' = [stage EXCEPT ![c] = "asked"]
          /\ UNCHANGED reply
       \/ /\ \E r \in AtOnce(a) : reply' = [reply EXCEPT ![c] = r]
          /\ stage' = [stage EXCEPT ![c] = "answered"]
    /\ UNCHANGED <<process, node, seen>>

Answer(c, r) ==
    /\ stage' = [stage EXCEPT ![c] = "answered"]
    /\ reply' = [reply EXCEPT ![c] = r]
    /\ UNCHANGED <<process, node, ask, seen>>

\* The nonce of contract payloads comes from the builder's own node.
NodeReplies(c) ==
    /\ stage[c] = "asked" /\ phase \in {"listening", "closing"}
    /\ IF ask[c].to \in {"contract_payloads", "parse"} THEN Answer(c, Ok(config.chainId))
       ELSE up /\ Answer(c, Ok(nodeId))

\* The exceptions that a handler's awaited calls end in.
Exceptions(to) ==
    CASE to \in {"block", "balance"} ->
            {"StacksRpcBlockNotFoundError", "StacksRpcInvalidBlockIdentifierError", "Error"}
      [] to = "transaction" ->
            {"StacksRpcBlockNotFoundError", "StacksRpcInvalidBlockIdentifierError",
             "StacksRpcTransactionNotFoundError", "Error"}
      [] to = "call" -> {"StacksRpcSmartContractError", "Error"}
      [] OTHER -> {"Error"}

\* What it answers then: submit and parse catch their own exceptions, and a balance is
\* refused only now for its sub-account.
Caught(to) ==
    CASE to = "submit" -> {Error("transactionBroadcastError")}
      [] to = "parse" -> {Error("invalidTransaction")}
      [] to = "balance" ->
            {HandleMeshError(e) : e \in Exceptions(to)} \cup {Error("invalidSubAccount")}
      [] OTHER -> {HandleMeshError(e) : e \in Exceptions(to)}

\* The node is down, does not know what it is asked for, or answers what the handler
\* refuses.
NodeFails(c) ==
    /\ stage[c] = "asked" /\ phase \in {"listening", "closing"}
    /\ \E r \in Caught(ask[c].to) : Answer(c, r)

Leave(c) ==
    /\ stage[c] = "answered"
    /\ stage' = [stage EXCEPT ![c] = "idle"]
    /\ ask' = [ask EXCEPT ![c] = NoPost]
    /\ reply' = [reply EXCEPT ![c] = NoReply]
    /\ UNCHANGED <<process, node, seen>>

-----------------------------------------------------------------------------
(* The node's own moves.                                                   *)

UpOrDown ==
    /\ up' = ~up
    /\ UNCHANGED <<process, nodeId, request, seen>>

\* Another node answers at the configured address.
Replaced ==
    /\ \E id \in ChainIds \ {nodeId} : nodeId' = id
    /\ seen' = IF seen = {} THEN {} ELSE seen \cup {nodeId'}
    /\ UNCHANGED <<process, up, request>>

-----------------------------------------------------------------------------
Boot == Start \/ NodeReady \/ NodeNotReady \/ Retry \/ Listen
Settle(c) == NodeReplies(c) \/ NodeFails(c)

Init ==
    /\ env \in Environments /\ phase = "starting" /\ config = NoConfig
    /\ up \in BOOLEAN /\ nodeId \in ChainIds
    /\ stage = [c \in Clients |-> "idle"]
    /\ ask = [c \in Clients |-> NoPost] /\ reply = [c \in Clients |-> NoReply]
    /\ seen = {}

Next ==
    \/ Boot \/ Signal \/ Close \/ Restart
    \/ \E c \in Clients :
        \/ Settle(c) \/ Leave(c)
        \/ \E a \in Posts : Post(c, a)
    \/ UpOrDown \/ Replaced

Spec == Init /\ [][Next]_vars

\* Timers fire, awaited calls settle, and the server closes once it can.
FairSpec ==
    /\ Spec
    /\ WF_vars(Boot) /\ WF_vars(Close)
    /\ \A c \in Clients : WF_vars(Settle(c))

-----------------------------------------------------------------------------
(* Properties.                                                             *)

TypeOK ==
    /\ env \in Environments
    /\ phase \in {"starting", "asking", "pausing", "configured", "listening", "closing",
                  "stopped", "failed"}
    /\ config \in Configs \cup {NoConfig}
    /\ up \in BOOLEAN /\ nodeId \in ChainIds
    /\ stage \in [Clients -> {"idle", "asked", "answered"}]
    /\ ask \in [Clients -> AllPosts]
    /\ reply \in [Clients -> Oks \cup Errors \cup {NotFound, NoReply}]
    /\ seen \subseteq ChainIds

Served(c) == stage[c] = "answered" /\ reply[c].ok
\* The node is the one that the process took its network from.
SameNode == \A i, j \in seen : i = j

\* index.ts:86: as long as the node is not replaced, a request is served with data of
\* a chain of the network it names, whatever its chain id is; a wrong network is
\* refused before the node is asked.
ServesTheNetworkNamed ==
    \A c \in Clients :
        Served(c) /\ ask[c].network # "none" /\ SameNode =>
            ((reply[c].chain = Mainnet) <=> (ask[c].network = "mainnet"))

\* Transactions are built for the chain of the node that will get them, or, offline,
\* for the configured one: its id is folded into every signature.
SignedForTheRightChain ==
    \A c \in Clients :
        Served(c) /\ ask[c].to \in {"payloads", "contract_payloads"} =>
            IF config.mode = "offline" THEN reply[c].chain = env.chainId
            ELSE SameNode => reply[c].chain = nodeId

\* README.md:73, api/index.ts:36, env.ts:12: an offline server makes no outbound call.
OfflineAwaitsNothing ==
    \A c \in Clients : stage[c] = "asked" => config.mode = "online"

\* Every error of an answer is one that /network/options lists, with the same
\* retriable flag (a route that is not registered is answered by Fastify itself).
EveryErrorIsListed ==
    \A c \in Clients :
        stage[c] = "answered" /\ ~reply[c].ok /\ reply[c] # NotFound =>
            reply[c] \in GetAllErrors

Sufficient(e) == IF e.mode = "offline" THEN e.chainId # NoId ELSE e.node

\* index.ts:15: a process with what its mode needs serves, is stopped or fails to
\* listen, provided that the node is up from some time on, however late.
EventuallyServes ==
    <>[]up => ((phase = "starting" /\ Sufficient(env)) ~> (phase \in {"configured", "stopped"}))

\* An accepted request is answered even if the process is told to stop, and then the
\* process stops.
ShutdownIsGraceful ==
    /\ \A c \in Clients : (stage[c] = "asked") ~> (stage[c] = "answered")
    /\ (phase = "closing") ~> (phase = "stopped")
=============================================================================
