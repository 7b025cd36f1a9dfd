--------------------------- MODULE Server_proofs ---------------------------
(***************************************************************************)
(* Proofs about Server, for any networks, environments and requests.       *)
(*                                                                         *)
(* An answer is judged by the network and the chain id that its process    *)
(* took over when it started.  The invariant keeps what ties them to the   *)
(* node: the configuration is that of an id the node had since, and every  *)
(* request that got past the screen names its network.                     *)
(***************************************************************************)
EXTENDS Server, TLAPS

Up == {"listening", "closing"}
Early == {"starting", "asking", "pausing"}

\* The configuration stems from the environment or from the node.
Configured ==
    /\ config # NoConfig =>
        /\ config.mode = env.mode
        /\ config.label = getStacksNetworkName(config.chainId)
        /\ config.chainId \in seen
        /\ config.mode = "offline" => config.chainId = env.chainId
        /\ config.mode = "online" => nodeId \in seen
    /\ phase \in Up \cup {"configured"} => config # NoConfig
    /\ phase \in Early => config = NoConfig
    /\ phase \in {"asking", "pausing"} => env.mode = "online"
    /\ \A c \in Clients : stage[c] # "idle" => config # NoConfig

\* A request that waits for the node got past the screen.
Admitted ==
    \A c \in Clients : stage[c] = "asked" =>
        /\ ask[c].network \in {config.label, "none"}
        /\ config.mode = "offline" => ask[c].to = "contract_payloads"
        /\ ask[c].to \in Endpoints \ {"payloads"}

\* What every answer is worth.
Answered ==
    \A c \in Clients : stage[c] = "answered" =>
        \/ /\ reply[c] \in Oks
           /\ ask[c].network \in {config.label, "none"}
           /\ reply[c].chain \in seen
           /\ ask[c].to \in {"payloads", "contract_payloads"} => reply[c].chain = config.chainId
        \/ reply[c] \in Errors /\ reply[c] \in GetAllErrors
        \/ reply[c] = NotFound

Inv == TypeOK /\ Configured /\ Admitted /\ Answered

-----------------------------------------------------------------------------
(* The errors are listed.                                                  *)

\* Every error the API answers with is in the list of /network/options.
LEMMA ErrorsListed ==
    ASSUME NEW code \in ErrorCodes
    PROVE  Error(code) \in Errors /\ Error(code) \in GetAllErrors /\ ~Error(code).ok
<1>1. Error(code) \in Errors /\ ~Error(code).ok BY DEF Error, Errors, ErrorCodes
<1>2. Error(code) \in GetAllErrors
  <2> DEFINE Again == {"blockNotFound", "transactionNotFound", "internalError",
                       "transactionBroadcastError", "rpcError"}
  <2>1. CASE code \in Again
    <3>1. Error(code) = Listed(code, TRUE) BY <2>1 DEF Error, Listed
    <3>2. Listed(code, TRUE) \in ListedErrors(TRUE) BY <2>1 DEF ListedErrors
    <3> QED BY <3>1, <3>2 DEF GetAllErrors
  <2>2. CASE code \notin Again
    <3> HIDE DEF Again
    <3>0. (code \in Again) = FALSE BY <2>2
    <3> USE DEF Again
    <3>1. Error(code) = Listed(code, FALSE) BY <3>0, Zenon DEF Error, Listed
    <3>2. code \in {"networkNotSupported", "blockIdentifierRequired",
                    "invalidBlockIdentifier", "invalidTransaction", "invalidSubAccount",
                    "invalidPublicKey", "invalidSignature", "notImplemented",
                    "invalidRequest"}
      BY <2>2 DEF ErrorCodes
    <3>3. Listed(code, FALSE) \in ListedErrors(FALSE) BY <3>2 DEF ListedErrors
    <3> QED BY <3>1, <3>3 DEF GetAllErrors
  <2> QED BY <2>1, <2>2
<1> QED BY <1>1, <1>2

\* So is every exception.
LEMMA ExceptionsListed ==
    ASSUME NEW e
    PROVE  HandleMeshError(e) \in Errors /\ HandleMeshError(e) \in GetAllErrors
<1>1. HandleMeshError(e) \in {Error("blockNotFound"), Error("invalidBlockIdentifier"),
                             Error("transactionNotFound"), Error("rpcError"),
                             Error("invalidRequest"), Error("internalError")}
  BY DEF HandleMeshError
<1> QED BY <1>1, ErrorsListed DEF ErrorCodes

\* What the hooks and the handlers refuse a request with is listed.
LEMMA RefusalsListed ==
    ASSUME NEW a, NEW r \in Screened(a) \cup RefusedAtOnce(a.to) \cup Caught(a.to)
    PROVE  r \in Errors /\ r \in GetAllErrors
<1> DEFINE Known == {Error(code) : code \in ErrorCodes}
<1>1. \A q \in Known : q \in Errors /\ q \in GetAllErrors BY ErrorsListed
<1>2. \A e : HandleMeshError(e) \in Errors /\ HandleMeshError(e) \in GetAllErrors
  BY ExceptionsListed
<1>3. /\ Error("networkNotSupported") \in Known /\ Error("blockIdentifierRequired") \in Known
      /\ Error("notImplemented") \in Known /\ Error("invalidPublicKey") \in Known
      /\ Error("invalidTransaction") \in Known /\ Error("invalidSignature") \in Known
      /\ Error("transactionBroadcastError") \in Known /\ Error("invalidSubAccount") \in Known
  BY DEF ErrorCodes
<1> HIDE DEF Known
<1>4. CASE r \in Screened(a)
  <2>1. r \in {HandleMeshError("validation"), Error("networkNotSupported"),
              Error("blockIdentifierRequired")}
    BY <1>4 DEF Screened
  <2> QED BY <1>1, <1>2, <1>3, <2>1
<1>5. CASE r \in RefusedAtOnce(a.to)
  <2>1. r \in {Error("notImplemented"), Error("invalidPublicKey"), Error("invalidTransaction"),
              Error("invalidSignature"), HandleMeshError("Error")}
    BY <1>5 DEF RefusedAtOnce
  <2> QED BY <1>1, <1>2, <1>3, <2>1
<1>6. CASE r \in Caught(a.to)
  <2>1. \/ r \in {Error("transactionBroadcastError"), Error("invalidTransaction"),
                 Error("invalidSubAccount")}
        \/ \E e : r = HandleMeshError(e)
    BY <1>6 DEF Caught
  <2> QED BY <1>1, <1>2, <1>3, <2>1
<1> QED BY <1>4, <1>5, <1>6

\* What is not refused by the hooks names the network of the process.
LEMMA ScreenFacts ==
    ASSUME NEW a \in AllPosts, Screened(a) = {}
    PROVE  a.network \in {config.label, "none"}
<1>1. a.valid BY DEF Screened
<1>2. validateNetwork(a.network) BY <1>1 DEF Screened
<1> QED BY <1>2 DEF validateNetwork

-----------------------------------------------------------------------------
(* Each action preserves the invariant.                                    *)

LEMMA InitInv == Init => Inv
BY EnvironmentAssumption, PostAssumption, ConfigAssumption
DEF Init, Inv, TypeOK, Configured, Admitted, Answered, Up, Early, NoPost, AllPosts,
    Endpoints, OfflineSafe

\* A process that takes its configuration over has no requests yet.
LEMMA ConfigureInv ==
    ASSUME Inv, NEW mode \in {"online", "offline"}, NEW id \in ChainIds, Configure(mode, id),
           phase \in Early, mode = env.mode, mode = "offline" => id = env.chainId,
           mode = "online" => id = nodeId, UNCHANGED <<env, node, request>>
    PROVE  Inv'
<1> USE DEF Inv
<1>1. \A c \in Clients : stage[c] = "idle" BY DEF Configured, Early, TypeOK
<1>2. config' = [mode |-> mode, label |-> getStacksNetworkName(id), chainId |-> id]
  BY DEF Configure, buildStacksNetwork
<1>3. config' \in Configs
  BY <1>2 DEF Configs, getStacksNetworkName, Networks
<1>4. seen' = {id} /\ phase' = "configured" BY DEF Configure
<1>5. TypeOK' BY <1>3, <1>4 DEF TypeOK, node, request
<1>6. Configured'
  BY <1>1, <1>2, <1>3, <1>4, ConfigAssumption DEF Configured, node, request, Up, Early
<1>7. Admitted' /\ Answered'
  BY <1>1 DEF Admitted, Answered, node, request
<1> QED BY <1>5, <1>6, <1>7

\* Booting keeps the invariant: what is configured is what was seen.
LEMMA BootInv == ASSUME Inv, Boot PROVE Inv'
<1> USE DEF Inv
<1>1. CASE Start
  <2>1. CASE phase' = "failed" /\ UNCHANGED <<config, seen>>
    BY <1>1, <2>1 DEF Start, TypeOK, Configured, Admitted, Answered, node, request, Up,
                      Early
  <2>2. CASE env.mode = "online" /\ phase' = "asking" /\ UNCHANGED <<config, seen>>
    BY <1>1, <2>2 DEF Start, TypeOK, Configured, Admitted, Answered, node, request, Up,
                      Early
  <2>3. CASE env.mode = "offline" /\ env.chainId # NoId /\ Configure("offline", env.chainId)
    <3>1. env.chainId \in ChainIds BY <2>3, EnvironmentAssumption DEF TypeOK
    <3> QED BY <1>1, <2>3, <3>1, ConfigureInv DEF Start, Early
  <2>4. env.mode \in {"online", "offline"} /\ env.node \in BOOLEAN
    BY EnvironmentAssumption DEF TypeOK
  <2> QED BY <1>1, <2>1, <2>2, <2>3, <2>4 DEF Start, Fail
<1>2. CASE NodeReady
  <2>1. nodeId \in ChainIds BY DEF TypeOK
  <2>2. env.mode = "online" BY <1>2 DEF NodeReady, Configured
  <2> QED BY <1>2, <2>1, <2>2, ConfigureInv DEF NodeReady, Early
<1>3. CASE NodeNotReady
  BY <1>3 DEF NodeNotReady, TypeOK, Configured, Admitted, Answered, node, request, Up, Early
<1>4. CASE Retry
  BY <1>4 DEF Retry, TypeOK, Configured, Admitted, Answered, node, request, Up, Early
<1>5. CASE Listen
  BY <1>5 DEF Listen, TypeOK, Configured, Admitted, Answered, node, request, Up, Early
<1> QED BY <1>1, <1>2, <1>3, <1>4, <1>5 DEF Boot

\* So does a signal to stop.
LEMMA StopInv == ASSUME Inv, Signal \/ Close PROVE Inv'
BY DEF Inv, Signal, Close, TypeOK, Configured, Admitted, Answered, node, request, Up, Early

\* A restart forgets everything, the requests under way included.
LEMMA RestartInv == ASSUME Inv, Restart PROVE Inv'
<1> USE DEF Inv
<1>1. NoPost \in AllPosts BY DEF NoPost, AllPosts, Endpoints, OfflineSafe
<1>2. TypeOK' BY <1>1, EnvironmentAssumption DEF Restart, TypeOK, node
<1>3. \A c \in Clients : stage'[c] = "idle" BY DEF Restart
<1>4. Configured' BY <1>3 DEF Restart, Configured, Up, Early
<1>5. Admitted' /\ Answered' BY <1>3 DEF Restart, Admitted, Answered, node
<1> QED BY <1>2, <1>4, <1>5

\* A request is screened with the configuration of the process that runs.
LEMMA PostInv ==
    ASSUME Inv, NEW c \in Clients, NEW a \in Posts, Post(c, a)
    PROVE  Inv'
<1> USE DEF Inv
<1>1. a \in AllPosts BY PostAssumption
<1>2. config # NoConfig /\ config \in Configs BY DEF Post, Configured, TypeOK, Up
<1>3. UNCHANGED <<env, phase, config, up, nodeId, seen>>
  BY DEF Post, process, node
<1>4. ask' = [ask EXCEPT ![c] = a] BY DEF Post
<1>5. CASE stage' = [stage EXCEPT ![c] = "asked"] /\ UNCHANGED reply
           /\ a.to \in Registered(config.mode) /\ Screened(a) = {} /\ Awaits(a.to)
  <2>1. TypeOK' BY <1>1, <1>3, <1>4, <1>5 DEF TypeOK
  <2>2. Configured' BY <1>2, <1>3, <1>5 DEF Configured, TypeOK
  <2>3. a.network \in {config.label, "none"} BY <1>1, <1>5, ScreenFacts
  <2>4. /\ config.mode = "offline" => a.to = "contract_payloads"
        /\ a.to \in Endpoints \ {"payloads"}
    BY <1>1, <1>2, <1>5
       DEF Awaits, Registered, NodeBacked, DataApi, Unimplemented, OfflineSafe, AllPosts
  <2>5. Admitted' BY <1>3, <1>4, <1>5, <2>3, <2>4 DEF Admitted, TypeOK
  <2>6. Answered' BY <1>3, <1>4, <1>5 DEF Answered, TypeOK
  <2> QED BY <2>1, <2>2, <2>5, <2>6
<1>6. ASSUME NEW r \in AtOnce(a), reply' = [reply EXCEPT ![c] = r],
             stage' = [stage EXCEPT ![c] = "answered"]
      PROVE  Inv'
  <2>1. \/ r = Ok(config.chainId) /\ Screened(a) = {}
        \/ r \in Screened(a) \cup RefusedAtOnce(a.to)
        \/ r = NotFound
    BY <1>6 DEF AtOnce
  <2>2. \/ r = Ok(config.chainId) /\ a.network \in {config.label, "none"}
        \/ r \in Errors /\ r \in GetAllErrors
        \/ r = NotFound
    BY <1>1, <2>1, ScreenFacts, RefusalsListed
  <2>3. Ok(config.chainId) \in Oks /\ Ok(config.chainId).chain = config.chainId
    BY <1>2 DEF Ok, Oks, Configs
  <2>4. r \in Oks \cup Errors \cup {NotFound} BY <2>2, <2>3
  <2>5. TypeOK' BY <1>1, <1>3, <1>4, <1>6, <2>4 DEF TypeOK
  <2>6. Configured' BY <1>2, <1>3, <1>6 DEF Configured, TypeOK
  <2>7. Admitted' BY <1>3, <1>4, <1>6 DEF Admitted, TypeOK
  <2>8. config.chainId \in seen BY <1>2 DEF Configured
  <2>9. Answered' BY <1>3, <1>4, <1>6, <2>2, <2>3, <2>8 DEF Answered, TypeOK
  <2> QED BY <2>5, <2>6, <2>7, <2>9
<1> QED BY <1>5, <1>6 DEF Post

\* An awaited request gets an answer that is worth something.
LEMMA AnswerInv ==
    ASSUME Inv, NEW c \in Clients, stage[c] = "asked", NEW r, Answer(c, r),
           \/ /\ r \in Oks /\ r.chain \in seen
              /\ ask[c].to = "contract_payloads" => r.chain = config.chainId
           \/ r \in Errors /\ r \in GetAllErrors
    PROVE  Inv'
<1> USE DEF Inv
<1>1. UNCHANGED <<env, phase, config, up, nodeId, seen, ask>>
  BY DEF Answer, process, node
<1>2. stage' = [stage EXCEPT ![c] = "answered"] /\ reply' = [reply EXCEPT ![c] = r]
  BY DEF Answer
<1>3. TypeOK' BY <1>1, <1>2 DEF TypeOK
<1>4. Configured' BY <1>1, <1>2 DEF Configured, TypeOK
<1>5. Admitted' BY <1>1, <1>2 DEF Admitted, TypeOK
<1>6. Answered' BY <1>1, <1>2 DEF Answered, Admitted, TypeOK
<1> QED BY <1>3, <1>4, <1>5, <1>6

\* The node's answer or its failure settles a request.
LEMMA SettleInv == ASSUME Inv, NEW c \in Clients, Settle(c) PROVE Inv'
<1> USE DEF Inv
<1>1. stage[c] = "asked" BY DEF Settle, NodeReplies, NodeFails
<1>2. config # NoConfig /\ config \in Configs BY <1>1 DEF Configured, TypeOK
<1>3. config.chainId \in seen /\ config.chainId \in ChainIds
  BY <1>2 DEF Configured, Configs
<1>4. config.mode = "online" => nodeId \in seen BY <1>2 DEF Configured
<1>5. ask[c].to # "contract_payloads" => config.mode = "online"
  BY <1>1, <1>2 DEF Admitted, Configs
<1>6. CASE NodeFails(c)
  <2>1. PICK r \in Caught(ask[c].to) : Answer(c, r) BY <1>6 DEF NodeFails
  <2>2. r \in Errors /\ r \in GetAllErrors BY <2>1, RefusalsListed
  <2> QED BY <1>1, <2>1, <2>2, AnswerInv
<1>7. ASSUME NEW i \in seen, i \in ChainIds, Answer(c, Ok(i)),
             ask[c].to = "contract_payloads" => i = config.chainId
      PROVE  Inv'
  <2>1. Ok(i) \in Oks /\ Ok(i).chain = i BY <1>7 DEF Ok, Oks
  <2> QED BY <1>1, <1>7, <2>1, AnswerInv
<1>8. CASE ask[c].to \in {"contract_payloads", "parse"} /\ Answer(c, Ok(config.chainId))
  BY <1>3, <1>7, <1>8
<1>9. CASE ask[c].to \notin {"contract_payloads", "parse"} /\ Answer(c, Ok(nodeId))
  <2>1. nodeId \in ChainIds BY DEF TypeOK
  <2> QED BY <1>4, <1>5, <1>7, <1>9, <2>1
<1> QED BY <1>6, <1>8, <1>9 DEF Settle, NodeReplies

\* A client that has its answer is idle again.
LEMMA LeaveInv == ASSUME Inv, NEW c \in Clients, Leave(c) PROVE Inv'
<1> USE DEF Inv
<1>1. NoPost \in AllPosts BY DEF NoPost, AllPosts, Endpoints, OfflineSafe
<1>2. UNCHANGED <<env, phase, config, up, nodeId, seen>>
  BY DEF Leave, process, node
<1>3. TypeOK' BY <1>1, <1>2 DEF Leave, TypeOK
<1>4. Configured' BY <1>2 DEF Leave, Configured, TypeOK
<1>5. Admitted' /\ Answered' BY <1>2 DEF Leave, Admitted, Answered, TypeOK
<1> QED BY <1>3, <1>4, <1>5

\* The node's moves leave what the process knows alone.
LEMMA NodeMovesInv ==
    ASSUME Inv, UpOrDown \/ Replaced
    PROVE  Inv'
<1> USE DEF Inv
<1>1. UNCHANGED <<env, phase, config, stage, ask, reply>>
  BY DEF UpOrDown, Replaced, process, request
<1>2. TypeOK' BY <1>1 DEF UpOrDown, Replaced, TypeOK
<1>3. seen \subseteq seen' /\ (seen # {} /\ nodeId \in seen => nodeId' \in seen')
  BY DEF UpOrDown, Replaced
<1>4. Configured' BY <1>1, <1>3 DEF Configured
<1>5. Admitted' BY <1>1 DEF Admitted
<1>6. Answered' BY <1>1, <1>3 DEF Answered
<1> QED BY <1>2, <1>4, <1>5, <1>6

\* The invariant.
THEOREM Invariance == Spec => []Inv
<1>1. ASSUME Inv, [Next]_vars PROVE Inv'
  <2>1. CASE UNCHANGED vars
    BY <1>1, <2>1 DEF Inv, TypeOK, Configured, Admitted, Answered, vars, process, node,
                      request
  <2> QED BY <1>1, <2>1, BootInv, StopInv, RestartInv, SettleInv, LeaveInv, PostInv,
             NodeMovesInv DEF Next
<1> QED BY <1>1, InitInv, PTL DEF Spec

-----------------------------------------------------------------------------
(* What follows from it.                                                   *)

\* An error is not served.
LEMMA NotServed ==
    ASSUME NEW c \in Clients, Served(c)
    PROVE  reply[c] \notin Errors /\ reply[c] # NotFound
<1>1. reply[c].ok BY DEF Served
<1>2. \A r \in Errors : r.ok \in {FALSE} BY DEF Errors
<1>3. NotFound.ok = FALSE BY DEF NotFound
<1> QED BY <1>1, <1>2, <1>3, Zenon

\* Every variable keeps its type.
THEOREM TypeCorrect == Spec => []TypeOK
BY Invariance, PTL DEF Inv

\* index.ts:86: unless the node was replaced, a request is served with data of a chain of
\* the network it names.
THEOREM NetworkServed == Spec => []ServesTheNetworkNamed
<1>1. Inv => ServesTheNetworkNamed
  <2> SUFFICES ASSUME Inv, NEW c \in Clients, Served(c), ask[c].network # "none", SameNode
               PROVE  (reply[c].chain = Mainnet) <=> (ask[c].network = "mainnet")
    BY DEF ServesTheNetworkNamed
  <2>1. config # NoConfig BY DEF Inv, Configured, Served
  <2>2. config.label = getStacksNetworkName(config.chainId) /\ config.chainId \in seen
    BY <2>1 DEF Inv, Configured
  <2>0. reply[c] \notin Errors /\ reply[c] # NotFound BY NotServed
  <2>3. ask[c].network = config.label /\ reply[c].chain \in seen
    BY <2>0 DEF Inv, Answered, Served
  <2>4. reply[c].chain = config.chainId BY <2>2, <2>3 DEF SameNode
  <2> QED BY <2>2, <2>3, <2>4 DEF getStacksNetworkName
<1> QED BY <1>1, Invariance, PTL

\* Transactions are built for the chain of the node, or for the configured one.
THEOREM ChainSigned == Spec => []SignedForTheRightChain
<1>1. Inv => SignedForTheRightChain
  <2> SUFFICES ASSUME Inv, NEW c \in Clients, Served(c),
                      ask[c].to \in {"payloads", "contract_payloads"}
               PROVE  IF config.mode = "offline" THEN reply[c].chain = env.chainId
                      ELSE SameNode => reply[c].chain = nodeId
    BY DEF SignedForTheRightChain
  <2>1. config # NoConfig BY DEF Inv, Configured, Served
  <2>2. config \in Configs BY <2>1 DEF Inv, TypeOK
  <2>0. reply[c] \notin Errors /\ reply[c] # NotFound BY NotServed
  <2>3. reply[c].chain = config.chainId
    BY <2>0 DEF Inv, Answered, Served
  <2>4. /\ config.chainId \in seen
        /\ config.mode = "offline" => config.chainId = env.chainId
        /\ config.mode = "online" => nodeId \in seen
    BY <2>1 DEF Inv, Configured
  <2> QED BY <2>2, <2>3, <2>4 DEF SameNode, Configs
<1> QED BY <1>1, Invariance, PTL

\* Every error of an answer is one that /network/options lists.
THEOREM ErrorsAnnounced == Spec => []EveryErrorIsListed
<1>1. Inv => EveryErrorIsListed BY DEF Inv, Answered, EveryErrorIsListed, Oks
<1> QED BY <1>1, Invariance, PTL
=============================================================================
