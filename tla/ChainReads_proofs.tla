------------------------- MODULE ChainReads_proofs -------------------------
(***************************************************************************)
(* Proofs about ChainReads: what the Data API's read handlers promise      *)
(* holds for every block tree, every interleaving with the node's reorgs,  *)
(* every number of clients and both display modes.                         *)
(*                                                                         *)
(* The invariant follows a request through its awaits.  Once a block is in *)
(* hand it is one the request may be answered with (Held), and the history *)
(* of a waiting request covers the present (Watched).  An answered request *)
(* keeps what held when it was answered, for its history stops there.      *)
(***************************************************************************)
EXTENDS ChainReads, TLAPS

\* The block in hand may answer the request.
MayAnswer(q, b, w) ==
    /\ b \in Blocks
    /\ q.given => Names(q, b)
    /\ ~q.given \/ q.index # NoIndex => b \in w
Held(q, b, w, st) == b \in st /\ MayAnswer(q, b, w)

ByHashAlone(q) ==
    /\ q.given /\ q.index = NoIndex /\ q.hash # NoHash
    /\ q.mode = "index_block_hash"

\* The node follows a branch of the tree, and stores parents first.
NodeInv ==
    /\ chain \in Branches
    /\ \A b \in stored \ {Root} : Parent[b] \in stored

\* What is known at await s of request q with block b in hand, reply n to /v2/info
\* and history w, when the node has stored st.
StageOK(s, q, b, n, w, st) ==
    /\ s = "byHeight" => q.given /\ q.index # NoIndex /\ q.op # "status"
    /\ s = "byId" => ByHashAlone(q) /\ q.op = "balance"
    /\ s = "replay" =>
         /\ q.op \in {"block", "transaction"}
         /\ Held(q, b, w, st) \/ (b = NoBlock /\ ByHashAlone(q))
    /\ s = "parent" => q.op = "block" /\ q.mode = "block_hash" /\ Held(q, b, w, st)
    /\ s \in {"info", "tipBlock"} =>
         ~q.given /\ q.op \in {"balance", "status"} /\ b = NoBlock
    /\ s = "tipBlock" => \E x \in w : Height[x] = n.height
    /\ s = "neighbors" => q.op = "status" /\ Held(q, b, w, st)
    /\ s = "account" => q.op = "balance" /\ Held(q, b, w, st)
StageInv(c) == StageOK(stage[c], ask[c], got[c], nodeInfo[c], was[c], stored)

Watched(c) ==
    Waiting(c) => chain \subseteq was[c] /\ was[c] \subseteq stored /\ Blocks \ chain \subseteq left[c]

\* An answer a to request q is right, given the request's history.
RightOk(q, a, w) ==
    /\ \E b \in Blocks : About(q, a, b) /\ MayAnswer(q, b, w)
    /\ q.op = "balance" => a.id = Identifier(q.mode, a.state)
    /\ q.op = "transaction" => Names(q, a.state) /\ q.tx \in TxsOf[a.state]
RightParent(q, a, st) ==
    q.op = "block" =>
        \E b \in Blocks :
            /\ a.id = Identifier(q.mode, b)
            /\ a.parent.index = Height[b] - 1
            /\ a.parent.hash =
                 BlockHashOf(IF Parent[b] \in st THEN q.mode ELSE "index_block_hash", Parent[b])
            /\ b \in st
RightRefusal(q, a, w, l) ==
    /\ a.code \in {"blockNotFound", "invalidBlockIdentifier"} =>
         \A b \in Blocks : Names(q, b) => IF q.index # NoIndex THEN b \in l ELSE b \notin w
    /\ q.op = "transaction" /\ a.code = "transactionNotFound" =>
         \E b \in Blocks : Names(q, b) /\ q.tx \notin TxsOf[b]
Right(q, a, w, l, st) ==
    /\ a.ok => RightOk(q, a, w) /\ RightParent(q, a, st)
    /\ ~a.ok => RightRefusal(q, a, w, l)

AnsweredInv(c) ==
    Answered(c) =>
        /\ answer[c] \in Oks \cup Errors
        /\ Right(ask[c], answer[c], was[c], left[c], stored)

\* Between requests a slot holds no block.
IdleLocals(c) == ~Waiting(c) => got[c] = NoBlock

RequestInv(c) ==
    WellFormed(ask[c]) /\ IdleLocals(c) /\ StageInv(c) /\ Watched(c) /\ AnsweredInv(c)
IInv == TypeOK /\ NodeInv /\ \A c \in Clients : RequestInv(c)

-----------------------------------------------------------------------------
(* Operators.                                                              *)

\* The tree: parents of blocks, and heights.
LEMMA TreeFacts ==
    /\ Root \in Blocks
    /\ \A b \in Blocks : Height[b] \in Nat /\ Height[b] > 0 /\ Parent[b] \in Blocks \cup {Boot}
BY TreeAssumption

\* A block's hash is a hash string that already has its prefix.
LEMMA BlockHashFacts ==
    ASSUME NEW k \in Kinds, NEW b \in Blocks \cup {Boot}
    PROVE  /\ BlockHashOf(k, b) \in Hashes
           /\ AddHexPrefix(BlockHashOf(k, b)) = BlockHashOf(k, b)
BY DEF Hashes, BlockHashOf, AddHexPrefix

\* Adding and removing the prefix changes nothing else of a hash, so two hashes
\* that agree without prefix agree with it.
LEMMA HashFacts ==
    ASSUME NEW h \in Hashes, NEW k \in Kinds, NEW b \in Blocks \cup {Boot}
    PROVE  /\ AddHexPrefix(h) \in Hashes /\ RemoveHexPrefix(h) \in Hashes
           /\ ~RemoveHexPrefix(h).prefixed
           /\ RemoveHexPrefix(AddHexPrefix(h)) = RemoveHexPrefix(h)
           /\ (RemoveHexPrefix(h) = RemoveHexPrefix(BlockHashOf(k, b))
                <=> AddHexPrefix(h) = BlockHashOf(k, b))
<1>1. /\ h = [kind |-> h.kind, block |-> h.block, prefixed |-> h.prefixed]
      /\ h.kind \in Kinds /\ h.block \in Blocks \cup {Boot} /\ h.prefixed \in BOOLEAN
  BY DEF Hashes
<1> QED BY <1>1 DEF Hashes, BlockHashOf, AddHexPrefix, RemoveHexPrefix

\* The hash of a block in one kind identifies it.
LEMMA HashInjective ==
    ASSUME NEW k, NEW x, NEW y, BlockHashOf(k, x) = BlockHashOf(k, y)
    PROVE  x = y
<1>1. BlockHashOf(k, x).block = x /\ BlockHashOf(k, y).block = y
  BY DEF BlockHashOf
<1> QED BY <1>1

\* What a lookup by hash finds: the stored block with that index block hash.
LEMMA ByIdFacts ==
    ASSUME NEW h \in Hashes, stored \subseteq Blocks
    PROVE  BlocksById(RemoveHexPrefix(h)) = {b \in stored : AddHexPrefix(h) = IndexBlockHash(b)}
<1>1. "index_block_hash" \in Kinds BY DEF Kinds
<1>2. \A b \in stored :
         (RemoveHexPrefix(h) = RemoveHexPrefix(IndexBlockHash(b)))
            <=> AddHexPrefix(h) = IndexBlockHash(b)
  BY <1>1, HashFacts DEF IndexBlockHash
<1>3. ~RemoveHexPrefix(h).prefixed BY <1>1, TreeFacts, HashFacts
<1> QED BY <1>2, <1>3 DEF BlocksById

\* An identifier the API displays is well formed and names one block.
LEMMA IdentifierFacts ==
    ASSUME NEW mode \in Kinds, NEW b \in Blocks
    PROVE  /\ Identifier(mode, b) \in Identifiers
           /\ Identifier(mode, b).hash = SelectDisplayBlockHash(mode, b)
           /\ \A x \in Blocks : Identifier(mode, x) = Identifier(mode, b) => x = b
<1>1. \A x \in Blocks :
         /\ SelectDisplayBlockHash(mode, x) \in Hashes
         /\ AddHexPrefix(SelectDisplayBlockHash(mode, x)) = SelectDisplayBlockHash(mode, x)
  BY BlockHashFacts DEF SelectDisplayBlockHash
<1>2. \A x \in Blocks : Identifier(mode, x).hash = SelectDisplayBlockHash(mode, x)
  BY <1>1 DEF Identifier
<1>3. Identifier(mode, b) \in Identifiers
  BY <1>1, TreeFacts DEF Identifier, Identifiers
<1>4. ASSUME NEW x \in Blocks, Identifier(mode, x) = Identifier(mode, b) PROVE x = b
  BY <1>2, <1>4, HashInjective DEF SelectDisplayBlockHash
<1> QED BY <1>2, <1>3, <1>4

\* Every exception becomes an error answer.
LEMMA ErrorFacts ==
    /\ \A code \in ErrorCodes : Error(code) \in Errors /\ ~Error(code).ok /\ Error(code).code = code
    /\ HandleMeshError("CoreRpcError") = Error("internalError")
    /\ HandleMeshError("StacksRpcBlockNotFoundError") = Error("blockNotFound")
    /\ HandleMeshError("StacksRpcInvalidBlockIdentifierError") = Error("invalidBlockIdentifier")
    /\ HandleMeshError("StacksRpcTransactionNotFoundError") = Error("transactionNotFound")
BY DEF ErrorCodes, Errors, Error, HandleMeshError

-----------------------------------------------------------------------------
(* The two ways a handler's step ends.                                     *)

\* A step that answers a request rightly preserves the invariant.
LEMMA AnswerStep ==
    ASSUME IInv, NEW c \in Clients, NEW a \in Oks \cup Errors, Answer(c, a),
           Right(ask[c], a, was[c], left[c], stored),
           UNCHANGED <<node, was, left>>
    PROVE  IInv'
<1> USE DEF IInv
<1>1. TypeOK'
  BY DEF TypeOK, Answer, node, NoInfo
<1>2. NodeInv'
  BY DEF NodeInv, node
<1>3. ASSUME NEW d \in Clients PROVE RequestInv(d)'
  <2>1. CASE d # c
    <3>1. /\ stage'[d] = stage[d] /\ ask'[d] = ask[d] /\ got'[d] = got[d]
          /\ nodeInfo'[d] = nodeInfo[d] /\ answer'[d] = answer[d]
          /\ was' = was /\ left' = left /\ stored' = stored /\ chain' = chain
      BY <2>1 DEF Answer, TypeOK, node
    <3> QED BY <3>1 DEF RequestInv, IdleLocals, StageInv, Watched, AnsweredInv, Waiting, Answered
  <2>2. CASE d = c
    <3>1. /\ stage'[d] = "answered" /\ ask'[d] = ask[d] /\ answer'[d] = a
          /\ was' = was /\ left' = left /\ stored' = stored /\ got'[d] = NoBlock
      BY <2>2 DEF Answer, TypeOK, node
    <3>2. WellFormed(ask[d])' BY <3>1 DEF RequestInv
    <3>3. StageInv(d)' BY <3>1 DEF StageInv, StageOK
    <3>4. Watched(d)' BY <3>1 DEF Watched, Waiting, Awaiting
    <3>5. AnsweredInv(d)' BY <3>1, <2>2 DEF AnsweredInv
    <3> QED BY <3>1, <3>2, <3>3, <3>4, <3>5 DEF RequestInv, IdleLocals
  <2> QED BY <2>1, <2>2
<1> QED BY <1>1, <1>2, <1>3

\* A step that goes on to another await preserves the invariant if it knows
\* there what the invariant says.
LEMMA AwaitStep ==
    ASSUME IInv, NEW c \in Clients, Waiting(c), NEW next \in Awaiting,
           NEW b \in Blocks \cup {NoBlock}, Await(c, next, b),
           StageOK(next, ask[c], b, nodeInfo[c], was[c], stored),
           UNCHANGED <<node, was, left>>
    PROVE  IInv'
<1> USE DEF IInv
<1>1. TypeOK'
  BY DEF TypeOK, Await, node
<1>2. NodeInv'
  BY DEF NodeInv, node
<1>3. ASSUME NEW d \in Clients PROVE RequestInv(d)'
  <2>0. UNCHANGED <<ask, nodeInfo, answer, was, left, stored, chain>>
    BY DEF Await, node
  <2>1. CASE d # c
    <3>1. stage'[d] = stage[d] /\ got'[d] = got[d]
      BY <2>1 DEF Await, TypeOK
    <3> QED BY <2>0, <3>1 DEF RequestInv, IdleLocals, StageInv, Watched, AnsweredInv, Waiting, Answered
  <2>2. CASE d = c
    <3>1. stage'[d] = next /\ got'[d] = b
      BY <2>2 DEF Await, TypeOK
    <3>2. StageInv(d)' BY <2>0, <2>2, <3>1 DEF StageInv
    <3>3. Watched(d)' BY <2>0, <2>2, <3>1 DEF RequestInv, Watched, Waiting
    <3>4. AnsweredInv(d)' BY <3>1 DEF AnsweredInv, Answered, Awaiting
    <3>5. IdleLocals(d)' BY <3>1 DEF IdleLocals, Waiting
    <3> QED BY <2>0, <3>2, <3>3, <3>4, <3>5 DEF RequestInv
  <2> QED BY <2>1, <2>2
<1> QED BY <1>1, <1>2, <1>3

-----------------------------------------------------------------------------
(* The steps of the node and of the clients.                               *)

\* The node moving on, a reorg included, spoils neither a block in hand nor an
\* answer already given.
LEMMA NodeStep ==
    ASSUME IInv, NodeMoves
    PROVE  IInv'
<1> USE DEF IInv
<1>1. /\ stored \subseteq stored' /\ stored' \subseteq Blocks
      /\ chain' \subseteq stored' /\ tip' \in chain' /\ synced' \in BOOLEAN
      /\ NodeInv'
  <2>1. ASSUME NEW b \in Blocks, Store(b)
        PROVE  /\ stored \subseteq stored' /\ stored' \subseteq Blocks
               /\ chain' \subseteq stored' /\ tip' \in chain' /\ synced' \in BOOLEAN
               /\ NodeInv'
    BY <2>1 DEF Store, TypeOK, NodeInv, Branches
  <2>2. ASSUME NEW b \in Blocks, Follow(b)
        PROVE  /\ stored \subseteq stored' /\ stored' \subseteq Blocks
               /\ chain' \subseteq stored' /\ tip' \in chain' /\ synced' \in BOOLEAN
               /\ NodeInv'
    BY <2>2 DEF Follow, TypeOK, NodeInv, Branches
  <2>3. CASE Sync
    BY <2>3 DEF Sync, TypeOK, NodeInv, Branches
  <2> QED BY <2>1, <2>2, <2>3 DEF NodeMoves
<1>2. UNCHANGED <<stage, ask, got, nodeInfo, peers, answer>>
  BY DEF NodeMoves, request
<1>3. TypeOK'
  <2>1. was' \in [Clients -> SUBSET Blocks] /\ left' \in [Clients -> SUBSET Blocks]
    BY <1>1 DEF NodeMoves, TypeOK
  <2> QED BY <1>1, <1>2, <2>1 DEF TypeOK
<1>5. ASSUME NEW d \in Clients PROVE RequestInv(d)'
  <2>1. /\ was[d] \subseteq was'[d] /\ left[d] \subseteq left'[d]
        /\ Waiting(d) => /\ was'[d] = was[d] \cup chain'
                         /\ left'[d] = left[d] \cup (Blocks \ chain')
        /\ ~Waiting(d) => was'[d] = was[d] /\ left'[d] = left[d]
    BY DEF NodeMoves
  <2>2. StageInv(d)'
    <3>1. Held(ask[d], got[d], was[d], stored) => Held(ask[d], got[d], was'[d], stored')
      BY <1>1, <2>1 DEF Held, MayAnswer
    <3> QED BY <1>2, <2>1, <3>1 DEF RequestInv, StageInv, StageOK
  <2>3. Watched(d)'
    BY <1>1, <1>2, <2>1 DEF RequestInv, Watched, Waiting
  <2>4. AnsweredInv(d)'
    <3> SUFFICES ASSUME Answered(d) PROVE AnsweredInv(d)'
      BY <1>2 DEF AnsweredInv, Answered
    <3>1. was'[d] = was[d] /\ left'[d] = left[d]
      BY <2>1 DEF Answered, Waiting, Awaiting
    <3>2. \A x \in stored : x \in stored' /\ (Parent[x] \in stored <=> Parent[x] \in stored')
      BY <1>1, TreeAssumption DEF NodeInv
    <3>3. RightParent(ask[d], answer[d], stored) => RightParent(ask[d], answer[d], stored')
      BY <3>2 DEF RightParent
    <3> QED BY <1>2, <3>1, <3>3 DEF RequestInv, AnsweredInv, Right, Answered
  <2>5. IdleLocals(d)' BY <1>2 DEF RequestInv, IdleLocals, Waiting
  <2> QED BY <1>2, <2>2, <2>3, <2>4, <2>5 DEF RequestInv
<1> QED BY <1>1, <1>3, <1>5

\* A request's first step: the history starts with the present branch.
LEMMA AskStep ==
    ASSUME IInv, NEW c \in Clients, NEW a \in Requests, Ask(c, a)
    PROVE  IInv'
<1> USE DEF IInv
<1>1. a \in Asks /\ WellFormed(a) BY DEF Requests
<1>2. /\ ask' = [ask EXCEPT ![c] = a]
      /\ was' = [was EXCEPT ![c] = chain] /\ left' = [left EXCEPT ![c] = Blocks \ chain]
      /\ UNCHANGED <<chain, tip, stored, synced, got, nodeInfo, peers>>
  BY DEF Ask, node
<1>3. a.op \in Ops /\ a.given \in BOOLEAN /\ a.mode \in Kinds BY <1>1 DEF Asks
<1>4. CASE RejectedAtOnce(a) # "no"
  <2>1. /\ stage' = [stage EXCEPT ![c] = "answered"]
        /\ answer' = [answer EXCEPT ![c] = Error(RejectedAtOnce(a))]
    BY <1>4 DEF Ask
  <2>2. /\ RejectedAtOnce(a) \in {"blockIdentifierRequired", "invalidBlockIdentifier"}
        /\ a.given /\ a.index = NoIndex
        /\ a.hash = NoHash \/ a.mode = "block_hash"
    BY <1>4 DEF RejectedAtOnce
  <2>3. /\ Error(RejectedAtOnce(a)) \in Errors /\ ~Error(RejectedAtOnce(a)).ok
        /\ Error(RejectedAtOnce(a)).code = RejectedAtOnce(a)
    BY <2>2, ErrorFacts DEF ErrorCodes
  <2>4. \A b \in Blocks : ~Names(a, b)
    BY <2>2 DEF Names
  <2>5. Right(a, Error(RejectedAtOnce(a)), chain, Blocks \ chain, stored)
    BY <2>2, <2>3, <2>4 DEF Right, RightRefusal
  <2>6. TypeOK' BY <1>1, <1>2, <2>1, <2>3 DEF TypeOK
  <2>7. NodeInv' BY <1>2 DEF NodeInv
  <2>8. ASSUME NEW d \in Clients PROVE RequestInv(d)'
    <3>1. CASE d = c
      <4>1. /\ stage'[d] = "answered" /\ ask'[d] = a /\ was'[d] = chain
            /\ left'[d] = Blocks \ chain /\ answer'[d] = Error(RejectedAtOnce(a))
        BY <1>2, <2>1, <3>1 DEF TypeOK
      <4>2. StageInv(d)' BY <4>1 DEF StageInv, StageOK
      <4>3. Watched(d)' BY <4>1 DEF Watched, Waiting, Awaiting
      <4>4. AnsweredInv(d)' BY <1>2, <2>3, <2>5, <4>1 DEF AnsweredInv
      <4>5. IdleLocals(d)'
        BY <1>2, <3>1 DEF Ask, RequestInv, IdleLocals, Waiting, Awaiting
      <4> QED BY <1>1, <4>1, <4>2, <4>3, <4>4, <4>5 DEF RequestInv
    <3>2. CASE d # c
      <4>1. /\ stage'[d] = stage[d] /\ ask'[d] = ask[d] /\ was'[d] = was[d]
            /\ left'[d] = left[d] /\ answer'[d] = answer[d]
        BY <1>2, <2>1, <3>2 DEF TypeOK
      <4> QED BY <1>2, <4>1 DEF RequestInv, IdleLocals, StageInv, Watched, AnsweredInv, Waiting, Answered
    <3> QED BY <3>1, <3>2
  <2> QED BY <2>6, <2>7, <2>8
<1>5. CASE RejectedAtOnce(a) = "no"
  <2>1. /\ stage' = [stage EXCEPT ![c] = FirstRpc(a)]
        /\ answer' = [answer EXCEPT ![c] = NoAnswer]
        /\ stage[c] = "idle"
    BY <1>5 DEF Ask
  <2>2. a.given /\ a.index = NoIndex => a.hash # NoHash /\ a.mode = "index_block_hash"
    BY <1>3, <1>5 DEF RejectedAtOnce, Kinds
  <2>3. FirstRpc(a) \in Awaiting BY DEF FirstRpc, Awaiting
  <2>4. StageOK(FirstRpc(a), a, NoBlock, NoInfo, chain, stored)
    <3>1. /\ ~a.given => FirstRpc(a) = "info"
          /\ a.given /\ a.index # NoIndex => FirstRpc(a) = "byHeight"
          /\ a.given /\ a.index = NoIndex /\ a.op = "balance" => FirstRpc(a) = "byId"
          /\ a.given /\ a.index = NoIndex /\ a.op # "balance" => FirstRpc(a) = "replay"
      BY <1>3 DEF FirstRpc
    <3>2. /\ a.op \in {"block", "transaction"} => a.given
          /\ a.op = "status" => ~a.given
          /\ a.op \in {"block", "transaction", "balance", "status"}
      BY <1>1, <1>3 DEF WellFormed, Ops
    <3>3. a.given /\ a.index = NoIndex => ByHashAlone(a)
      BY <2>2 DEF ByHashAlone
    <3>4. CASE ~a.given BY <3>1, <3>2, <3>4 DEF StageOK
    <3>5. CASE a.given /\ a.index # NoIndex BY <3>1, <3>2, <3>5 DEF StageOK
    <3>6. CASE a.given /\ a.index = NoIndex /\ a.op = "balance"
      BY <3>1, <3>3, <3>6 DEF StageOK
    <3>7. CASE a.given /\ a.index = NoIndex /\ a.op # "balance"
      BY <3>1, <3>2, <3>3, <3>7 DEF StageOK
    <3> QED BY <1>3, <3>4, <3>5, <3>6, <3>7
  <2>6. TypeOK' BY <1>1, <1>2, <2>1, <2>3 DEF TypeOK
  <2>7. NodeInv' BY <1>2 DEF NodeInv
  <2>8. ASSUME NEW d \in Clients PROVE RequestInv(d)'
    <3>1. CASE d = c
      <4>1. /\ stage'[d] = FirstRpc(a) /\ ask'[d] = a /\ was'[d] = chain
            /\ left'[d] = Blocks \ chain
        BY <1>2, <2>1, <3>1 DEF TypeOK
      <4>2. StageInv(d)'
        <5>1. got[d] = NoBlock
          BY <2>1, <3>1 DEF RequestInv, IdleLocals, Waiting, Awaiting
        <5>2. FirstRpc(a) # "tipBlock" BY DEF FirstRpc
        <5> QED BY <1>2, <2>4, <4>1, <5>1, <5>2 DEF StageInv, StageOK
      <4>3. Watched(d)' BY <1>2, <4>1 DEF Watched, TypeOK
      <4>4. AnsweredInv(d)' BY <2>3, <4>1 DEF AnsweredInv, Answered, Awaiting
      <4>5. IdleLocals(d)' BY <2>3, <4>1 DEF IdleLocals, Waiting
      <4> QED BY <1>1, <4>1, <4>2, <4>3, <4>4, <4>5 DEF RequestInv
    <3>2. CASE d # c
      <4>1. /\ stage'[d] = stage[d] /\ ask'[d] = ask[d] /\ was'[d] = was[d]
            /\ left'[d] = left[d] /\ answer'[d] = answer[d]
        BY <1>2, <2>1, <3>2 DEF TypeOK
      <4> QED BY <1>2, <4>1 DEF RequestInv, IdleLocals, StageInv, Watched, AnsweredInv, Waiting, Answered
    <3> QED BY <3>1, <3>2
  <2> QED BY <2>6, <2>7, <2>8
<1> QED BY <1>4, <1>5

\* Leaving frees the client's slot.
LEMMA LeaveStep ==
    ASSUME IInv, NEW c \in Clients, Leave(c)
    PROVE  IInv'
<1> USE DEF IInv
<1>1. TypeOK'
  BY AskAssumption DEF Leave, TypeOK, node, NoAsk, Asks, Ops, Kinds
<1>2. NodeInv' BY DEF Leave, node, NodeInv
<1>3. ASSUME NEW d \in Clients PROVE RequestInv(d)'
  <2>0. UNCHANGED <<chain, stored, got, nodeInfo>> BY DEF Leave, node
  <2>1. CASE d = c
    <3>1. stage'[d] = "idle" /\ ask'[d] = NoAsk
      BY <2>1 DEF Leave, TypeOK
    <3>2. WellFormed(NoAsk) BY DEF WellFormed, NoAsk
    <3> QED BY <2>0, <2>1, <3>1, <3>2
            DEF RequestInv, StageInv, StageOK, Watched, AnsweredInv, Waiting, Awaiting,
                Answered, IdleLocals, Leave, node
  <2>2. CASE d # c
    <3>1. /\ stage'[d] = stage[d] /\ ask'[d] = ask[d] /\ was'[d] = was[d]
          /\ left'[d] = left[d] /\ answer'[d] = answer[d]
      BY <2>2 DEF Leave, TypeOK
    <3> QED BY <2>0, <3>1 DEF RequestInv, IdleLocals, StageInv, Watched, AnsweredInv, Waiting, Answered
  <2> QED BY <2>1, <2>2
<1> QED BY <1>1, <1>2, <1>3

-----------------------------------------------------------------------------
(* The steps of the handlers.                                              *)

\* The facts about client c that its handler's steps start from.
LEMMA AtHand ==
    ASSUME IInv, NEW c \in Clients
    PROVE  /\ ask[c] \in Asks /\ WellFormed(ask[c]) /\ ask[c].mode \in Kinds
           /\ StageOK(stage[c], ask[c], got[c], nodeInfo[c], was[c], stored)
           /\ Waiting(c) => chain \subseteq was[c] /\ was[c] \subseteq stored /\ Blocks \ chain \subseteq left[c]
           /\ chain \subseteq stored /\ stored \subseteq Blocks
BY DEF IInv, TypeOK, RequestInv, StageInv, Watched, Asks

\* An internal error is always a right answer, so a failing RPC is harmless.
LEMMA InternalErrorRight ==
    ASSUME NEW q, NEW w, NEW l, NEW st
    PROVE  Right(q, HandleMeshError("CoreRpcError"), w, l, st)
BY ErrorFacts DEF Right, RightRefusal, ErrorCodes

\* A failing RPC ends any handler in an internal error, which preserves the invariant.
LEMMA RpcFailsStep ==
    ASSUME IInv, NEW c \in Clients, RpcFails(c)
    PROVE  IInv'
<1>1. HandleMeshError("CoreRpcError") \in Oks \cup Errors
  BY ErrorFacts DEF ErrorCodes
<1> QED BY <1>1, AnswerStep, InternalErrorRight DEF RpcFails, Throw

\* A successful answer about a block the request may be answered with.
LEMMA OkRight ==
    ASSUME NEW q, q.mode \in Kinds, q.op # "transaction",
           NEW b \in stored, NEW w, NEW l, stored \subseteq Blocks, MayAnswer(q, b, w),
           NEW p \in Identifiers \cup {NoId}, NEW s \in Blocks \cup {NoBlock}, NEW f \in Figures,
           q.op = "balance" => s = b,
           q.op = "block" =>
             /\ p.index = Height[b] - 1
             /\ p.hash = BlockHashOf(IF Parent[b] \in stored THEN q.mode ELSE "index_block_hash",
                                     Parent[b])
    PROVE  /\ Ok(Identifier(q.mode, b), p, s, f) \in Oks
           /\ Right(q, Ok(Identifier(q.mode, b), p, s, f), w, l, stored)
<1> DEFINE a == Ok(Identifier(q.mode, b), p, s, f)
<1>1. a.ok /\ a.id = Identifier(q.mode, b) /\ a.parent = p /\ a.state = s
  BY DEF Ok
<1>2. a \in Oks
  BY IdentifierFacts DEF Ok, Oks
<1>3. RightOk(q, a, w)
  BY <1>1 DEF RightOk, About
<1>4. RightParent(q, a, stored)
  BY <1>1 DEF RightParent
<1> HIDE DEF a
<1>5. Right(q, a, w, l, stored)
  BY <1>1, <1>3, <1>4 DEF Right
<1> QED BY <1>2, <1>5 DEF a

\* A transaction told of a block that the request named and that holds it.
LEMMA TransactionRight ==
    ASSUME NEW q, q.op = "transaction", NEW b \in Blocks, NEW w, NEW l, MayAnswer(q, b, w),
           Names(q, b), q.tx \in TxsOf[b]
    PROVE  /\ Ok(NoId, NoId, b, "none") \in Oks
           /\ Right(q, Ok(NoId, NoId, b, "none"), w, l, stored)
<1> DEFINE a == Ok(NoId, NoId, b, "none")
<1>1. a \in Oks /\ a.ok /\ a.state = b
  BY DEF Ok, Oks, Figures
<1> HIDE DEF a
<1>2. Right(q, a, w, l, stored)
  BY <1>1 DEF Right, RightOk, RightParent, About
<1> QED BY <1>1, <1>2 DEF a

\* The height fetch: what it finds is on the branch now, and what it refuses is
\* off the branch now.
LEMMA ByHeightStep ==
    ASSUME IInv, NEW c \in Clients, ByHeight(c)
    PROVE  IInv'
<1> DEFINE q == ask[c]
<1>1. /\ stage[c] = "byHeight" /\ Waiting(c) /\ UNCHANGED <<node, was, left>>
      /\ q.given /\ q.index # NoIndex /\ q.op \in {"block", "transaction", "balance"}
      /\ chain \subseteq was[c] /\ Blocks \ chain \subseteq left[c]
      /\ chain \subseteq stored /\ stored \subseteq Blocks
      /\ q.hash \in AskHashes \cup {NoHash} /\ q.mode \in Kinds
  BY AtHand DEF ByHeight, Waiting, Awaiting, StageOK, Asks, Ops
<1>2. CASE /\ BlocksAtHeight(q.index) = {}
           /\ Throw(c, "StacksRpcBlockNotFoundError")
  <2>1. \A b \in Blocks : Names(q, b) => b \in left[c]
    BY <1>1, <1>2 DEF Names, BlocksAtHeight
  <2>2. Right(q, Error("blockNotFound"), was[c], left[c], stored)
    BY <1>1, <2>1, ErrorFacts DEF Right, RightRefusal, ErrorCodes
  <2>3. Error("blockNotFound") \in Errors BY ErrorFacts DEF ErrorCodes
  <2> QED BY <1>1, <1>2, <2>2, <2>3, ErrorFacts, AnswerStep DEF Throw
<1>3. ASSUME NEW b \in BlocksAtHeight(q.index), q.hash # NoHash, ~HashMatches(q.mode, q.hash, b),
             Throw(c, "StacksRpcInvalidBlockIdentifierError")
      PROVE  IInv'
  <2>1. ASSUME NEW x \in Blocks, Names(q, x) PROVE x \in left[c]
    <3> SUFFICES ASSUME x \in chain PROVE FALSE
      BY <1>1
    <3>1. Height[x] = Height[b] /\ b \in chain /\ x # b
      <4>1. HeaderHashForMode(q.mode, x) = SelectDisplayBlockHash(q.mode, x)
        BY DEF HeaderHashForMode, SelectDisplayBlockHash
      <4>2. AddHexPrefix(HeaderHashForMode(q.mode, x)) = HeaderHashForMode(q.mode, x)
        BY <1>1, BlockHashFacts DEF HeaderHashForMode
      <4>3. HashMatches(q.mode, q.hash, x)
        BY <1>3, <2>1, <4>1, <4>2 DEF HashMatches, Names
      <4> QED BY <1>1, <1>3, <2>1, <4>3 DEF BlocksAtHeight, Names
    <3>2. \A y, z \in chain : Height[y] = Height[z] => y = z
      BY DEF IInv, NodeInv, Branches
    <3> QED BY <3>1, <3>2
  <2>2. Right(q, Error("invalidBlockIdentifier"), was[c], left[c], stored)
    BY <1>1, <2>1, ErrorFacts DEF Right, RightRefusal, ErrorCodes
  <2>3. Error("invalidBlockIdentifier") \in Errors BY ErrorFacts DEF ErrorCodes
  <2> QED BY <1>1, <1>3, <2>2, <2>3, ErrorFacts, AnswerStep DEF Throw
<1>4. ASSUME NEW b \in BlocksAtHeight(q.index), q.hash # NoHash => HashMatches(q.mode, q.hash, b),
             Await(c, IF q.op = "balance" THEN "account" ELSE "replay", b)
      PROVE  IInv'
  <2>1. b \in chain /\ b \in stored /\ Height[b] = q.index
    BY <1>1, <1>4 DEF BlocksAtHeight
  <2>2. Names(q, b)
    <3>1. AddHexPrefix(HeaderHashForMode(q.mode, b)) = SelectDisplayBlockHash(q.mode, b)
      BY <1>1, <2>1, BlockHashFacts DEF HeaderHashForMode, SelectDisplayBlockHash
    <3> QED BY <1>1, <1>4, <2>1, <3>1 DEF Names, HashMatches
  <2>3. Held(q, b, was[c], stored)
    BY <1>1, <2>1, <2>2 DEF Held, MayAnswer
  <2>4. StageOK(IF q.op = "balance" THEN "account" ELSE "replay", q, b, nodeInfo[c], was[c], stored)
    BY <1>1, <2>3 DEF StageOK
  <2>5. (IF q.op = "balance" THEN "account" ELSE "replay") \in Awaiting
    BY DEF Awaiting
  <2> QED BY <1>1, <1>4, <2>1, <2>4, <2>5, AwaitStep
<1> QED BY <1>2, <1>3, <1>4 DEF ByHeight

\* The lookup by hash alone finds the named block if the node has ever stored it.
LEMMA ByHashAloneFacts ==
    ASSUME IInv, NEW c \in Clients, Waiting(c), ByHashAlone(ask[c])
    PROVE  /\ \A b \in BlocksById(RemoveHexPrefix(ask[c].hash)) :
                 Held(ask[c], b, was[c], stored)
           /\ BlocksById(RemoveHexPrefix(ask[c].hash)) = {} =>
                 Right(ask[c], Error("blockNotFound"), was[c], left[c], stored)
<1> DEFINE q == ask[c]
<1>1. /\ q.hash \in Hashes /\ q.given /\ q.index = NoIndex /\ q.hash # NoHash
      /\ q.mode = "index_block_hash" /\ was[c] \subseteq stored /\ stored \subseteq Blocks
  BY AtHand, AskAssumption DEF ByHashAlone, Asks
<1>2. BlocksById(RemoveHexPrefix(q.hash)) = {b \in stored : AddHexPrefix(q.hash) = IndexBlockHash(b)}
  BY <1>1, ByIdFacts
<1>3. \A b \in Blocks : IndexBlockHash(b) = SelectDisplayBlockHash(q.mode, b)
  BY <1>1 DEF IndexBlockHash, SelectDisplayBlockHash
<1>4. \A b \in BlocksById(RemoveHexPrefix(q.hash)) : Held(q, b, was[c], stored)
  BY <1>1, <1>2, <1>3 DEF Held, MayAnswer, Names
<1>5. ASSUME BlocksById(RemoveHexPrefix(q.hash)) = {}
      PROVE  Right(q, Error("blockNotFound"), was[c], left[c], stored)
  <2>1. \A b \in Blocks : Names(q, b) => b \notin was[c]
    BY <1>1, <1>2, <1>3, <1>5 DEF Names
  <2> QED BY <1>1, <2>1, ErrorFacts DEF Right, RightRefusal, ErrorCodes
<1> QED BY <1>4, <1>5

\* The lookup by hash alone preserves it, whether or not the block is found.
LEMMA ByIdStep ==
    ASSUME IInv, NEW c \in Clients, ById(c)
    PROVE  IInv'
<1>1. /\ Waiting(c) /\ UNCHANGED <<node, was, left>>
      /\ ByHashAlone(ask[c]) /\ ask[c].op = "balance" /\ stored \subseteq Blocks
  BY AtHand DEF ById, Waiting, Awaiting, StageOK
<1>2. CASE /\ BlocksById(RemoveHexPrefix(ask[c].hash)) = {}
           /\ Throw(c, "StacksRpcBlockNotFoundError")
  <2>1. Error("blockNotFound") \in Errors BY ErrorFacts DEF ErrorCodes
  <2> QED BY <1>1, <1>2, <2>1, ErrorFacts, ByHashAloneFacts, AnswerStep DEF Throw
<1>3. ASSUME NEW b \in BlocksById(RemoveHexPrefix(ask[c].hash)), Await(c, "account", b)
      PROVE  IInv'
  <2>1. StageOK("account", ask[c], b, nodeInfo[c], was[c], stored)
    BY <1>1, <1>3, ByHashAloneFacts DEF StageOK
  <2>2. b \in Blocks /\ "account" \in Awaiting BY <1>1, <1>3 DEF BlocksById, Awaiting
  <2> QED BY <1>1, <1>3, <2>1, <2>2, AwaitStep
<1> QED BY <1>2, <1>3 DEF ById

\* What the replay finds may answer the request; if the block was in hand before,
\* the replay finds it, whatever became of the branch.
LEMMA ReplayFacts ==
    ASSUME IInv, NEW c \in Clients, stage[c] = "replay"
    PROVE  LET found == BlocksById(RemoveHexPrefix(IndexHashInHand(c)))
           IN  /\ \A b \in found : Held(ask[c], b, was[c], stored)
               /\ found = {} => Right(ask[c], Error("blockNotFound"), was[c], left[c], stored)
<1>1. /\ Waiting(c) /\ stored \subseteq Blocks
      /\ \/ Held(ask[c], got[c], was[c], stored)
         \/ got[c] = NoBlock /\ ByHashAlone(ask[c])
  BY AtHand DEF Waiting, Awaiting, StageOK
<1>2. CASE Held(ask[c], got[c], was[c], stored)
  <2>1. got[c] # NoBlock /\ got[c] \in stored /\ got[c] \in Blocks
    BY <1>1, <1>2, AbsentAssumption DEF Held
  <2>2. IndexHashInHand(c) = IndexBlockHash(got[c])
    BY <2>1 DEF IndexHashInHand
  <2>3. /\ IndexBlockHash(got[c]) \in Hashes
        /\ AddHexPrefix(IndexBlockHash(got[c])) = IndexBlockHash(got[c])
    BY <2>1, BlockHashFacts DEF IndexBlockHash, Kinds
  <2>4. BlocksById(RemoveHexPrefix(IndexBlockHash(got[c])))
          = {b \in stored : IndexBlockHash(got[c]) = IndexBlockHash(b)}
    BY <1>1, <2>3, ByIdFacts
  <2>5. \A b \in stored : IndexBlockHash(got[c]) = IndexBlockHash(b) => b = got[c]
    BY HashInjective DEF IndexBlockHash
  <2>6. BlocksById(RemoveHexPrefix(IndexBlockHash(got[c]))) = {got[c]}
    BY <2>1, <2>4, <2>5
  <2> QED BY <1>2, <2>2, <2>6
<1>3. CASE got[c] = NoBlock /\ ByHashAlone(ask[c])
  <2>1. IndexHashInHand(c) = ask[c].hash BY <1>3 DEF IndexHashInHand
  <2> QED BY <1>1, <1>3, <2>1, ByHashAloneFacts
<1> QED BY <1>1, <1>2, <1>3

\* The parent of a block is either displayed as the mode says or not stored.
LEMMA ParentIdentifierFacts ==
    ASSUME NEW b \in Blocks, NEW k \in Kinds
    PROVE  /\ ParentIdentifier(b, BlockHashOf(k, Parent[b])) \in Identifiers
           /\ ParentIdentifier(b, BlockHashOf(k, Parent[b])).index = Height[b] - 1
           /\ ParentIdentifier(b, BlockHashOf(k, Parent[b])).hash = BlockHashOf(k, Parent[b])
<1>1. Height[b] \in Nat /\ Height[b] > 0 /\ Parent[b] \in Blocks \cup {Boot}
  BY TreeFacts
<1>2. BlockHashOf(k, Parent[b]) \in Hashes BY <1>1, BlockHashFacts
<1>3. Height[b] - 1 \in Nat BY <1>1
<1> QED BY <1>1, <1>2, <1>3 DEF ParentIdentifier, Identifiers

\* The replay preserves it, whichever endpoint asked for it.
LEMMA ReplayStep ==
    ASSUME IInv, NEW c \in Clients, Replay(c)
    PROVE  IInv'
<1> DEFINE q == ask[c]
           found == BlocksById(RemoveHexPrefix(IndexHashInHand(c)))
<1>1. /\ stage[c] = "replay" /\ Waiting(c) /\ UNCHANGED <<node, was, left>>
      /\ q.op \in {"block", "transaction"} /\ stored \subseteq Blocks /\ q.mode \in Kinds
  BY AtHand DEF Replay, Waiting, Awaiting, StageOK
<1>2. \A b \in found : Held(q, b, was[c], stored)
  BY <1>1, ReplayFacts
<1>3. CASE found = {} /\ Throw(c, "StacksRpcBlockNotFoundError")
  <2>1. Error("blockNotFound") \in Errors BY ErrorFacts DEF ErrorCodes
  <2> QED BY <1>1, <1>3, <2>1, ErrorFacts, ReplayFacts, AnswerStep DEF Throw
<1>4. ASSUME NEW b \in found, q.op = "transaction", Answer(c, TransactionAnswer(b, q.tx))
      PROVE  IInv'
  <2>1. b \in stored /\ b \in Blocks /\ MayAnswer(q, b, was[c]) /\ Names(q, b)
    <3>1. q.given BY <1>4, AtHand DEF WellFormed
    <3> QED BY <1>1, <1>2, <1>4, <3>1 DEF Held, MayAnswer
  <2>2. CASE q.tx \in TxsOf[b]
    <3>1. TransactionAnswer(b, q.tx) = Ok(NoId, NoId, b, "none")
      BY <2>2 DEF TransactionAnswer
    <3> QED BY <1>1, <1>4, <2>1, <2>2, <3>1, TransactionRight, AnswerStep
  <2>3. CASE q.tx \notin TxsOf[b]
    <3>1. TransactionAnswer(b, q.tx) = Error("transactionNotFound")
      BY <2>3, ErrorFacts DEF TransactionAnswer
    <3>2. Error("transactionNotFound") \in Errors BY ErrorFacts DEF ErrorCodes
    <3>3. Right(q, Error("transactionNotFound"), was[c], left[c], stored)
      BY <2>1, <2>3, ErrorFacts DEF Right, RightRefusal, ErrorCodes
    <3> QED BY <1>1, <1>4, <3>1, <3>2, <3>3, AnswerStep
  <2> QED BY <2>2, <2>3
<1>5. ASSUME NEW b \in found, q.op = "block", q.mode = "block_hash", Await(c, "parent", b)
      PROVE  IInv'
  <2>1. StageOK("parent", q, b, nodeInfo[c], was[c], stored)
    BY <1>2, <1>5 DEF StageOK
  <2>2. b \in Blocks /\ "parent" \in Awaiting BY <1>1, <1>2, <1>5 DEF Held, Awaiting
  <2> QED BY <1>1, <1>5, <2>1, <2>2, AwaitStep
<1>6. ASSUME NEW b \in found, q.op = "block", q.mode = "index_block_hash",
             Answer(c, BlockAnswer(q.mode, b, IndexBlockHash(Parent[b])))
      PROVE  IInv'
  <2>1. b \in stored /\ b \in Blocks /\ MayAnswer(q, b, was[c])
    BY <1>1, <1>2, <1>6 DEF Held
  <2> DEFINE p == ParentIdentifier(b, IndexBlockHash(Parent[b]))
  <2>2. /\ p \in Identifiers /\ p.index = Height[b] - 1
        /\ p.hash = BlockHashOf("index_block_hash", Parent[b])
    BY <2>1, ParentIdentifierFacts DEF IndexBlockHash, Kinds
  <2>3. BlockAnswer(q.mode, b, IndexBlockHash(Parent[b])) = Ok(Identifier(q.mode, b), p, NoBlock, "none")
    BY DEF BlockAnswer
  <2> HIDE DEF p
  <2>4. /\ Ok(Identifier(q.mode, b), p, NoBlock, "none") \in Oks
        /\ Right(q, Ok(Identifier(q.mode, b), p, NoBlock, "none"), was[c], left[c], stored)
    BY <1>1, <1>6, <2>1, <2>2, OkRight DEF Figures
  <2> QED BY <1>1, <1>6, <2>3, <2>4, AnswerStep
<1> QED BY <1>3, <1>4, <1>5, <1>6 DEF Replay

\* The parent is looked up by its own hash, so a reorg cannot change which block
\* is found.
LEMMA ParentHashStep ==
    ASSUME IInv, NEW c \in Clients, ParentHash(c)
    PROVE  IInv'
<1> DEFINE q == ask[c]
           b == got[c]
<1>1. /\ stage[c] = "parent" /\ Waiting(c) /\ UNCHANGED <<node, was, left>>
      /\ q.op = "block" /\ q.mode = "block_hash" /\ stored \subseteq Blocks
      /\ b \in stored /\ b \in Blocks /\ MayAnswer(q, b, was[c])
  BY AtHand DEF ParentHash, Waiting, Awaiting, StageOK, Held
<1>2. ParentsFound(b) = {x \in stored : x = Parent[b]}
  <2>1. Parent[b] \in Blocks \cup {Boot} BY <1>1, TreeFacts
  <2>2. /\ IndexBlockHash(Parent[b]) \in Hashes
        /\ AddHexPrefix(IndexBlockHash(Parent[b])) = IndexBlockHash(Parent[b])
    BY <2>1, BlockHashFacts DEF IndexBlockHash, Kinds
  <2>3. ParentsFound(b) = {x \in stored : IndexBlockHash(Parent[b]) = IndexBlockHash(x)}
    BY <1>1, <2>2, ByIdFacts DEF ParentsFound
  <2>4. \A x \in stored : IndexBlockHash(Parent[b]) = IndexBlockHash(x) <=> x = Parent[b]
    BY HashInjective DEF IndexBlockHash
  <2> QED BY <2>3, <2>4
<1>3. ASSUME NEW k \in Kinds, k = IF Parent[b] \in stored THEN q.mode ELSE "index_block_hash",
             Answer(c, BlockAnswer(q.mode, b, BlockHashOf(k, Parent[b])))
      PROVE  IInv'
  <2> DEFINE p == ParentIdentifier(b, BlockHashOf(k, Parent[b]))
  <2>1. p \in Identifiers /\ p.index = Height[b] - 1 /\ p.hash = BlockHashOf(k, Parent[b])
    BY <1>1, ParentIdentifierFacts
  <2>2. BlockAnswer(q.mode, b, BlockHashOf(k, Parent[b])) = Ok(Identifier(q.mode, b), p, NoBlock, "none")
    BY DEF BlockAnswer
  <2> HIDE DEF p
  <2>3. /\ Ok(Identifier(q.mode, b), p, NoBlock, "none") \in Oks
        /\ Right(q, Ok(Identifier(q.mode, b), p, NoBlock, "none"), was[c], left[c], stored)
    <3>1. q.mode \in Kinds /\ q.op # "transaction" /\ q.op # "balance" /\ "none" \in Figures
      BY <1>1 DEF Kinds, Figures
    <3>2. p.hash = BlockHashOf(IF Parent[b] \in stored THEN q.mode ELSE "index_block_hash", Parent[b])
      BY <1>3, <2>1
    <3> QED BY <1>1, <2>1, <3>1, <3>2, OkRight
  <2> QED BY <1>1, <1>3, <2>2, <2>3, AnswerStep
<1>4. CASE ParentsFound(b) = {} /\ Answer(c, BlockAnswer(q.mode, b, IndexBlockHash(Parent[b])))
  <2>1. Parent[b] \notin stored BY <1>2, <1>4
  <2> QED BY <1>3, <1>4, <2>1 DEF IndexBlockHash, Kinds
<1>5. ASSUME NEW x \in ParentsFound(b),
             Answer(c, BlockAnswer(q.mode, b, AddHexPrefix(BlockHashOf("block_hash", x))))
      PROVE  IInv'
  <2>1. x = Parent[b] /\ x \in stored BY <1>2, <1>5
  <2>2. AddHexPrefix(BlockHashOf("block_hash", x)) = BlockHashOf("block_hash", x)
    BY <1>1, <2>1, BlockHashFacts DEF Kinds
  <2> QED BY <1>1, <1>3, <1>5, <2>1, <2>2 DEF Kinds
<1> QED BY <1>4, <1>5 DEF ParentHash

\* /v2/info reads the height of a block that is on the branch.
LEMMA InfoStep ==
    ASSUME IInv, NEW c \in Clients, Info(c)
    PROVE  IInv'
<1> USE DEF IInv
<1>1. /\ stage[c] = "info" /\ Waiting(c)
      /\ stage' = [stage EXCEPT ![c] = "tipBlock"]
      /\ nodeInfo' = [nodeInfo EXCEPT ![c] = KeptOfInfo]
      /\ UNCHANGED <<chain, tip, stored, synced, ask, got, peers, answer, was, left>>
  BY DEF Info, node, Waiting, Awaiting
<1>2. /\ tip \in chain /\ tip \in Blocks
      /\ KeptOfInfo \in [height : Nat, synced : BOOLEAN] /\ KeptOfInfo.height = Height[tip]
  BY TreeFacts DEF TypeOK, KeptOfInfo
<1>3. TypeOK' BY <1>1, <1>2 DEF TypeOK, Awaiting
<1>4. NodeInv' BY <1>1 DEF NodeInv
<1>5. ASSUME NEW d \in Clients PROVE RequestInv(d)'
  <2>1. CASE d # c
    <3>1. stage'[d] = stage[d] /\ nodeInfo'[d] = nodeInfo[d] BY <1>1, <2>1 DEF TypeOK
    <3> QED BY <1>1, <3>1 DEF RequestInv, IdleLocals, StageInv, Watched, AnsweredInv, Waiting, Answered
  <2>2. CASE d = c
    <3>1. stage'[d] = "tipBlock" /\ nodeInfo'[d] = KeptOfInfo BY <1>1, <2>2 DEF TypeOK
    <3>2. tip \in was[d] BY <1>1, <1>2, <2>2, AtHand
    <3>3. StageInv(d)' BY <1>1, <1>2, <2>2, <3>1, <3>2 DEF RequestInv, StageInv, StageOK
    <3>4. Waiting(d)' BY <3>1 DEF Waiting, Awaiting
    <3> QED BY <1>1, <2>2, <3>1, <3>3, <3>4
            DEF RequestInv, IdleLocals, Watched, AnsweredInv, Answered
  <2> QED BY <2>1, <2>2
<1> QED BY <1>3, <1>4, <1>5

\* A /network/status answer about a block in hand is right.
LEMMA StatusRight ==
    ASSUME IInv, NEW c \in Clients, ask[c].op = "status", NEW b, NEW n,
           Held(ask[c], b, was[c], stored)
    PROVE  /\ StatusAnswer(ask[c].mode, b, n) \in Oks
           /\ Right(ask[c], StatusAnswer(ask[c].mode, b, n), was[c], left[c], stored)
<1>1. /\ b \in stored /\ stored \subseteq Blocks /\ MayAnswer(ask[c], b, was[c])
      /\ ask[c].mode \in Kinds
  BY AtHand DEF Held
<1>2. PICK f \in Figures : f = IF n.synced THEN "synced" ELSE "behind"
  BY DEF Figures
<1>3. StatusAnswer(ask[c].mode, b, n) = Ok(Identifier(ask[c].mode, b), NoId, NoBlock, f)
  BY <1>2 DEF StatusAnswer
<1> QED BY <1>1, <1>2, <1>3, OkRight

\* The block at the tip height, or its loss to a reorg, preserves it.
LEMMA TipBlockStep ==
    ASSUME IInv, NEW c \in Clients, TipBlock(c)
    PROVE  IInv'
<1> DEFINE q == ask[c]
<1>1. /\ stage[c] = "tipBlock" /\ Waiting(c) /\ UNCHANGED <<node, was, left>>
      /\ ~q.given /\ q.op \in {"balance", "status"}
      /\ chain \subseteq was[c] /\ chain \subseteq stored /\ stored \subseteq Blocks
  BY AtHand DEF TipBlock, Waiting, Awaiting, StageOK
<1>2. CASE Throw(c, "CoreRpcError")
  <2>1. HandleMeshError("CoreRpcError") \in Oks \cup Errors BY ErrorFacts DEF ErrorCodes
  <2> QED BY <1>1, <1>2, <2>1, InternalErrorRight, AnswerStep DEF Throw
<1>3. ASSUME NEW b \in BlocksAtHeight(nodeInfo[c].height), WithTipBlock(c, b)
      PROVE  IInv'
  <2>1. b \in chain /\ b \in Blocks /\ Held(q, b, was[c], stored)
    BY <1>1, <1>3 DEF BlocksAtHeight, Held, MayAnswer
  <2>2. CASE q.op = "balance" /\ Await(c, "account", b)
    <3>1. StageOK("account", q, b, nodeInfo[c], was[c], stored) BY <2>1, <2>2 DEF StageOK
    <3> QED BY <1>1, <2>1, <2>2, <3>1, AwaitStep DEF Awaiting
  <2>3. CASE q.op = "status" /\ Answer(c, StatusAnswer(q.mode, b, nodeInfo[c]))
    BY <1>1, <2>1, <2>3, StatusRight, AnswerStep
  <2>4. CASE q.op = "status" /\ Await(c, "neighbors", b)
    <3>1. StageOK("neighbors", q, b, nodeInfo[c], was[c], stored) BY <2>1, <2>4 DEF StageOK
    <3> QED BY <1>1, <2>1, <2>4, <3>1, AwaitStep DEF Awaiting
  <2> QED BY <1>1, <1>3, <2>2, <2>3, <2>4 DEF WithTipBlock
<1> QED BY <1>2, <1>3 DEF TipBlock

\* The neighbors half of /network/status preserves it, early or late.
LEMMA NeighborsStep ==
    ASSUME IInv, NEW c \in Clients, Neighbors(c)
    PROVE  IInv'
<1>1. UNCHANGED <<node, was, left>> /\ ask[c].op = "status" /\ Waiting(c)
  BY DEF Neighbors, AwaitsNeighbors, Waiting, Awaiting
<1>2. CASE stage[c] = "neighbors"
  <2>1. Held(ask[c], got[c], was[c], stored) BY <1>2, AtHand DEF StageOK
  <2> QED BY <1>1, <1>2, <2>1, StatusRight, AnswerStep DEF Neighbors
<1>3. CASE stage[c] # "neighbors"
  <2>1. /\ UNCHANGED <<stage, ask, got, nodeInfo, answer, chain, tip, stored, synced, was, left>>
        /\ peers' = [peers EXCEPT ![c] = TRUE]
    BY <1>1, <1>3 DEF Neighbors, node
  <2>2. TypeOK' BY <2>1 DEF IInv, TypeOK
  <2>3. NodeInv' BY <2>1 DEF IInv, NodeInv
  <2>4. \A d \in Clients : RequestInv(d)'
    BY <2>1 DEF IInv, RequestInv, IdleLocals, StageInv, Watched, AnsweredInv, Waiting, Answered
  <2> QED BY <2>2, <2>3, <2>4 DEF IInv
<1> QED BY <1>2, <1>3

\* The account is looked up in the state of the block that the tip parameter names,
\* which is there.
LEMMA AccountFound ==
    ASSUME NEW b \in stored, stored \subseteq Blocks
    PROVE  AccountStateAt(TipParameter(b)) = {b}
<1>1. /\ IndexBlockHash(b) \in Hashes
      /\ AddHexPrefix(IndexBlockHash(b)) = IndexBlockHash(b)
      /\ ~RemoveHexPrefix(IndexBlockHash(b)).prefixed
  BY BlockHashFacts, HashFacts DEF IndexBlockHash, Kinds
<1>2. AccountStateAt(TipParameter(b)) = BlocksById(RemoveHexPrefix(IndexBlockHash(b)))
  BY <1>1 DEF AccountStateAt, TipParameter
<1>3. @ = {x \in stored : IndexBlockHash(b) = IndexBlockHash(x)}
  BY <1>1, ByIdFacts
<1>4. \A x \in stored : IndexBlockHash(b) = IndexBlockHash(x) <=> x = b
  BY HashInjective DEF IndexBlockHash
<1> QED BY <1>2, <1>3, <1>4

\* The account is read at the block in hand: the unprefixed tip names it, and the
\* node still has it.
LEMMA AccountStep ==
    ASSUME IInv, NEW c \in Clients, Account(c)
    PROVE  IInv'
<1> DEFINE q == ask[c]
           b == got[c]
           figure == SubAccountReading(q.sub)
<1>1. /\ stage[c] = "account" /\ Waiting(c) /\ UNCHANGED <<node, was, left>>
      /\ q.op = "balance" /\ stored \subseteq Blocks /\ q.mode \in Kinds
      /\ b \in stored /\ b \in Blocks /\ MayAnswer(q, b, was[c])
  BY AtHand DEF Account, Waiting, Awaiting, StageOK, Held
<1>2. AccountStateAt(TipParameter(b)) = {b} BY <1>1, AccountFound
<1>3. CASE Throw(c, "CoreRpcError")
  <2>1. HandleMeshError("CoreRpcError") \in Oks \cup Errors BY ErrorFacts DEF ErrorCodes
  <2> QED BY <1>1, <1>3, <2>1, InternalErrorRight, AnswerStep DEF Throw
<1>4. CASE Answer(c, Error("invalidSubAccount"))
  <2>1. /\ Error("invalidSubAccount") \in Errors
        /\ Right(q, Error("invalidSubAccount"), was[c], left[c], stored)
    BY ErrorFacts DEF Right, RightRefusal, ErrorCodes
  <2> QED BY <1>1, <1>4, <2>1, AnswerStep
<1>5. CASE figure # "invalid" /\ Answer(c, Ok(Identifier(q.mode, b), NoId, b, figure))
  <2>1. figure \in Figures
    BY <1>5 DEF SubAccountReading, Figures
  <2> HIDE DEF figure
  <2>2. /\ Ok(Identifier(q.mode, b), NoId, b, figure) \in Oks
        /\ Right(q, Ok(Identifier(q.mode, b), NoId, b, figure), was[c], left[c], stored)
    BY <1>1, <2>1, OkRight
  <2> QED BY <1>1, <1>5, <2>2, AnswerStep
<1> QED BY <1>2, <1>3, <1>4, <1>5 DEF Account

-----------------------------------------------------------------------------
(* The invariant, and what it says of the properties.                      *)

\* A run starts with the root alone on the branch and no request.
LEMMA InitInv == Init => IInv
<1> SUFFICES ASSUME Init PROVE IInv OBVIOUS
<1>1. TypeOK
  BY AskAssumption, TreeFacts DEF Init, NodeInit, TypeOK, NoAsk, NoInfo, Asks, Ops, Kinds
<1>2. NodeInv BY TreeFacts DEF Init, NodeInit, NodeInv, Branches
<1>3. ASSUME NEW c \in Clients PROVE RequestInv(c)
  <2>1. stage[c] = "idle" /\ ask[c] = NoAsk /\ got[c] = NoBlock BY DEF Init
  <2>2. WellFormed(NoAsk) BY DEF WellFormed, NoAsk
  <2> QED BY <2>1, <2>2 DEF RequestInv, IdleLocals, StageInv, StageOK, Watched,
                            AnsweredInv, Waiting, Awaiting, Answered
<1> QED BY <1>1, <1>2, <1>3 DEF IInv

\* Every step, of the node, a client or a handler, preserves it.
LEMMA NextInv == IInv /\ [Next]_vars => IInv'
<1> SUFFICES ASSUME IInv, [Next]_vars PROVE IInv' OBVIOUS
<1>1. ASSUME NodeMoves PROVE IInv'
  BY <1>1, NodeStep
<1>2. ASSUME NEW c \in Clients, NEW a \in Requests, Ask(c, a) PROVE IInv'
  BY <1>2, AskStep
<1>3. ASSUME NEW c \in Clients, Leave(c) PROVE IInv'
  BY <1>3, LeaveStep
<1>4. ASSUME NEW c \in Clients, Handle(c) PROVE IInv'
  BY <1>4, ByHeightStep, ByIdStep, ReplayStep, ParentHashStep, InfoStep, TipBlockStep,
     NeighborsStep, AccountStep, RpcFailsStep DEF Handle
<1>5. CASE UNCHANGED vars
  BY <1>5 DEF vars, node, request, IInv, TypeOK, NodeInv, RequestInv, IdleLocals,
              StageInv, Watched, AnsweredInv, Waiting, Answered
<1> QED BY <1>1, <1>2, <1>3, <1>4, <1>5 DEF Next

\* The inductive invariant holds in every reachable state.
THEOREM Invariance == Spec => []IInv
BY InitInv, NextInv, PTL DEF Spec

\* The variables keep their types.
THEOREM TypeCorrect == Spec => []TypeOK
<1>1. IInv => TypeOK BY DEF IInv
<1> QED BY <1>1, Invariance, PTL

\* What an answered request's answer is known to be.
LEMMA AnswerFacts ==
    ASSUME IInv, NEW c \in Clients, Answered(c)
    PROVE  /\ answer[c].ok => /\ RightOk(ask[c], answer[c], was[c])
                              /\ RightParent(ask[c], answer[c], stored)
           /\ ~answer[c].ok => RightRefusal(ask[c], answer[c], was[c], left[c])
           /\ WellFormed(ask[c])
BY DEF IInv, RequestInv, AnsweredInv, Right

\* /account/balance reports the balance of the block it reports, for every tree
\* and every interleaving with reorgs, in both display modes.
THEOREM BalanceCoherence == Spec => []BalanceIsOfReportedBlock
<1>1. ASSUME IInv, NEW c \in Clients, stage[c] = "account"
      PROVE  AccountStateAt(TipParameter(got[c])) = {got[c]}
  <2>1. got[c] \in stored /\ stored \subseteq Blocks BY <1>1, AtHand DEF StageOK, Held
  <2> QED BY <2>1, AccountFound
<1>2. IInv => BalanceIsOfReportedBlock
  BY <1>1, AnswerFacts DEF BalanceIsOfReportedBlock, AnsweredOk, RightOk
<1> QED BY <1>2, Invariance, PTL

\* A successful answer is about the block the request named, and what it claims by
\* index or as the tip was on the node's branch while the request ran.
THEOREM AnswerIdentity == Spec => []AnswersTheBlockAsked
<1>1. IInv => AnswersTheBlockAsked
  BY AnswerFacts DEF AnswersTheBlockAsked, AnsweredOk, RightOk, MayAnswer
<1> QED BY <1>1, Invariance, PTL

\* /block links a block to its true parent, reorgs between the two RPCs included.
THEOREM ParentLinkage == Spec => []ParentIsLinked
<1>1. IInv => ParentIsLinked
  BY AnswerFacts DEF ParentIsLinked, AnsweredOk, RightParent, IInv, TypeOK
<1> QED BY <1>1, Invariance, PTL

\* A block identifier is refused only for a block that was off the branch while the
\* request ran (or, by hash alone, never on it).
THEOREM RefusalCause == Spec => []RefusalsHaveCause
<1>1. IInv => RefusalsHaveCause
  BY AnswerFacts DEF RefusalsHaveCause, RightRefusal
<1> QED BY <1>1, Invariance, PTL

\* /block/transaction finds a transaction exactly in the block it answers about.
THEOREM TransactionTruth == Spec => []TransactionFollowsBlock
<1>1. IInv => TransactionFollowsBlock
  BY AnswerFacts DEF TransactionFollowsBlock, RightOk, RightRefusal
<1> QED BY <1>1, Invariance, PTL

\* The chain-tip lookup loses its block only to a reorg that ran between its RPCs.
THEOREM TipMiss == Spec => []TipMissNeedsReorg
<1>1. ASSUME IInv, NEW c \in Clients, stage[c] = "tipBlock",
             BlocksAtHeight(nodeInfo[c].height) = {}
      PROVE  \E b \in was[c] \cap left[c] : Height[b] = nodeInfo[c].height
  <2>1. PICK b \in was[c] : Height[b] = nodeInfo[c].height
    BY <1>1, AtHand DEF StageOK
  <2>2. b \in Blocks /\ b \notin chain
    BY <1>1, <2>1 DEF BlocksAtHeight, IInv, TypeOK
  <2>3. b \in left[c]
    BY <1>1, <2>2, AtHand DEF Waiting, Awaiting
  <2> QED BY <2>1, <2>3
<1>2. IInv => TipMissNeedsReorg BY <1>1 DEF TipMissNeedsReorg
<1> QED BY <1>2, Invariance, PTL
============================================================================
