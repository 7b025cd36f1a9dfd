-------------------- MODULE ChainReadsConsistent_proofs --------------------
(***************************************************************************)
(* ChainReads implements ConsistentReads, for every block tree, any number *)
(* of clients and both display modes.                                      *)
(*                                                                         *)
(* The invariant says when a waiting request's answer is settled.  The     *)
(* history has all answers of a look at the present node; what /v2/info    *)
(* told a request about the tip is one of the looks it may have had; and   *)
(* once a block is in hand, the answer about it is in the history.         *)
(***************************************************************************)
EXTENDS ChainReadsConsistent, ChainReads_proofs

Remembered(c) ==
    /\ Reads!Looks(ask[c], looks[c], Reads!TipLook) = looks[c]
    /\ Reads!Answers(ask[c], looks[c]) \subseteq may[c]
    /\ stage[c] = "tipBlock" => nodeInfo[c] \in looks[c]
    /\ got[c] # NoBlock => Reads!AnswerAbout(ask[c], got[c], nodeInfo[c]) \in may[c]
MayInv ==
    /\ may = [c \in Clients |-> may[c]] /\ looks = [c \in Clients |-> looks[c]]
    /\ \A c \in Clients : Waiting(c) => Remembered(c)
    /\ \A c \in Clients : ~Waiting(c) => may[c] = {} /\ looks[c] = {}
RInv == IInv /\ MayInv

Phase == [c \in Clients |-> IF Waiting(c) THEN "pending" ELSE stage[c]]

-----------------------------------------------------------------------------
(* The abstract vocabulary is that of the handlers.                        *)

\* Errors and refusals read the same in both modules.
LEMMA SameErrors ==
    /\ \A code : Reads!Error(code) = Error(code)
    /\ \A a : Reads!RejectedAtOnce(a) = RejectedAtOnce(a)
    /\ Reads!Requests = Requests /\ Reads!NoAsk = NoAsk
BY DEF Reads!Error, Error, Reads!RejectedAtOnce, RejectedAtOnce, Reads!Requests, Requests,
       Reads!Asks, Asks, Reads!WellFormed, WellFormed, Reads!NoAsk, NoAsk, Reads!Ops, Ops,
       Reads!NoIndex, NoIndex, Reads!Kinds, Kinds

\* The answers about a block are the ones that the handlers put together.
LEMMA SameAnswers ==
    ASSUME NEW a, NEW b, NEW n
    PROVE  /\ a.op = "status" => Reads!AnswerAbout(a, b, n) = StatusAnswer(a.mode, b, n)
           /\ a.op = "transaction" => Reads!AnswerAbout(a, b, n) = TransactionAnswer(b, a.tx)
           /\ a.op = "block" =>
                Reads!AnswerAbout(a, b, n) =
                  Ok(Identifier(a.mode, b), Reads!ParentOf(a.mode, b), NoBlock, "none")
           /\ a.op = "balance" =>
                Reads!AnswerAbout(a, b, n) =
                  IF SubAccountReading(a.sub) = "invalid" THEN Error("invalidSubAccount")
                  ELSE Ok(Identifier(a.mode, b), NoId, b, SubAccountReading(a.sub))
<1>1. \A m : Reads!Identifier(m, b) = Identifier(m, b)
  BY DEF Reads!Identifier, Identifier, Reads!AddHexPrefix, AddHexPrefix,
         Reads!SelectDisplayBlockHash, SelectDisplayBlockHash, Reads!BlockHashOf, BlockHashOf
<1>2. \A i, p, s, f : Reads!Ok(i, p, s, f) = Ok(i, p, s, f)
  BY DEF Reads!Ok, Ok
<1>3. \A s : Reads!SubAccountReading(s) = SubAccountReading(s)
  BY DEF Reads!SubAccountReading, SubAccountReading
<1>4. CASE a.op = "status"
  BY <1>1, <1>2, <1>4 DEF Reads!AnswerAbout, StatusAnswer
<1>5. CASE a.op = "transaction"
  BY <1>2, <1>5, SameErrors, ErrorFacts DEF Reads!AnswerAbout, TransactionAnswer
<1>6. CASE a.op = "block"
  BY <1>1, <1>2, <1>6 DEF Reads!AnswerAbout
<1>7. CASE a.op = "balance"
  BY <1>1, <1>2, <1>3, <1>7, SameErrors DEF Reads!AnswerAbout
<1> QED BY <1>4, <1>5, <1>6, <1>7

\* Only /network/status tells what a look at the tip found.
LEMMA OnlyStatusTellsTheLook ==
    ASSUME NEW a, a.op \in Ops \ {"status"}, NEW b, NEW m, NEW n
    PROVE  Reads!AnswerAbout(a, b, m) = Reads!AnswerAbout(a, b, n)
BY DEF Reads!AnswerAbout, Ops

\* The parent identifier of /block, whichever way its hash is found.
LEMMA SameParent ==
    ASSUME NEW mode, NEW b \in Blocks, NEW k \in Kinds,
           k = IF b = Root THEN "index_block_hash" ELSE mode
    PROVE  BlockAnswer(mode, b, BlockHashOf(k, Parent[b])) =
             Ok(Identifier(mode, b), Reads!ParentOf(mode, b), NoBlock, "none")
<1>1. /\ Height[b] \in Nat /\ Height[b] > 0 /\ Parent[Root] = Boot
  BY TreeFacts, TreeAssumption
<1>2. ParentIdentifier(b, BlockHashOf(k, Parent[b])) = Reads!ParentOf(mode, b)
  BY <1>1 DEF ParentIdentifier, Reads!ParentOf, Reads!IndexBlockHash, Reads!BlockHashOf,
              Reads!SelectDisplayBlockHash, BlockHashOf
<1> QED BY <1>2 DEF BlockAnswer

\* The block that a request names, in the handlers' words.
LEMMA SameTarget ==
    ASSUME NEW a
    PROVE  /\ a.index # NoIndex => Reads!Target(a) = BlocksAtHeight(a.index)
           /\ a.index = NoIndex =>
                Reads!Target(a) = {b \in stored : AddHexPrefix(a.hash) = IndexBlockHash(b)}
BY DEF Reads!Target, Reads!BlocksAtHeight, BlocksAtHeight, Reads!AddHexPrefix, AddHexPrefix,
       Reads!IndexBlockHash, IndexBlockHash, Reads!BlockHashOf, BlockHashOf,
       Reads!NoIndex, NoIndex

\* A given hash disagrees when the handler's comparison says so.
LEMMA SameCheck ==
    ASSUME NEW a, a.mode \in Kinds, NEW b \in Blocks
    PROVE  Reads!Disagrees(a, b) <=>
             a.index # NoIndex /\ a.hash # NoHash /\ ~HashMatches(a.mode, a.hash, b)
<1>1. AddHexPrefix(HeaderHashForMode(a.mode, b)) = HeaderHashForMode(a.mode, b)
  BY BlockHashFacts DEF HeaderHashForMode
<1>2. Reads!SelectDisplayBlockHash(a.mode, b) = HeaderHashForMode(a.mode, b)
  BY DEF Reads!SelectDisplayBlockHash, HeaderHashForMode, Reads!BlockHashOf, BlockHashOf
<1> QED BY <1>1, <1>2 DEF Reads!Disagrees, HashMatches, Reads!AddHexPrefix, AddHexPrefix,
                          Reads!NoIndex, NoIndex

\* What a look at the node now would answer a request that names a block.
LEMMA AnswersNow ==
    ASSUME NEW a, a.given, a.op \in Ops \ {"status"}, NEW seen, NEW n
    PROVE  /\ Reads!Target(a) = {} => Error("blockNotFound") \in Reads!Answers(a, seen)
           /\ \A b \in Reads!Target(a) :
                /\ Reads!Disagrees(a, b) =>
                     Error("invalidBlockIdentifier") \in Reads!Answers(a, seen)
                /\ ~Reads!Disagrees(a, b) =>
                     Reads!AnswerAbout(a, b, n) \in Reads!Answers(a, seen)
<1>1. Reads!Answers(a, seen) = Reads!NamedAnswers(a) BY DEF Reads!Answers
<1>2. \A b : Reads!AnswerAbout(a, b, n) = Reads!AnswerAbout(a, b, Reads!TipLook)
  BY OnlyStatusTellsTheLook
<1> QED BY <1>1, <1>2, SameErrors DEF Reads!NamedAnswers

\* What a second look now would answer a request about the tip.
LEMMA TipAnswersNow ==
    ASSUME NEW a, ~a.given, NEW seen, NEW n \in seen, NEW b \in BlocksAtHeight(n.height)
    PROVE  Reads!AnswerAbout(a, b, n) \in Reads!Answers(a, seen)
BY DEF Reads!Answers, Reads!TipAnswers, Reads!BlocksAtHeight, BlocksAtHeight

-----------------------------------------------------------------------------
(* The ways a step maps to the abstract specification.                     *)

\* A node that stands still answers the same, by whichever client it is asked.
LEMMA SameLook ==
    ASSUME UNCHANGED node, NEW d \in Clients, ask'[d] = ask[d], looks'[d] = looks[d]
    PROVE  /\ Reads!Answers(ask[d], looks[d])' = Reads!Answers(ask[d], looks[d])
           /\ Reads!TipLook' = Reads!TipLook
<1>1. Reads!TipLook' = Reads!TipLook BY DEF node, Reads!TipLook
<1>2. Reads!Answers(ask[d], looks[d])' = Reads!Answers(ask[d], looks[d])
  BY <1>1 DEF node, Reads!Answers, Reads!NamedAnswers, Reads!TipAnswers, Reads!Target,
         Reads!Disagrees, Reads!BlocksAtHeight, Reads!AnswerAbout
<1> QED BY <1>1, <1>2

\* A request in whose await nothing changed is remembered as before.
LEMMA RememberedStays ==
    ASSUME UNCHANGED node, NEW d \in Clients, Remembered(d), may'[d] = may[d],
           looks'[d] = looks[d], ask'[d] = ask[d], got'[d] = got[d], stage'[d] = stage[d],
           nodeInfo'[d] = nodeInfo[d]
    PROVE  Remembered(d)'
<1>1. (got[d] # NoBlock => Reads!AnswerAbout(ask[d], got[d], nodeInfo[d]) \in may[d])'
  BY DEF Remembered, Reads!AnswerAbout
<1>2. (stage[d] = "tipBlock" => nodeInfo[d] \in looks[d])'
  BY DEF Remembered
<1>3. (Reads!Answers(ask[d], looks[d]) \subseteq may[d])'
  BY SameLook DEF Remembered
<1>4. (Reads!Looks(ask[d], looks[d], Reads!TipLook) = looks[d])'
  BY SameLook DEF Remembered, Reads!Looks
<1> QED BY <1>1, <1>2, <1>3, <1>4 DEF Remembered

\* While the node stands still and a request goes on waiting, its memory stays.
LEMMA MemoryStays ==
    ASSUME RInv, Remember, UNCHANGED node, NEW d \in Clients,
           Waiting(d), Waiting(d)', ask'[d] = ask[d]
    PROVE  may'[d] = may[d] /\ looks'[d] = looks[d]
<1>1. Remembered(d) BY DEF RInv, MayInv
<1>2. looks'[d] = looks[d]
  <2>1. looks'[d] = Reads!Looks(ask[d], looks[d], Reads!TipLook') BY DEF Remember
  <2>2. Reads!TipLook' = Reads!TipLook BY DEF node, Reads!TipLook
  <2> QED BY <1>1, <2>1, <2>2 DEF Remembered
<1>3. Reads!Answers(ask[d], looks[d])' = Reads!Answers(ask[d], looks[d])
  BY <1>2, SameLook
<1>4. may'[d] = may[d] \cup Reads!Answers(ask[d], looks[d])'
  BY DEF Remember
<1> QED BY <1>1, <1>2, <1>3, <1>4 DEF Remembered

\* A request that does not wait before and after a step remembers nothing.
LEMMA NothingRemembered ==
    ASSUME RInv, Remember, NEW d \in Clients, ~Waiting(d), ~Waiting(d)'
    PROVE  may'[d] = may[d] /\ looks'[d] = looks[d]
BY DEF RInv, MayInv, Remember

\* A handler's step that answers with a remembered answer, or an internal error, is
\* the abstract reply.
LEMMA AnswerMaps ==
    ASSUME RInv, Remember, NEW c \in Clients, Waiting(c), NEW r, Answer(c, r), UNCHANGED node,
           r \in may[c] \cup {Error("internalError")}
    PROVE  Reads!Reply(c) /\ MayInv'
<1>1. TypeOK /\ MayInv BY DEF RInv, IInv
<1>2. /\ stage' = [stage EXCEPT ![c] = "answered"] /\ answer' = [answer EXCEPT ![c] = r]
      /\ got' = [got EXCEPT ![c] = NoBlock] /\ nodeInfo' = [nodeInfo EXCEPT ![c] = NoInfo]
      /\ ask' = ask
  BY DEF Answer
<1>3. stage'[c] = "answered" /\ ~Waiting(c)'
  BY <1>1, <1>2 DEF TypeOK, Waiting, Awaiting
<1>4. \A d \in Clients \ {c} : /\ stage'[d] = stage[d] /\ Waiting(d)' = Waiting(d)
                               /\ got'[d] = got[d] /\ nodeInfo'[d] = nodeInfo[d]
  BY <1>1, <1>2 DEF TypeOK, Waiting
<1>5. \A d \in Clients : /\ may'[d] = IF d = c THEN {} ELSE may[d]
                       /\ looks'[d] = IF d = c THEN {} ELSE looks[d]
  <2>1. may'[c] = {} /\ looks'[c] = {} BY <1>3 DEF Remember
  <2>2. ASSUME NEW d \in Clients \ {c} PROVE may'[d] = may[d] /\ looks'[d] = looks[d]
    <3>1. CASE Waiting(d) BY <1>2, <1>4, <3>1, MemoryStays
    <3>2. CASE ~Waiting(d) BY <1>4, <3>2, NothingRemembered
    <3> QED BY <3>1, <3>2
  <2> QED BY <2>1, <2>2
<1>6. may' = [d \in Clients |-> may'[d]] /\ looks' = [d \in Clients |-> looks'[d]]
  BY DEF Remember
<1>7. may' = [may EXCEPT ![c] = {}] /\ looks' = [looks EXCEPT ![c] = {}]
  BY <1>1, <1>5, <1>6 DEF MayInv
<1>8. Phase[c] = "pending" /\ Phase' = [Phase EXCEPT ![c] = "answered"]
  BY <1>3, <1>4 DEF Phase
<1>9. Reads!Reply(c)
  BY <1>2, <1>7, <1>8, SameErrors DEF Reads!Reply, Reads!node, node, Phase
<1>10. MayInv'
  <2>1. ASSUME NEW d \in Clients, Waiting(d)' PROVE Remembered(d)'
    <3>1. d # c /\ Waiting(d) BY <1>3, <1>4, <2>1
    <3>2. Remembered(d) BY <1>1, <3>1 DEF MayInv
    <3>3. /\ may'[d] = may[d] /\ looks'[d] = looks[d] /\ got'[d] = got[d]
          /\ nodeInfo'[d] = nodeInfo[d]
          /\ stage'[d] = stage[d] /\ ask'[d] = ask[d]
      BY <1>2, <1>4, <1>5, <3>1
    <3> QED BY <3>2, <3>3, RememberedStays
  <2>2. \A d \in Clients : ~Waiting(d)' => may'[d] = {} /\ looks'[d] = {}
    BY DEF Remember
  <2> QED BY <1>6, <2>1, <2>2 DEF MayInv
<1> QED BY <1>9, <1>10

\* A handler's step to another await is no step of the abstract specification, and
\* preserves the invariant if what is in hand afterwards may be answered.
LEMMA AwaitMaps ==
    ASSUME RInv, Remember, NEW c \in Clients, Waiting(c), UNCHANGED <<node, ask, answer>>,
           TypeOK', Waiting(c)',
           \A d \in Clients \ {c} : /\ stage'[d] = stage[d] /\ got'[d] = got[d]
                                    /\ nodeInfo'[d] = nodeInfo[d],
           got'[c] # NoBlock => Reads!AnswerAbout(ask[c], got'[c], nodeInfo'[c]) \in may[c],
           stage'[c] = "tipBlock" => nodeInfo'[c] \in looks[c]
    PROVE  (UNCHANGED <<Reads!node, Reads!clients>>) /\ MayInv'
<1>1. TypeOK /\ MayInv BY DEF RInv, IInv
<1>2. \A d \in Clients : Waiting(d)' = Waiting(d)
  BY DEF Waiting
<1>3. \A d \in Clients : may'[d] = may[d] /\ looks'[d] = looks[d]
  BY <1>2, MemoryStays, NothingRemembered
<1>4. may' = [d \in Clients |-> may'[d]] /\ looks' = [d \in Clients |-> looks'[d]]
  BY DEF Remember
<1>5. may' = may /\ looks' = looks BY <1>1, <1>3, <1>4 DEF MayInv
<1>6. Phase' = Phase BY <1>2 DEF Phase, Waiting
<1>7. UNCHANGED <<Reads!node, Reads!clients>>
  BY <1>5, <1>6 DEF Reads!node, node, Reads!clients, Phase
<1>8. MayInv'
  <2>1. ASSUME NEW d \in Clients, Waiting(d)' PROVE Remembered(d)'
    <3>1. Remembered(d) BY <1>1, <1>2, <2>1 DEF MayInv
    <3>2. CASE d = c
      <4>1. /\ (Reads!Looks(ask[d], looks[d], Reads!TipLook) = looks[d])'
            /\ (Reads!Answers(ask[d], looks[d]) \subseteq may[d])'
        BY <1>5, <3>1, SameLook DEF Remembered, Reads!Looks
      <4>2. (got[d] # NoBlock => Reads!AnswerAbout(ask[d], got[d], nodeInfo[d]) \in may[d])'
        BY <1>5, <3>2 DEF Reads!AnswerAbout
      <4>3. (stage[d] = "tipBlock" => nodeInfo[d] \in looks[d])'
        BY <1>5, <3>2
      <4> QED BY <4>1, <4>2, <4>3 DEF Remembered
    <3>3. CASE d # c
      <4>1. stage'[d] = stage[d] /\ got'[d] = got[d] /\ nodeInfo'[d] = nodeInfo[d]
        BY <3>3
      <4> QED BY <1>5, <3>1, <4>1, RememberedStays
    <3> QED BY <3>2, <3>3
  <2>2. \A d \in Clients : ~Waiting(d)' => may'[d] = {} /\ looks'[d] = {}
    BY DEF Remember
  <2> QED BY <1>4, <2>1, <2>2 DEF MayInv
<1> QED BY <1>7, <1>8

\* An internal error is a reply at any time.
LEMMA FailureMaps ==
    ASSUME RInv, Remember, NEW c \in Clients, Waiting(c), Throw(c, "CoreRpcError"),
           UNCHANGED node
    PROVE  Reads!Reply(c) /\ MayInv'
<1>1. HandleMeshError("CoreRpcError") \in may[c] \cup {Error("internalError")}
  BY ErrorFacts
<1> QED BY <1>1, AnswerMaps DEF Throw

-----------------------------------------------------------------------------
(* Every step of ChainReads.                                               *)

Mapped == [Reads!Next]_(<<Reads!node, Reads!clients>>) /\ MayInv'

\* What a handler knows of its request when a step of it starts.
LEMMA Remembering ==
    ASSUME RInv, NEW c \in Clients, Waiting(c)
    PROVE  /\ Reads!Looks(ask[c], looks[c], Reads!TipLook) = looks[c]
           /\ Reads!Answers(ask[c], looks[c]) \subseteq may[c]
           /\ got[c] # NoBlock => Reads!AnswerAbout(ask[c], got[c], nodeInfo[c]) \in may[c]
           /\ stage[c] = "tipBlock" => nodeInfo[c] \in looks[c]
           /\ StageOK(stage[c], ask[c], got[c], nodeInfo[c], was[c], stored)
           /\ ask[c] \in Asks /\ WellFormed(ask[c]) /\ ask[c].mode \in Kinds
           /\ chain \subseteq stored /\ stored \subseteq Blocks
           /\ NoBlock \notin Blocks
BY AtHand, AbsentAssumption DEF RInv, MayInv, Remembered

\* A step to another await maps if the block it takes in hand may be answered.
LEMMA HandOver ==
    ASSUME RInv, TypeOK', Remember, NEW c \in Clients, Waiting(c), UNCHANGED node,
           NEW next \in Awaiting \ {"tipBlock"}, NEW b, Await(c, next, b),
           Reads!AnswerAbout(ask[c], b, nodeInfo[c]) \in may[c]
    PROVE  Mapped
<1>1. /\ stage' = [stage EXCEPT ![c] = next] /\ got' = [got EXCEPT ![c] = b]
      /\ UNCHANGED <<ask, nodeInfo, answer>>
  BY DEF Await
<1>2. TypeOK BY DEF RInv, IInv
<1>3. /\ stage'[c] = next /\ got'[c] = b /\ Waiting(c)'
      /\ \A d \in Clients \ {c} : /\ stage'[d] = stage[d] /\ got'[d] = got[d]
                                  /\ nodeInfo'[d] = nodeInfo[d]
  BY <1>1, <1>2 DEF TypeOK, Waiting
<1>4. UNCHANGED <<Reads!node, Reads!clients>> /\ MayInv'
  BY <1>1, <1>3, AwaitMaps
<1> QED BY <1>4 DEF Mapped

\* An answer maps if it may be given.
LEMMA HandOut ==
    ASSUME RInv, Remember, NEW c \in Clients, Waiting(c), UNCHANGED node,
           NEW r \in may[c], Answer(c, r)
    PROVE  Mapped
<1>1. Reads!Reply(c) /\ MayInv' BY AnswerMaps
<1> QED BY <1>1 DEF Mapped, Reads!Next

\* A failing RPC maps to a reply.
LEMMA FailureMapped ==
    ASSUME RInv, Remember, NEW c \in Clients, Waiting(c), UNCHANGED node,
           Throw(c, "CoreRpcError")
    PROVE  Mapped
<1>1. Reads!Reply(c) /\ MayInv' BY FailureMaps
<1> QED BY <1>1 DEF Mapped, Reads!Next

\* The height fetch settles an indexed request: with the block of the branch, with
\* its absence, or with the hash that disagrees.
LEMMA ByHeightMapped ==
    ASSUME RInv, TypeOK', Remember, NEW c \in Clients, ByHeight(c)
    PROVE  Mapped
<1> DEFINE q == ask[c]
<1>1. Waiting(c) /\ stage[c] = "byHeight" /\ UNCHANGED node
  BY DEF ByHeight, Waiting, Awaiting
<1>2. /\ q.given /\ q.index # NoIndex /\ q.op \in Ops \ {"status"} /\ q.mode \in Kinds
      /\ Reads!Answers(q, looks[c]) \subseteq may[c] /\ chain \subseteq Blocks
  BY <1>1, Remembering DEF StageOK, Asks
<1>3. Reads!Target(q) = BlocksAtHeight(q.index) BY <1>2, SameTarget
<1>4. BlocksAtHeight(q.index) \subseteq Blocks BY <1>2 DEF BlocksAtHeight
<1>5. CASE BlocksAtHeight(q.index) = {} /\ Throw(c, "StacksRpcBlockNotFoundError")
  <2>1. Error("blockNotFound") \in may[c] BY <1>2, <1>3, <1>5, AnswersNow
  <2> QED BY <1>1, <1>5, <2>1, ErrorFacts, HandOut DEF Throw
<1>6. ASSUME NEW b \in BlocksAtHeight(q.index), q.hash # NoHash, ~HashMatches(q.mode, q.hash, b),
             Throw(c, "StacksRpcInvalidBlockIdentifierError")
      PROVE  Mapped
  <2>1. Reads!Disagrees(q, b) BY <1>2, <1>4, <1>6, SameCheck
  <2>2. Error("invalidBlockIdentifier") \in may[c] BY <1>2, <1>3, <1>6, <2>1, AnswersNow
  <2> QED BY <1>1, <1>6, <2>2, ErrorFacts, HandOut DEF Throw
<1>7. ASSUME NEW b \in BlocksAtHeight(q.index), q.hash # NoHash => HashMatches(q.mode, q.hash, b),
             Await(c, IF q.op = "balance" THEN "account" ELSE "replay", b)
      PROVE  Mapped
  <2>1. ~Reads!Disagrees(q, b) BY <1>2, <1>4, <1>7, SameCheck
  <2>2. Reads!AnswerAbout(q, b, nodeInfo[c]) \in may[c]
    BY <1>2, <1>3, <1>7, <2>1, AnswersNow
  <2>3. (IF q.op = "balance" THEN "account" ELSE "replay") \in Awaiting \ {"tipBlock"}
    BY DEF Awaiting
  <2> QED BY <1>1, <1>7, <2>2, <2>3, HandOver
<1> QED BY <1>5, <1>6, <1>7 DEF ByHeight

\* A request by hash alone is settled by whether the node stores the block.
LEMMA HashAlone ==
    ASSUME RInv, NEW c \in Clients, Waiting(c), ByHashAlone(ask[c])
    PROVE  /\ BlocksById(RemoveHexPrefix(ask[c].hash)) = {} =>
                Error("blockNotFound") \in may[c]
           /\ \A b \in BlocksById(RemoveHexPrefix(ask[c].hash)) :
                b \in stored /\ Reads!AnswerAbout(ask[c], b, nodeInfo[c]) \in may[c]
<1> DEFINE q == ask[c]
<1>1. /\ q.given /\ q.index = NoIndex /\ q.hash \in Hashes /\ q.mode \in Kinds
      /\ q.op \in Ops \ {"status"}
      /\ Reads!Answers(q, looks[c]) \subseteq may[c] /\ stored \subseteq Blocks
  BY Remembering, AskAssumption DEF ByHashAlone, Asks, WellFormed
<1>2. Reads!Target(q) = BlocksById(RemoveHexPrefix(q.hash))
  BY <1>1, SameTarget, ByIdFacts
<1>3. BlocksById(RemoveHexPrefix(q.hash)) \subseteq stored BY DEF BlocksById
<1>4. \A b \in Blocks : ~Reads!Disagrees(q, b) BY <1>1, SameCheck
<1>5. ASSUME NEW b \in BlocksById(RemoveHexPrefix(q.hash))
      PROVE  b \in stored /\ Reads!AnswerAbout(q, b, nodeInfo[c]) \in may[c]
  BY <1>1, <1>2, <1>3, <1>4, AnswersNow
<1> QED BY <1>1, <1>2, <1>5, AnswersNow

\* The header fetch by hash.
LEMMA ByIdMapped ==
    ASSUME RInv, TypeOK', Remember, NEW c \in Clients, ById(c)
    PROVE  Mapped
<1>1. Waiting(c) /\ stage[c] = "byId" /\ UNCHANGED node
  BY DEF ById, Waiting, Awaiting
<1>2. ByHashAlone(ask[c]) BY <1>1, Remembering DEF StageOK
<1>3. CASE /\ BlocksById(RemoveHexPrefix(ask[c].hash)) = {}
           /\ Throw(c, "StacksRpcBlockNotFoundError")
  <2>1. Error("blockNotFound") \in may[c] BY <1>1, <1>2, <1>3, HashAlone
  <2> QED BY <1>1, <1>3, <2>1, ErrorFacts, HandOut DEF Throw
<1>4. ASSUME NEW b \in BlocksById(RemoveHexPrefix(ask[c].hash)), Await(c, "account", b)
      PROVE  Mapped
  <2>1. Reads!AnswerAbout(ask[c], b, nodeInfo[c]) \in may[c] BY <1>1, <1>2, <1>4, HashAlone
  <2> QED BY <1>1, <1>4, <2>1, HandOver DEF Awaiting
<1> QED BY <1>1, <1>3, <1>4 DEF ById

\* A stored block is found by its index block hash, and no other is.
LEMMA FoundById ==
    ASSUME stored \subseteq Blocks, NEW b \in Blocks \cup {Boot}
    PROVE  BlocksById(RemoveHexPrefix(IndexBlockHash(b))) = {x \in stored : x = b}
<1>1. /\ IndexBlockHash(b) \in Hashes
      /\ AddHexPrefix(IndexBlockHash(b)) = IndexBlockHash(b)
  BY BlockHashFacts DEF IndexBlockHash, Kinds
<1>2. BlocksById(RemoveHexPrefix(IndexBlockHash(b)))
        = {x \in stored : IndexBlockHash(b) = IndexBlockHash(x)}
  BY <1>1, ByIdFacts
<1>3. \A x \in stored : IndexBlockHash(b) = IndexBlockHash(x) <=> x = b
  BY HashInjective DEF IndexBlockHash
<1> QED BY <1>2, <1>3

\* The replay finds the block in hand whatever became of the branch; without one it
\* decides a request by hash alone.
LEMMA ReplayFinds ==
    ASSUME RInv, NEW c \in Clients, stage[c] = "replay"
    PROVE  /\ BlocksById(RemoveHexPrefix(IndexHashInHand(c))) = {} =>
                Error("blockNotFound") \in may[c]
           /\ \A b \in BlocksById(RemoveHexPrefix(IndexHashInHand(c))) :
                b \in stored /\ Reads!AnswerAbout(ask[c], b, nodeInfo[c]) \in may[c]
<1>1. Waiting(c) BY DEF Waiting, Awaiting
<1>2. /\ \/ got[c] \in stored /\ got[c] \in Blocks /\ got[c] # NoBlock
         \/ got[c] = NoBlock /\ ByHashAlone(ask[c])
      /\ got[c] # NoBlock => Reads!AnswerAbout(ask[c], got[c], nodeInfo[c]) \in may[c]
      /\ stored \subseteq Blocks
  BY <1>1, Remembering DEF StageOK, Held
<1>3. CASE got[c] \in stored /\ got[c] \in Blocks /\ got[c] # NoBlock
  <2>1. BlocksById(RemoveHexPrefix(IndexHashInHand(c))) = {got[c]}
    BY <1>2, <1>3, FoundById DEF IndexHashInHand
  <2> QED BY <1>2, <1>3, <2>1
<1>4. CASE got[c] = NoBlock /\ ByHashAlone(ask[c])
  <2>1. IndexHashInHand(c) = ask[c].hash BY <1>4 DEF IndexHashInHand
  <2> QED BY <1>1, <1>4, <2>1, HashAlone
<1> QED BY <1>2, <1>3, <1>4

\* The replay answers, or hands the block over to the parent lookup.
LEMMA ReplayMapped ==
    ASSUME RInv, TypeOK', Remember, NEW c \in Clients, Replay(c)
    PROVE  Mapped
<1> DEFINE q == ask[c]
           found == BlocksById(RemoveHexPrefix(IndexHashInHand(c)))
<1>1. Waiting(c) /\ stage[c] = "replay" /\ UNCHANGED node
  BY DEF Replay, Waiting, Awaiting
<1>2. /\ found = {} => Error("blockNotFound") \in may[c]
      /\ \A b \in found : b \in Blocks /\ Reads!AnswerAbout(q, b, nodeInfo[c]) \in may[c]
  BY <1>1, ReplayFinds, Remembering
<1>3. CASE found = {} /\ Throw(c, "StacksRpcBlockNotFoundError")
  BY <1>1, <1>2, <1>3, ErrorFacts, HandOut DEF Throw
<1>4. ASSUME NEW b \in found, q.op = "transaction", Answer(c, TransactionAnswer(b, q.tx))
      PROVE  Mapped
  <2>1. TransactionAnswer(b, q.tx) \in may[c] BY <1>2, <1>4, SameAnswers
  <2> QED BY <1>1, <1>4, <2>1, HandOut
<1>5. ASSUME NEW b \in found, Await(c, "parent", b)
      PROVE  Mapped
  <2>1. "parent" \in Awaiting \ {"tipBlock"} BY DEF Awaiting
  <2> QED BY <1>1, <1>2, <1>5, <2>1, HandOver
<1>6. ASSUME NEW b \in found, q.op = "block", q.mode = "index_block_hash",
             Answer(c, BlockAnswer(q.mode, b, IndexBlockHash(Parent[b])))
      PROVE  Mapped
  <2>1. BlockAnswer(q.mode, b, BlockHashOf("index_block_hash", Parent[b]))
          = Ok(Identifier(q.mode, b), Reads!ParentOf(q.mode, b), NoBlock, "none")
    BY <1>2, <1>6, SameParent DEF Kinds
  <2>2. BlockAnswer(q.mode, b, IndexBlockHash(Parent[b])) \in may[c]
    BY <1>2, <1>6, <2>1, SameAnswers DEF IndexBlockHash
  <2> QED BY <1>1, <1>6, <2>2, HandOut
<1> QED BY <1>3, <1>4, <1>5, <1>6 DEF Replay

\* The parent lookup finds the parent unless the block is the root, whose parent no
\* look at the node would find.
LEMMA ParentHashMapped ==
    ASSUME RInv, TypeOK', Remember, NEW c \in Clients, ParentHash(c)
    PROVE  Mapped
<1> DEFINE q == ask[c]
           b == got[c]
<1>1. Waiting(c) /\ stage[c] = "parent" /\ UNCHANGED node
  BY DEF ParentHash, Waiting, Awaiting
<1>2. /\ q.op = "block" /\ q.mode = "block_hash" /\ b \in stored /\ b \in Blocks
      /\ stored \subseteq Blocks /\ Reads!AnswerAbout(q, b, nodeInfo[c]) \in may[c]
  BY <1>1, Remembering DEF StageOK, Held
<1>3. /\ Parent[b] \in Blocks \cup {Boot}
      /\ Parent[b] \in stored <=> b # Root
  BY <1>2, TreeAssumption, TreeFacts DEF RInv, IInv, NodeInv
<1>4. ParentsFound(b) = {x \in stored : x = Parent[b]}
  BY <1>2, <1>3, FoundById DEF ParentsFound
<1>5. ASSUME NEW k \in Kinds, k = IF b = Root THEN "index_block_hash" ELSE q.mode,
             Answer(c, BlockAnswer(q.mode, b, BlockHashOf(k, Parent[b])))
      PROVE  Mapped
  <2>1. BlockAnswer(q.mode, b, BlockHashOf(k, Parent[b]))
          = Ok(Identifier(q.mode, b), Reads!ParentOf(q.mode, b), NoBlock, "none")
    BY <1>2, <1>5, SameParent
  <2>2. BlockAnswer(q.mode, b, BlockHashOf(k, Parent[b])) \in may[c]
    BY <1>2, <2>1, SameAnswers
  <2> QED BY <1>1, <1>5, <2>2, HandOut
<1>6. CASE ParentsFound(b) = {} /\ Answer(c, BlockAnswer(q.mode, b, IndexBlockHash(Parent[b])))
  <2>1. b = Root BY <1>3, <1>4, <1>6
  <2> QED BY <1>5, <1>6, <2>1 DEF IndexBlockHash, Kinds
<1>7. ASSUME NEW x \in ParentsFound(b),
             Answer(c, BlockAnswer(q.mode, b, AddHexPrefix(BlockHashOf("block_hash", x))))
      PROVE  Mapped
  <2>1. x = Parent[b] /\ b # Root /\ x \in Blocks BY <1>2, <1>3, <1>4, <1>7
  <2>2. AddHexPrefix(BlockHashOf("block_hash", x)) = BlockHashOf("block_hash", x)
    BY <2>1, BlockHashFacts DEF Kinds
  <2> QED BY <1>2, <1>5, <1>7, <2>1, <2>2 DEF Kinds
<1> QED BY <1>6, <1>7 DEF ParentHash

\* /v2/info is the first of the two looks.
LEMMA InfoMapped ==
    ASSUME RInv, TypeOK', Remember, NEW c \in Clients, Info(c)
    PROVE  Mapped
<1>1. /\ Waiting(c) /\ stage[c] = "info" /\ UNCHANGED <<node, ask, got, answer>>
      /\ stage' = [stage EXCEPT ![c] = "tipBlock"]
      /\ nodeInfo' = [nodeInfo EXCEPT ![c] = KeptOfInfo]
  BY DEF Info, Waiting, Awaiting
<1>2. ~ask[c].given /\ Reads!Looks(ask[c], looks[c], Reads!TipLook) = looks[c]
  BY <1>1, Remembering DEF StageOK
<1>3. KeptOfInfo \in looks[c]
  BY <1>2 DEF Reads!Looks, Reads!TipLook, KeptOfInfo
<1>4. TypeOK /\ IInv BY DEF RInv, IInv
<1>5. got[c] = NoBlock BY <1>1, Remembering DEF StageOK
<1>6. /\ stage'[c] = "tipBlock" /\ got' = got /\ nodeInfo'[c] = KeptOfInfo /\ Waiting(c)'
      /\ \A d \in Clients \ {c} : stage'[d] = stage[d] /\ nodeInfo'[d] = nodeInfo[d]
  BY <1>1, <1>4 DEF TypeOK, Waiting, Awaiting
<1>7. UNCHANGED <<Reads!node, Reads!clients>> /\ MayInv'
  BY <1>1, <1>3, <1>5, <1>6, AwaitMaps
<1> QED BY <1>7 DEF Mapped

\* The block at the height of the first look is the second look.
LEMMA TipBlockMapped ==
    ASSUME RInv, TypeOK', Remember, NEW c \in Clients, TipBlock(c)
    PROVE  Mapped
<1> DEFINE q == ask[c]
<1>1. Waiting(c) /\ stage[c] = "tipBlock" /\ UNCHANGED node
  BY DEF TipBlock, Waiting, Awaiting
<1>2. /\ q.op \in {"balance", "status"} /\ ~q.given
      /\ nodeInfo[c] \in looks[c] /\ Reads!Answers(q, looks[c]) \subseteq may[c]
  BY <1>1, Remembering DEF StageOK
<1>3. CASE Throw(c, "CoreRpcError") BY <1>1, <1>3, FailureMapped
<1>4. ASSUME NEW b \in BlocksAtHeight(nodeInfo[c].height), WithTipBlock(c, b)
      PROVE  Mapped
  <2>1. Reads!AnswerAbout(q, b, nodeInfo[c]) \in may[c] BY <1>2, <1>4, TipAnswersNow
  <2>2. "account" \in Awaiting \ {"tipBlock"} /\ "neighbors" \in Awaiting \ {"tipBlock"}
    BY DEF Awaiting
  <2>3. CASE q.op = "balance" /\ Await(c, "account", b) BY <1>1, <2>1, <2>2, <2>3, HandOver
  <2>4. CASE Await(c, "neighbors", b) BY <1>1, <2>1, <2>2, <2>4, HandOver
  <2>5. CASE q.op = "status" /\ Answer(c, StatusAnswer(q.mode, b, nodeInfo[c]))
    BY <1>1, <2>1, <2>5, SameAnswers, HandOut
  <2> QED BY <1>2, <1>4, <2>3, <2>4, <2>5 DEF WithTipBlock
<1> QED BY <1>3, <1>4 DEF TipBlock

\* The neighbors complete a status answer, or are noted.
LEMMA NeighborsMapped ==
    ASSUME RInv, TypeOK', Remember, NEW c \in Clients, Neighbors(c)
    PROVE  Mapped
<1>1. Waiting(c) /\ ask[c].op = "status" /\ UNCHANGED node
  BY DEF Neighbors, AwaitsNeighbors, Waiting, Awaiting
<1>2. CASE stage[c] = "neighbors"
  <2>1. got[c] \in Blocks /\ got[c] # NoBlock
    BY <1>1, <1>2, Remembering DEF StageOK, Held
  <2>2. StatusAnswer(ask[c].mode, got[c], nodeInfo[c]) \in may[c]
    BY <1>1, <2>1, Remembering, SameAnswers
  <2> QED BY <1>1, <1>2, <2>2, HandOut DEF Neighbors
<1>3. CASE stage[c] # "neighbors"
  <2>1. UNCHANGED <<stage, ask, got, nodeInfo, answer>> BY <1>3 DEF Neighbors
  <2>2. Waiting(c)' BY <1>1, <2>1 DEF Waiting
  <2>3. UNCHANGED <<Reads!node, Reads!clients>> /\ MayInv'
    BY <1>1, <2>1, <2>2, Remembering, AwaitMaps
  <2> QED BY <2>3 DEF Mapped
<1> QED BY <1>2, <1>3

\* The account is read in the state of the block in hand.
LEMMA AccountMapped ==
    ASSUME RInv, TypeOK', Remember, NEW c \in Clients, Account(c)
    PROVE  Mapped
<1> DEFINE q == ask[c]
           b == got[c]
           figure == SubAccountReading(q.sub)
<1>1. Waiting(c) /\ stage[c] = "account" /\ UNCHANGED node
  BY DEF Account, Waiting, Awaiting
<1>2. /\ q.op = "balance" /\ b \in stored /\ b \in Blocks /\ stored \subseteq Blocks
      /\ Reads!AnswerAbout(q, b, nodeInfo[c]) \in may[c]
  BY <1>1, Remembering DEF StageOK, Held
<1>3. AccountStateAt(TipParameter(b)) = {b} BY <1>2, AccountFound
<1>4. CASE figure = "invalid" /\ Answer(c, Error("invalidSubAccount"))
  <2>1. Error("invalidSubAccount") \in may[c] BY <1>2, <1>4, SameAnswers
  <2> QED BY <1>1, <1>4, <2>1, HandOut
<1>5. CASE figure # "invalid" /\ Answer(c, Ok(Identifier(q.mode, b), NoId, b, figure))
  <2>1. Ok(Identifier(q.mode, b), NoId, b, figure) \in may[c] BY <1>2, <1>5, SameAnswers
  <2> QED BY <1>1, <1>5, <2>1, HandOut
<1> QED BY <1>3, <1>4, <1>5 DEF Account

\* The node's steps are those of the abstract node.
LEMMA NodeMapped ==
    ASSUME RInv, Remember, NodeMoves
    PROVE  Mapped
<1>1. /\ (\E b \in Blocks : Store(b) \/ Follow(b)) \/ Sync
      /\ UNCHANGED <<stage, ask, got, nodeInfo, answer>>
  BY DEF NodeMoves, request
<1>2. \A d \in Clients : Waiting(d)' = Waiting(d) BY <1>1 DEF Waiting
<1>3. MayInv BY DEF RInv
<1>4. \A d \in Clients :
         /\ looks'[d] = IF Waiting(d) THEN Reads!Looks(ask[d], looks[d], Reads!TipLook') ELSE looks[d]
         /\ may'[d] = IF Waiting(d) THEN may[d] \cup Reads!Answers(ask[d], looks[d])' ELSE may[d]
  BY <1>1, <1>2, <1>3 DEF Remember, MayInv
<1>5. may' = [d \in Clients |-> may'[d]] /\ looks' = [d \in Clients |-> looks'[d]]
  BY DEF Remember
<1>6. Reads!NodeMoves
  <2>1. (\E b \in Blocks : Reads!Store(b) \/ Reads!Follow(b)) \/ Reads!Sync
    BY <1>1 DEF Store, Reads!Store, Follow, Reads!Follow, Branches, Reads!Branches, Sync, Reads!Sync
  <2>2. \A d \in Clients : Phase[d] = "pending" <=> Waiting(d)
    BY DEF RInv, IInv, TypeOK, Phase, Waiting, Awaiting
  <2>3. /\ looks' = [d \in Clients |->
                        IF Phase[d] = "pending" THEN Reads!Looks(ask[d], looks[d], Reads!TipLook')
                        ELSE looks[d]]
        /\ may' = [d \in Clients |->
                      IF Phase[d] = "pending" THEN may[d] \cup Reads!Answers(ask[d], looks[d])'
                      ELSE may[d]]
    BY <1>4, <1>5, <2>2
  <2>4. Phase' = Phase BY <1>1 DEF Phase, Waiting
  <2> QED BY <1>1, <2>1, <2>3, <2>4 DEF Reads!NodeMoves, Phase
<1>7. MayInv'
  <2>1. ASSUME NEW d \in Clients, Waiting(d)' PROVE Remembered(d)'
    <3>1. Waiting(d) /\ Remembered(d) BY <1>2, <1>3, <2>1 DEF MayInv
    <3>2. /\ looks'[d] = Reads!Looks(ask[d], looks[d], Reads!TipLook')
          /\ may'[d] = may[d] \cup Reads!Answers(ask[d], looks[d])'
      BY <1>4, <3>1
    <3>3. (Reads!Looks(ask[d], looks[d], Reads!TipLook) = looks[d])'
      BY <1>1, <3>2 DEF Reads!Looks
    <3>4. (stage[d] = "tipBlock" => nodeInfo[d] \in looks[d])'
      <4>1. SUFFICES ASSUME stage[d] = "tipBlock" PROVE nodeInfo[d] \in looks'[d]
        BY <1>1
      <4>2. ~ask[d].given /\ nodeInfo[d] \in looks[d]
        BY <3>1, <4>1, Remembering DEF StageOK
      <4> QED BY <3>2, <4>2 DEF Reads!Looks
    <3>5. (got[d] # NoBlock => Reads!AnswerAbout(ask[d], got[d], nodeInfo[d]) \in may[d])'
      BY <1>1, <3>1, <3>2 DEF Remembered, Reads!AnswerAbout
    <3> QED BY <3>2, <3>3, <3>4, <3>5 DEF Remembered
  <2>2. \A d \in Clients : ~Waiting(d)' => may'[d] = {} /\ looks'[d] = {}
    BY DEF Remember
  <2> QED BY <1>5, <2>1, <2>2 DEF MayInv
<1> QED BY <1>6, <1>7 DEF Mapped, Reads!Next

\* A step that leaves the other clients alone and asks or forgets for client c.
LEMMA OthersRemember ==
    ASSUME RInv, Remember, UNCHANGED <<node, got, nodeInfo>>, NEW c \in Clients,
           \A d \in Clients \ {c} : stage'[d] = stage[d] /\ ask'[d] = ask[d],
           Waiting(c)' => Remembered(c)', ~Waiting(c)
    PROVE  /\ MayInv'
           /\ looks' = [looks EXCEPT ![c] =
                          IF Waiting(c)' THEN Reads!Looks(ask'[c], {}, Reads!TipLook') ELSE {}]
           /\ may' = [may EXCEPT ![c] =
                        IF Waiting(c)' THEN Reads!Answers(ask[c], looks[c])' ELSE {}]
<1>1. MayInv BY DEF RInv
<1>2. \A d \in Clients \ {c} : Waiting(d)' = Waiting(d) BY DEF Waiting
<1>3. \A d \in Clients \ {c} : may'[d] = may[d] /\ looks'[d] = looks[d]
  BY <1>2, MemoryStays, NothingRemembered
<1>4. may' = [d \in Clients |-> may'[d]] /\ looks' = [d \in Clients |-> looks'[d]]
  BY DEF Remember
<1>5. /\ looks'[c] = IF Waiting(c)' THEN Reads!Looks(ask'[c], {}, Reads!TipLook') ELSE {}
      /\ may'[c] = IF Waiting(c)' THEN Reads!Answers(ask[c], looks[c])' ELSE {}
  BY DEF Remember
<1>6. ASSUME NEW d \in Clients, Waiting(d)' PROVE Remembered(d)'
  <2>1. CASE d = c BY <1>6, <2>1
  <2>2. CASE d # c
    <3>1. Remembered(d) BY <1>1, <1>2, <1>6, <2>2 DEF MayInv
    <3> QED BY <1>3, <2>2, <3>1, RememberedStays
  <2> QED BY <2>1, <2>2
<1>7. \A d \in Clients : ~Waiting(d)' => may'[d] = {} /\ looks'[d] = {}
  BY DEF Remember
<1>8. MayInv' BY <1>4, <1>6, <1>7 DEF MayInv
<1>9. /\ looks' = [looks EXCEPT ![c] =
                     IF Waiting(c)' THEN Reads!Looks(ask'[c], {}, Reads!TipLook') ELSE {}]
      /\ may' = [may EXCEPT ![c] =
                   IF Waiting(c)' THEN Reads!Answers(ask[c], looks[c])' ELSE {}]
  BY <1>1, <1>3, <1>4, <1>5 DEF MayInv
<1> QED BY <1>8, <1>9

\* A request starts to wait with the present view, or is refused at once.
LEMMA AskMapped ==
    ASSUME RInv, Remember, NEW c \in Clients, NEW a \in Requests, Ask(c, a)
    PROVE  Mapped
<1>1. TypeOK /\ MayInv /\ IInv BY DEF RInv, IInv
<1>2. /\ stage[c] = "idle" /\ ~Waiting(c) /\ got[c] = NoBlock
      /\ UNCHANGED <<node, got, nodeInfo>> /\ ask' = [ask EXCEPT ![c] = a]
  BY <1>1 DEF Ask, Waiting, Awaiting, IInv, RequestInv, IdleLocals
<1>3. ask'[c] = a /\ \A d \in Clients \ {c} : ask'[d] = ask[d]
  BY <1>1, <1>2 DEF TypeOK
<1>4. Reads!TipLook' = Reads!TipLook BY <1>2 DEF node, Reads!TipLook
<1>5. Phase[c] = "idle" BY <1>2 DEF Phase
<1>6. CASE RejectedAtOnce(a) # "no"
  <2>1. /\ stage' = [stage EXCEPT ![c] = "answered"]
        /\ answer' = [answer EXCEPT ![c] = Error(RejectedAtOnce(a))]
    BY <1>6 DEF Ask
  <2>2. /\ stage'[c] = "answered" /\ ~Waiting(c)'
        /\ \A d \in Clients \ {c} : stage'[d] = stage[d] /\ Waiting(d)' = Waiting(d)
    BY <1>1, <2>1 DEF TypeOK, Waiting, Awaiting
  <2>3. /\ MayInv'
        /\ looks' = [looks EXCEPT ![c] = {}]
        /\ may' = [may EXCEPT ![c] = {}]
    BY <1>2, <1>3, <2>2, OthersRemember
  <2>4. may' = may /\ looks' = looks BY <1>1, <1>2, <2>3 DEF MayInv
  <2>5. Phase' = [Phase EXCEPT ![c] = "answered"] BY <2>2 DEF Phase
  <2>6. Reads!Ask(c)
    BY <1>2, <1>5, <1>6, <2>1, <2>4, <2>5, SameErrors DEF Reads!Ask, Reads!node, node, Phase
  <2> QED BY <2>3, <2>6 DEF Mapped, Reads!Next
<1>7. CASE RejectedAtOnce(a) = "no"
  <2>1. /\ stage' = [stage EXCEPT ![c] = FirstRpc(a)]
        /\ answer' = [answer EXCEPT ![c] = NoAnswer]
        /\ FirstRpc(a) \in Awaiting \ {"tipBlock"}
    BY <1>7 DEF Ask, FirstRpc, Awaiting
  <2>2. /\ stage'[c] = FirstRpc(a) /\ Waiting(c)'
        /\ \A d \in Clients \ {c} : stage'[d] = stage[d] /\ Waiting(d)' = Waiting(d)
    BY <1>1, <2>1 DEF TypeOK, Waiting
  <2> DEFINE first == Reads!Looks(a, {}, Reads!TipLook)
  <2>3. looks'[c] = first
    <3>1. looks'[c] = Reads!Looks(ask'[c], {}, Reads!TipLook')
      BY <1>2, <2>2 DEF Remember
    <3> QED BY <1>3, <1>4, <3>1
  <2>4. Reads!Answers(ask[c], looks[c])' = Reads!Answers(a, first)
    <3>1. Reads!Target(ask[c])' = Reads!Target(a)
      BY <1>2, <1>3 DEF node, Reads!Target, Reads!BlocksAtHeight
    <3>2. \A b : Reads!Disagrees(ask[c], b)' <=> Reads!Disagrees(a, b)
      BY <1>3 DEF Reads!Disagrees
    <3>3. \A b, n : Reads!AnswerAbout(ask[c], b, n)' = Reads!AnswerAbout(a, b, n)
      BY <1>3 DEF Reads!AnswerAbout
    <3>4. Reads!NamedAnswers(ask[c])' = Reads!NamedAnswers(a)
      BY <1>3, <1>4, <3>1, <3>2 DEF Reads!NamedAnswers, Reads!AnswerAbout
    <3>5. Reads!TipAnswers(ask[c], looks[c])' = Reads!TipAnswers(a, first)
      <4>1. \A h : Reads!BlocksAtHeight(h)' = Reads!BlocksAtHeight(h)
        BY <1>2 DEF node, Reads!BlocksAtHeight
      <4> HIDE DEF first
      <4> QED BY <2>3, <3>3, <4>1 DEF Reads!TipAnswers
    <3> QED BY <1>3, <3>4, <3>5 DEF Reads!Answers
  <2>5. Remembered(c)'
    <3>1. got'[c] = NoBlock /\ stage'[c] # "tipBlock" BY <1>2, <2>1, <2>2
    <3>2. (Reads!Answers(ask[c], looks[c]) \subseteq may[c])' BY <2>2 DEF Remember
    <3>3. (Reads!Looks(ask[c], looks[c], Reads!TipLook) = looks[c])'
      BY <1>3, <1>4, <2>3 DEF Reads!Looks
    <3> QED BY <3>1, <3>2, <3>3 DEF Remembered
  <2>6. /\ MayInv'
        /\ looks' = [looks EXCEPT ![c] = Reads!Looks(ask'[c], {}, Reads!TipLook')]
        /\ may' = [may EXCEPT ![c] = Reads!Answers(ask[c], looks[c])']
    BY <1>2, <1>3, <2>2, <2>5, OthersRemember
  <2>7. looks' = [looks EXCEPT ![c] = first] /\ may' = [may EXCEPT ![c] = Reads!Answers(a, first)]
    BY <1>3, <1>4, <2>4, <2>6
  <2>8. Phase' = [Phase EXCEPT ![c] = "pending"] BY <2>2 DEF Phase
  <2>9. Reads!Ask(c)
    BY <1>2, <1>5, <1>7, <2>1, <2>7, <2>8, SameErrors DEF Reads!Ask, Reads!node, node, Phase
  <2> QED BY <2>6, <2>9 DEF Mapped, Reads!Next
<1> QED BY <1>6, <1>7

\* A client that leaves is forgotten.
LEMMA LeaveMapped ==
    ASSUME RInv, Remember, NEW c \in Clients, Leave(c)
    PROVE  Mapped
<1>1. TypeOK /\ MayInv BY DEF RInv, IInv
<1>2. /\ stage[c] = "answered" /\ ~Waiting(c) /\ UNCHANGED <<node, got, nodeInfo>>
      /\ stage' = [stage EXCEPT ![c] = "idle"] /\ ask' = [ask EXCEPT ![c] = NoAsk]
      /\ answer' = [answer EXCEPT ![c] = NoAnswer]
  BY DEF Leave, Waiting, Awaiting
<1>3. /\ stage'[c] = "idle" /\ ~Waiting(c)'
      /\ \A d \in Clients \ {c} : /\ stage'[d] = stage[d] /\ ask'[d] = ask[d]
                                  /\ Waiting(d)' = Waiting(d)
  BY <1>1, <1>2 DEF TypeOK, Waiting, Awaiting
<1>4. /\ MayInv'
      /\ looks' = [looks EXCEPT ![c] = {}]
      /\ may' = [may EXCEPT ![c] = {}]
  BY <1>2, <1>3, OthersRemember
<1>5. may' = may /\ looks' = looks BY <1>1, <1>2, <1>4 DEF MayInv
<1>6. Phase[c] = "answered" /\ Phase' = [Phase EXCEPT ![c] = "idle"]
  BY <1>2, <1>3 DEF Phase
<1>7. Reads!Leave(c)
  BY <1>2, <1>5, <1>6, SameErrors DEF Reads!Leave, Reads!node, node, Phase
<1> QED BY <1>4, <1>7 DEF Mapped, Reads!Next

-----------------------------------------------------------------------------
(* The refinement.                                                         *)

\* The initial states map to initial states.
LEMMA InitMaps == RememberInit => Reads!Init /\ RInv
<1> SUFFICES ASSUME RememberInit PROVE Reads!Init /\ RInv OBVIOUS
<1>1. Init /\ may = [c \in Clients |-> {}] /\ looks = [c \in Clients |-> {}]
  BY DEF RememberInit
<1>2. \A c \in Clients : stage[c] = "idle" /\ ~Waiting(c)
  BY <1>1 DEF Init, Waiting, Awaiting
<1>3. Phase = [c \in Clients |-> "idle"] BY <1>2 DEF Phase
<1>4. Reads!Init
  BY <1>1, <1>3, SameErrors DEF Reads!Init, Reads!NodeInit, NodeInit, Init, Phase
<1>5. MayInv BY <1>1, <1>2 DEF MayInv
<1> QED BY <1>1, <1>4, <1>5, InitInv DEF RInv

\* Every step maps to a step or to none.
LEMMA NextMaps == RInv /\ [RememberNext]_<<vars, history>> => Mapped
<1> SUFFICES ASSUME RInv, [RememberNext]_<<vars, history>> PROVE Mapped OBVIOUS
<1>1. CASE UNCHANGED <<vars, history>>
  <2>1. UNCHANGED <<chain, tip, stored, synced, stage, ask, got, nodeInfo, answer, looks, may>>
    BY <1>1 DEF vars, history, node, request
  <2>2. \A d \in Clients : Waiting(d)' = Waiting(d) BY <2>1 DEF Waiting
  <2>3. UNCHANGED <<Reads!node, Reads!clients>>
    BY <2>1, <2>2 DEF Reads!node, Reads!clients, Waiting
  <2>4. \A d \in Clients : Remembered(d) => Remembered(d)'
    BY <2>1, RememberedStays DEF node
  <2>5. MayInv' BY <2>1, <2>2, <2>4 DEF RInv, MayInv
  <2> QED BY <2>3, <2>5 DEF Mapped
<1>2. CASE RememberNext
  <2>1. Next /\ Remember BY <1>2 DEF RememberNext
  <2>2. TypeOK' BY <2>1, NextInv DEF RInv, IInv
  <2>3. CASE NodeMoves BY <2>1, <2>3, NodeMapped
  <2>4. ASSUME NEW c \in Clients, NEW a \in Requests, Ask(c, a) PROVE Mapped
    BY <2>1, <2>4, AskMapped
  <2>5. ASSUME NEW c \in Clients, Leave(c) PROVE Mapped
    BY <2>1, <2>5, LeaveMapped
  <2>6. ASSUME NEW c \in Clients, RpcFails(c) PROVE Mapped
    BY <2>1, <2>6, FailureMapped DEF RpcFails, Waiting
  <2>7. ASSUME NEW c \in Clients, Handle(c) PROVE Mapped
    BY <2>1, <2>2, <2>6, <2>7, ByHeightMapped, ByIdMapped, ReplayMapped, ParentHashMapped,
       InfoMapped, TipBlockMapped, NeighborsMapped, AccountMapped DEF Handle
  <2> QED BY <2>1, <2>3, <2>4, <2>5, <2>7 DEF Next
<1> QED BY <1>1, <1>2

\* The invariant that the refinement rests on is inductive.
LEMMA RememberInvariance == RememberSpec => []RInv
<1>1. RInv /\ [RememberNext]_<<vars, history>> => RInv'
  <2>1. RInv /\ [RememberNext]_<<vars, history>> => IInv'
    BY NextInv DEF RInv, RememberNext, vars
  <2> QED BY <2>1, NextMaps DEF RInv, Mapped
<1> QED BY <1>1, InitMaps, PTL DEF RememberSpec

\* Whatever the node does between a handler's RPCs, for any tree, any clients and
\* either display mode: a request that names a block is answered as by a single look
\* at the node since the request, one about the tip as by two, or with an internal
\* error.
THEOREM Consistency == RememberSpec => ReadsAreConsistent
<1>1. RInv /\ [RememberNext]_<<vars, history>> => [Reads!Next]_(<<Reads!node, Reads!clients>>)
  BY NextMaps DEF Mapped
<1> QED BY <1>1, InitMaps, RememberInvariance, PTL DEF RememberSpec, ReadsAreConsistent, Reads!Spec
=============================================================================
