-------------------------- MODULE ConsistentReads --------------------------
(***************************************************************************)
(* What a client of the Data API's reads may rely on, however many RPCs a  *)
(* handler needs.  A request that names a block gets the answer that a     *)
(* single look at the node, at some moment between the request and the     *)
(* answer, would have given.  A request about the tip gets what two looks  *)
(* give: the first finds how high the tip is and whether the node is in    *)
(* sync, the second which block of the branch is at that height.  If the   *)
(* node takes up another branch between the two, that block need never     *)
(* have been the tip.  INTERNAL_ERROR is an answer at any time.            *)
(***************************************************************************)
EXTENDS ChainNode

VARIABLES
    phase,  \* "idle", "pending" or "answered", per client
    asked,  \* the request
    looks,  \* the first looks that a request about the tip may have had
    may,    \* the answers that a request may be given
    reply   \* the HTTP answer

clients == <<phase, asked, looks, may, reply>>

-----------------------------------------------------------------------------
\* The root's parent is not served, so only its index block hash is known.
ParentOf(mode, b) ==
    [index |-> Height[b] - 1,
     hash |-> IF b = Root THEN IndexBlockHash(Boot)
              ELSE SelectDisplayBlockHash(mode, Parent[b])]

\* The answer to request a, from what the node knows of block b and a look at the
\* tip (of which only /network/status tells something).
AnswerAbout(a, b, look) ==
    CASE a.op = "status" ->
            Ok(Identifier(a.mode, b), NoId, NoBlock, IF look.synced THEN "synced" ELSE "behind")
      [] a.op = "block" -> Ok(Identifier(a.mode, b), ParentOf(a.mode, b), NoBlock, "none")
      [] a.op = "transaction" ->
            IF a.tx \in TxsOf[b] THEN Ok(NoId, NoId, b, "none")
            ELSE Error("transactionNotFound")
      [] a.op = "balance" ->
            IF SubAccountReading(a.sub) = "invalid" THEN Error("invalidSubAccount")
            ELSE Ok(Identifier(a.mode, b), NoId, b, SubAccountReading(a.sub))

\* A look at the tip now.
TipLook == [height |-> Height[tip], synced |-> synced]

\* The block that a request names, at this moment: the block of the branch at an
\* index, or the stored block of a hash.
Target(a) ==
    IF a.index # NoIndex THEN BlocksAtHeight(a.index)
    ELSE {b \in stored : AddHexPrefix(a.hash) = IndexBlockHash(b)}

\* An index is authoritative; a hash beside it must agree.
Disagrees(a, b) ==
    /\ a.index # NoIndex /\ a.hash # NoHash
    /\ AddHexPrefix(a.hash) # SelectDisplayBlockHash(a.mode, b)

\* The answers of a single look, to a request that names a block.
NamedAnswers(a) ==
    IF Target(a) = {} THEN {Error("blockNotFound")}
    ELSE {IF Disagrees(a, b) THEN Error("invalidBlockIdentifier")
          ELSE AnswerAbout(a, b, TipLook) : b \in Target(a)}

\* The answers of a second look now after each of the first looks in seen.
TipAnswers(a, seen) ==
    UNION {{AnswerAbout(a, b, look) : b \in BlocksAtHeight(look.height)} : look \in seen}

Answers(a, seen) == IF a.given THEN NamedAnswers(a) ELSE TipAnswers(a, seen)

\* The first looks that request a may have had, now that it may have this one too.
Looks(a, seen, look) == IF a.given THEN {} ELSE seen \cup {look}

-----------------------------------------------------------------------------
NodeMoves ==
    /\ (\E b \in Blocks : Store(b) \/ Follow(b)) \/ Sync
    /\ looks' = [c \in Clients |->
                   IF phase[c] = "pending" THEN Looks(asked[c], looks[c], TipLook') ELSE looks[c]]
    /\ may' = [c \in Clients |->
                 IF phase[c] = "pending" THEN may[c] \cup Answers(asked[c], looks[c])'
                 ELSE may[c]]
    /\ UNCHANGED <<phase, asked, reply>>

Ask(c) ==
    /\ phase[c] = "idle"
    /\ UNCHANGED node
    /\ \E a \in Requests :
        /\ asked' = [asked EXCEPT ![c] = a]
        /\ IF RejectedAtOnce(a) = "no"
           THEN /\ phase' = [phase EXCEPT ![c] = "pending"]
                /\ looks' = [looks EXCEPT ![c] = Looks(a, {}, TipLook)]
                /\ may' = [may EXCEPT ![c] = Answers(a, Looks(a, {}, TipLook))]
                /\ reply' = [reply EXCEPT ![c] = NoAnswer]
           ELSE /\ phase' = [phase EXCEPT ![c] = "answered"]
                /\ reply' = [reply EXCEPT ![c] = Error(RejectedAtOnce(a))]
                /\ UNCHANGED <<looks, may>>

Reply(c) ==
    /\ phase[c] = "pending"
    /\ \E r \in may[c] \cup {Error("internalError")} : reply' = [reply EXCEPT ![c] = r]
    /\ phase' = [phase EXCEPT ![c] = "answered"]
    /\ looks' = [looks EXCEPT ![c] = {}]
    /\ may' = [may EXCEPT ![c] = {}]
    /\ UNCHANGED <<node, asked>>

Leave(c) ==
    /\ phase[c] = "answered"
    /\ phase' = [phase EXCEPT ![c] = "idle"]
    /\ asked' = [asked EXCEPT ![c] = NoAsk]
    /\ reply' = [reply EXCEPT ![c] = NoAnswer]
    /\ UNCHANGED <<node, looks, may>>

Init ==
    /\ NodeInit
    /\ phase = [c \in Clients |-> "idle"]
    /\ asked = [c \in Clients |-> NoAsk]
    /\ looks = [c \in Clients |-> {}]
    /\ may = [c \in Clients |-> {}]
    /\ reply = [c \in Clients |-> NoAnswer]

Next ==
    \/ NodeMoves
    \/ \E c \in Clients : Ask(c) \/ Reply(c) \/ Leave(c)

Spec == Init /\ [][Next]_<<node, clients>>
=============================================================================
