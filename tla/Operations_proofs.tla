-------------------------- MODULE Operations_proofs --------------------------
(***************************************************************************)
(* Proofs about Operations: whatever events a transaction has and however  *)
(* many operations each of them becomes, indexes count from 0 without      *)
(* gaps, the two sides of every transfer belong together, and what the     *)
(* operations tell of an account is what the node did to it.               *)
(*                                                                         *)
(* Operations are appended in chunks: the fee, the payload's, an event's.  *)
(* A chunk is good in itself (Chunk), and good chunks that are numbered    *)
(* one after the other make a good list (Concatenation).  The total of a   *)
(* list of chunks is the sum of theirs (TotalOfBoth), and that of each is  *)
(* the node's change, which of a token transfer is told before it happens  *)
(* (Balanced).                                                             *)
(***************************************************************************)
EXTENDS Operations, SequenceLemmas, TLAPS

Holders == Accounts \cup {NoAccount}
OperationTypes ==
    {"fee", "token_transfer", "token_mint", "token_burn", "stx_lock", "contract_log",
     "contract_call", "contract_deploy", "coinbase", "tenure_change"}
    \cup AmountPoxEvents \cup PlainPoxEvents
Currencies == {"none", "STX", "nft"} \cup FtCurrencies
OperationRecords ==
    [index : Nat, related : SUBSET Nat, type : OperationTypes, status : Statuses,
     account : Holders, value : Int, asset : Assets \cup {NoAsset},
     currency : Currencies, args : BOOLEAN]

\* An operation has an amount of some token, or neither.
Sound(op) == op \in OperationRecords /\ (op.value # 0 <=> op.asset \in Assets)
Debit(op) == op.type = "token_transfer" /\ op.value < 0
CreditOf(op, send) ==
    /\ op.related = {send.index} /\ send.value < 0 /\ op.value = -send.value
    /\ op.type = send.type /\ op.status = send.status
    /\ op.asset = send.asset /\ op.currency = send.currency /\ op.args = send.args

Numbered(s, n) == \A i \in DOMAIN s : s[i].index = n + i - 1
\* A credit follows its debit, and a debit is followed by its credit.
CreditsFollow(s) ==
    \A i \in DOMAIN s : s[i].related = {} \/ (i - 1 \in DOMAIN s /\ CreditOf(s[i], s[i - 1]))
DebitsPrecede(s) ==
    \A j \in DOMAIN s : Debit(s[j]) => j + 1 \in DOMAIN s /\ s[j + 1].related = {s[j].index}

Chunk(s, n) ==
    /\ s \in Seq(OperationRecords)
    /\ \A i \in DOMAIN s : Sound(s[i])
    /\ Numbered(s, n) /\ CreditsFollow(s) /\ DebitsPrecede(s)

IInv ==
    /\ source \in {"replay", "parse"}
    /\ stage \in {"idle", "abi", "events", "done", "failed"}
    /\ stage = "idle" \/ tx \in Transactions
    /\ seen \in Seq(Events)
    /\ Chunk(ops, 0)
    /\ moved \in [Accounts -> [Assets -> Int]]
    /\ stage \in {"abi", "events", "done"} => Status(tx, source) \in Statuses

-----------------------------------------------------------------------------
(* Chunks.                                                                 *)

LEMMA EmptyChunk == ASSUME NEW n \in Nat PROVE Chunk(<<>>, n)
BY DEF Chunk, Numbered, CreditsFollow, DebitsPrecede

\* An operation that is not the debit of a transfer and is related to none is a chunk.
LEMMA Single ==
    ASSUME NEW n \in Nat, NEW op, Sound(op), op.index = n, op.related = {}, ~Debit(op)
    PROVE  Chunk(<<op>>, n)
<1>1. <<op>> \in Seq(OperationRecords) /\ Len(<<op>>) = 1 /\ <<op>>[1] = op
  BY DEF Sound
<1>2. DOMAIN <<op>> = {1}
  BY <1>1
<1> QED BY <1>1, <1>2 DEF Chunk, Numbered, CreditsFollow, DebitsPrecede

\* Good chunks numbered one after the other are a good chunk.
LEMMA Concatenation ==
    ASSUME NEW n \in Nat, NEW s, NEW t, Chunk(s, n), Chunk(t, n + Len(s))
    PROVE  Chunk(s \o t, n)
<1> DEFINE r == s \o t
<1>1. /\ s \in Seq(OperationRecords) /\ t \in Seq(OperationRecords)
      /\ r \in Seq(OperationRecords)
      /\ Len(s) \in Nat /\ Len(t) \in Nat /\ Len(r) = Len(s) + Len(t)
      /\ DOMAIN s = 1..Len(s) /\ DOMAIN t = 1..Len(t) /\ DOMAIN r = 1..Len(r)
      /\ \A i \in 1..Len(s) : r[i] = s[i]
      /\ \A i \in 1..Len(t) : r[i + Len(s)] = t[i]
  BY DEF Chunk
<1> HIDE DEF r
<1>2. ASSUME NEW i \in DOMAIN r
      PROVE  \/ i \in DOMAIN s /\ r[i] = s[i]
             \/ /\ i - Len(s) \in DOMAIN t /\ r[i] = t[i - Len(s)]
  BY <1>1
<1>3. \A i \in DOMAIN r : Sound(r[i])
  BY <1>2 DEF Chunk
<1>4. Numbered(r, n)
  BY <1>1, <1>2 DEF Chunk, Numbered
<1>5. CreditsFollow(r)
  <2> SUFFICES ASSUME NEW i \in DOMAIN r, r[i].related # {}
               PROVE  i - 1 \in DOMAIN r /\ CreditOf(r[i], r[i - 1])
    BY DEF CreditsFollow
  <2>1. CASE i \in DOMAIN s /\ r[i] = s[i]
    <3>1. i - 1 \in DOMAIN s /\ CreditOf(s[i], s[i - 1])
      BY <2>1 DEF Chunk, CreditsFollow
    <3> QED BY <3>1, <2>1, <1>1
  <2>2. CASE i - Len(s) \in DOMAIN t /\ r[i] = t[i - Len(s)]
    <3>1. (i - Len(s)) - 1 \in DOMAIN t /\ CreditOf(t[i - Len(s)], t[(i - Len(s)) - 1])
      BY <2>2 DEF Chunk, CreditsFollow
    <3>2. i \in Int /\ (i - Len(s)) - 1 = (i - 1) - Len(s)
      BY <1>1
    <3>3. i - 1 \in DOMAIN r /\ r[i - 1] = t[(i - 1) - Len(s)]
      BY <3>1, <3>2, <1>1
    <3> QED BY <3>1, <3>2, <3>3, <2>2
  <2> QED BY <2>1, <2>2, <1>2
<1>6. DebitsPrecede(r)
  <2> SUFFICES ASSUME NEW j \in DOMAIN r, Debit(r[j])
               PROVE  j + 1 \in DOMAIN r /\ r[j + 1].related = {r[j].index}
    BY DEF DebitsPrecede
  <2>1. CASE j \in DOMAIN s /\ r[j] = s[j]
    <3>1. j + 1 \in DOMAIN s /\ s[j + 1].related = {s[j].index}
      BY <2>1 DEF Chunk, DebitsPrecede
    <3> QED BY <3>1, <2>1, <1>1
  <2>2. CASE j - Len(s) \in DOMAIN t /\ r[j] = t[j - Len(s)]
    <3>1. (j - Len(s)) + 1 \in DOMAIN t /\ t[(j - Len(s)) + 1].related = {t[j - Len(s)].index}
      BY <2>2 DEF Chunk, DebitsPrecede
    <3>2. j \in Int /\ (j - Len(s)) + 1 = (j + 1) - Len(s)
      BY <1>1
    <3>3. j + 1 \in DOMAIN r /\ r[j + 1] = t[(j + 1) - Len(s)]
      BY <3>1, <3>2, <1>1
    <3> QED BY <3>1, <3>2, <3>3, <2>2
  <2> QED BY <2>1, <2>2, <1>2
<1> QED BY <1>1, <1>3, <1>4, <1>5, <1>6 DEF Chunk, r

\* An operation that stands alone, put before a chunk.
LEMMA SingleThen ==
    ASSUME NEW n \in Nat, NEW op, NEW t,
           Sound(op), op.index = n, op.related = {}, ~Debit(op), Chunk(t, n + 1)
    PROVE  Chunk(<<op>> \o t, n)
<1>1. Chunk(<<op>>, n) /\ Len(<<op>>) = 1
  BY Single
<1> QED BY <1>1, Concatenation

-----------------------------------------------------------------------------
(* What transactions and events are.                                       *)

LEMMA EventFacts ==
    ASSUME NEW e \in Events
    PROVE  /\ e.amount \in Nat \ {0} /\ e.from \in Holders /\ e.to \in Holders
           /\ e.type \in EventTypes
           /\ e.type # "contract_event" => e.asset \in Assets
<1>1. e \in EventRecords /\ e.asset \in AssetsOf(e.type)
  BY DEF Events
<1>2. /\ e.amount \in Amounts \cup {1} /\ e.type \in EventTypes
      /\ e.from \in Holders /\ e.to \in Holders
  BY <1>1 DEF EventRecords, Holders
<1>3. ASSUME e.type # "contract_event" PROVE e.asset \in Assets
  BY <1>1, <1>2, <1>3 DEF AssetsOf, EventTypes, Assets
<1>4. e.amount \in Nat \ {0}
  <2>1. Amounts \cup {1} \subseteq Nat \ {0}
    BY AmountAssumption
  <2> QED BY <1>2, <2>1, Zenon
<1> QED BY <1>2, <1>3, <1>4

\* The fields of a transaction.
LEMMA TransactionFacts ==
    ASSUME NEW t \in Transactions
    PROVE  /\ t.sender \in Accounts /\ t.recipient \in Holders /\ Payer(t) \in Accounts
           /\ t.fee \in Nat
           /\ t.type = "token_transfer" => t.amount \in Nat \ {0}
           /\ \A src \in {"replay", "parse"} :
                 Status(t, src) = "throws" \/ Status(t, src) \in Statuses
           /\ "throws" \notin Statuses
<1>1. /\ t.sender \in Accounts /\ t.recipient \in Holders /\ Payer(t) \in Accounts
      /\ t.fee \in Nat
      /\ t.type = "token_transfer" => t.amount \in Nat \ {0}
  BY AmountAssumption DEF Transactions, TxRecords, Payer, Holders
<1>2. t.result \in {"ok", "err", "other"} /\ t.post_condition_aborted \in BOOLEAN
  BY DEF Transactions, TxRecords
<1>3. serializeTxStatus(t) = "throws" \/ serializeTxStatus(t) \in Statuses
  <2>1. CASE t.result = "err"
    BY <2>1, Zenon DEF serializeTxStatus, Statuses
  <2>2. CASE t.result = "ok"
    BY <2>2 DEF serializeTxStatus, Statuses
  <2>3. CASE t.result = "other"
    BY <2>3 DEF serializeTxStatus
  <2> QED BY <1>2, <2>1, <2>2, <2>3
<1>4. \A src \in {"replay", "parse"} : Status(t, src) = "throws" \/ Status(t, src) \in Statuses
  BY <1>3 DEF Status, Statuses
<1>5. "throws" \notin Statuses
  BY DEF Statuses
<1> QED BY <1>1, <1>4, <1>5

\* STX is a token, and the sign for no token is none.
LEMMA AssetFacts == STX \in Assets /\ NoAsset \notin Assets /\ "STX" \in Currencies
BY AmountAssumption DEF Assets, Currencies

-----------------------------------------------------------------------------
(* The operations of a transaction and of an event are chunks.             *)

\* An operation without an amount, and one with.
LEMMA Plain ==
    ASSUME NEW n \in Nat, NEW type \in OperationTypes, NEW status \in Statuses,
           NEW account \in Holders
    PROVE  LET op == Operation(n, type, status, account)
           IN  Sound(op) /\ op.index = n /\ op.related = {} /\ ~Debit(op)
<1> DEFINE op == Operation(n, type, status, account)
<1>1. op \in OperationRecords /\ op.value = 0 /\ op.asset = NoAsset
      /\ op.index = n /\ op.related = {}
  BY DEF Operation, OperationRecords, Currencies
<1> HIDE DEF op
<1>2. Sound(op) /\ ~Debit(op)
  BY <1>1, AssetFacts DEF Sound, Debit
<1> QED BY <1>1, <1>2 DEF op

IsOperation(op, n, type, status, account, value, asset, currency) ==
    /\ op \in OperationRecords
    /\ op.index = n /\ op.related = {} /\ op.type = type /\ op.status = status
    /\ op.account = account /\ op.value = value /\ op.asset = asset
    /\ op.currency = currency /\ op.args = FALSE

\* The record of an operation with an amount.
LEMMA Described ==
    ASSUME NEW n \in Nat, NEW type \in OperationTypes, NEW status \in Statuses,
           NEW account \in Holders, NEW value \in Int, NEW asset \in Assets,
           NEW currency \in Currencies
    PROVE  IsOperation(WithAmount(Operation(n, type, status, account), value, asset, currency),
                       n, type, status, account, value, asset, currency)
<1>1. Operation(n, type, status, account) \in OperationRecords
  BY DEF Operation, OperationRecords, Currencies
<1> QED BY <1>1 DEF WithAmount, Operation, OperationRecords, IsOperation

\* An operation with an amount that is no transfer stands alone.
LEMMA Valued ==
    ASSUME NEW n \in Nat, NEW type \in OperationTypes, NEW status \in Statuses,
           NEW account \in Holders, NEW value \in Int \ {0}, NEW asset \in Assets,
           NEW currency \in Currencies, type # "token_transfer"
    PROVE  LET op == WithAmount(Operation(n, type, status, account), value, asset, currency)
           IN  Sound(op) /\ op.index = n /\ op.related = {} /\ ~Debit(op)
<1> DEFINE op == WithAmount(Operation(n, type, status, account), value, asset, currency)
<1>0. IsOperation(op, n, type, status, account, value, asset, currency)
  BY Described
<1> HIDE DEF op
<1>2. Sound(op) /\ op.index = n /\ op.related = {} /\ ~Debit(op)
  BY <1>0 DEF Sound, Debit, IsOperation
<1> QED BY <1>2 DEF op

\* One operation alone is a chunk.
LEMMA PlainChunk ==
    ASSUME NEW n \in Nat, NEW type \in OperationTypes, NEW status \in Statuses,
           NEW account \in Holders
    PROVE  Chunk(<<Operation(n, type, status, account)>>, n)
<1> DEFINE op == Operation(n, type, status, account)
<1>1. Sound(op) /\ op.index = n /\ op.related = {} /\ ~Debit(op)
  BY Plain
<1> HIDE DEF op
<1>2. Chunk(<<op>>, n)
  BY <1>1, Single
<1> QED BY <1>2 DEF op

\* It is a chunk.
LEMMA ValuedChunk ==
    ASSUME NEW n \in Nat, NEW type \in OperationTypes, NEW status \in Statuses,
           NEW account \in Holders, NEW value \in Int \ {0}, NEW asset \in Assets,
           NEW currency \in Currencies, type # "token_transfer"
    PROVE  Chunk(<<WithAmount(Operation(n, type, status, account), value, asset, currency)>>, n)
<1> DEFINE op == WithAmount(Operation(n, type, status, account), value, asset, currency)
<1>1. Sound(op) /\ op.index = n /\ op.related = {} /\ ~Debit(op)
  BY Valued
<1> HIDE DEF op
<1>2. Chunk(<<op>>, n)
  BY <1>1, Single
<1> QED BY <1>2 DEF op

\* The debit and the credit of a transfer.
LEMMA Transfer ==
    ASSUME NEW n \in Nat, NEW status \in Statuses, NEW from \in Holders, NEW to \in Holders,
           NEW amount \in Nat \ {0}, NEW asset \in Assets, NEW currency \in Currencies
    PROVE  Chunk(TransferOperations(n, status, from, to, amount, asset, currency), n)
<1> DEFINE send == WithAmount(Operation(n, "token_transfer", status, from),
                              -amount, asset, currency)
           credit == WithAmount(Operation(n + 1, "token_transfer", status, to),
                                amount, asset, currency)
           receive == [credit EXCEPT !.related = {n}]
           s == <<send, receive>>
<1>1. "token_transfer" \in OperationTypes /\ -amount \in Int \ {0} /\ amount \in Int \ {0}
  BY DEF OperationTypes
<1>2. IsOperation(send, n, "token_transfer", status, from, -amount, asset, currency)
  BY <1>1, Described
<1>3. IsOperation(credit, n + 1, "token_transfer", status, to, amount, asset, currency)
  BY <1>1, Described
<1> HIDE DEF send, credit
<1>4. /\ receive \in OperationRecords /\ receive.index = n + 1 /\ receive.related = {n}
      /\ receive.type = "token_transfer" /\ receive.status = status
      /\ receive.value = amount /\ receive.asset = asset /\ receive.currency = currency
      /\ receive.args = FALSE
  BY <1>3 DEF OperationRecords, IsOperation
<1> HIDE DEF receive
<1>5. CreditOf(receive, send)
  <2>1. send.value = -amount /\ send.value < 0 /\ receive.value = -send.value
    BY <1>2, <1>4 DEF IsOperation
  <2> QED BY <2>1, <1>2, <1>4 DEF CreditOf, IsOperation
<1>6. Sound(send) /\ Sound(receive)
  BY <1>2, <1>4 DEF Sound, IsOperation
<1>7. /\ s \in Seq(OperationRecords) /\ DOMAIN s = {1, 2} /\ s[1] = send /\ s[2] = receive
  BY <1>2, <1>4 DEF IsOperation
<1> HIDE DEF s
<1>8. Numbered(s, n) /\ CreditsFollow(s) /\ \A i \in DOMAIN s : Sound(s[i])
  BY <1>2, <1>4, <1>5, <1>6, <1>7 DEF Numbered, CreditsFollow, IsOperation
<1>9. DebitsPrecede(s)
  BY <1>2, <1>4, <1>7 DEF DebitsPrecede, Debit, IsOperation
<1>10. TransferOperations(n, status, from, to, amount, asset, currency) = s
  BY DEF TransferOperations, s, send, receive, credit
<1> QED BY <1>7, <1>8, <1>9, <1>10 DEF Chunk

\* The fee comes first, if there is one.
LEMMA FeeChunk ==
    ASSUME NEW t \in Transactions, NEW status \in Statuses
    PROVE  Chunk(FeeOperations(t, status), 0)
<1>1. CASE t.fee > 0
  <2>1. Payer(t) \in Holders /\ -t.fee \in Int \ {0} /\ "fee" \in OperationTypes
    BY <1>1, TransactionFacts DEF Holders, OperationTypes
  <2>2. Chunk(<<makeFeeOperation(t, status)>>, 0)
    BY <2>1, AssetFacts, ValuedChunk DEF makeFeeOperation
  <2> QED BY <1>1, <2>2 DEF FeeOperations
<1>2. CASE ~(t.fee > 0)
  BY <1>2, EmptyChunk DEF FeeOperations
<1> QED BY <1>1, <1>2

\* The operations of a payload, after n others.
LEMMA PayloadChunk ==
    ASSUME NEW t \in Transactions, NEW n \in Nat, NEW status \in Statuses
    PROVE  Chunk(PayloadOperations(t, n, status), n)
<1> USE DEF Holders
<1>1. CASE t.type = "token_transfer"
  <2>1. PayloadOperations(t, n, status)
          = TransferOperations(n, status, t.sender, t.recipient, t.amount, STX, "STX")
    BY <1>1 DEF PayloadOperations, makeStxTransferOperations
  <2>2. /\ t.sender \in Holders /\ t.recipient \in Holders /\ t.amount \in Nat \ {0}
        /\ STX \in Assets /\ "STX" \in Currencies
    BY <1>1, TransactionFacts, AssetFacts
  <2> HIDE DEF Holders
  <2> QED BY <2>1, <2>2, Transfer
<1>2. CASE t.type = "tenure_change"
  <2>1. PayloadOperations(t, n, status) = <<Operation(n, "tenure_change", status, NoAccount)>>
    BY <1>2 DEF PayloadOperations
  <2>2. "tenure_change" \in OperationTypes /\ NoAccount \in Holders
    BY DEF OperationTypes
  <2> QED BY <2>1, <2>2, PlainChunk
<1>3. CASE t.type = "contract_deploy" \/ t.type = "coinbase"
  <2>1. PayloadOperations(t, n, status) = <<Operation(n, t.type, status, t.sender)>>
    BY <1>3 DEF PayloadOperations
  <2>2. t.type \in OperationTypes
    BY <1>3 DEF OperationTypes
  <2> QED BY <2>1, <2>2, PlainChunk, TransactionFacts
<1>4. CASE t.type \notin {"token_transfer", "tenure_change", "contract_deploy", "coinbase"}
  <2>1. PayloadOperations(t, n, status) = <<>>
    BY <1>4 DEF PayloadOperations
  <2> QED BY <2>1, EmptyChunk
<1> QED BY <1>1, <1>2, <1>3, <1>4

\* A mint and a burn are one operation each.
LEMMA MintOrBurn ==
    ASSUME NEW n \in Nat, NEW status \in Statuses, NEW e \in Events,
           NEW currency \in Currencies, e.type # "contract_event"
    PROVE  /\ Chunk(MintOperation(n, status, e, currency), n)
           /\ Chunk(BurnOperation(n, status, e, currency), n)
<1>1. /\ {"token_mint", "token_burn"} \subseteq OperationTypes
      /\ e.amount \in Int \ {0} /\ -e.amount \in Int \ {0}
      /\ e.from \in Holders /\ e.to \in Holders /\ e.asset \in Assets
  BY EventFacts DEF OperationTypes
<1>2. Chunk(MintOperation(n, status, e, currency), n)
  BY <1>1, ValuedChunk DEF MintOperation
<1>3. Chunk(BurnOperation(n, status, e, currency), n)
  BY <1>1, ValuedChunk DEF BurnOperation
<1> QED BY <1>2, <1>3

\* A lock is one operation.
LEMMA LockChunk ==
    ASSUME NEW n \in Nat, NEW status \in Statuses, NEW e \in Events
    PROVE  Chunk(makeStxLockOperation(n, status, e), n)
<1>1. "stx_lock" \in OperationTypes /\ -e.amount \in Int \ {0} /\ e.from \in Holders
  BY EventFacts DEF OperationTypes
<1> QED BY <1>1, AssetFacts, ValuedChunk DEF makeStxLockOperation

\* A contract event is told by its log and, if it is one, by the PoX operation.
LEMMA ContractEventChunk ==
    ASSUME NEW n \in Nat, NEW status \in Statuses, NEW e \in Events
    PROVE  Chunk(makeContractEventOperations(n, status, e), n)
<1>1. /\ n + 1 \in Nat /\ NoAccount \in Holders /\ "contract_log" \in OperationTypes
      /\ e.amount \in Int \ {0} /\ e.from \in Holders
  BY EventFacts DEF Holders, OperationTypes
<1>2. Chunk(makeSyntheticPoxOperation(n, status, e), n + 1)
  <2>1. CASE e.what \in AmountPoxEvents
    <3>1. /\ e.what \in OperationTypes /\ e.what # "token_transfer"
          /\ e.what \notin PlainPoxEvents
      BY <2>1 DEF OperationTypes, AmountPoxEvents, PlainPoxEvents
    <3>2. makeSyntheticPoxOperation(n, status, e)
            = <<WithAmount(Operation(n + 1, e.what, status, e.from), e.amount, STX, "STX")>>
      BY <2>1, <3>1 DEF makeSyntheticPoxOperation
    <3> QED BY <1>1, <3>1, <3>2, AssetFacts, ValuedChunk
  <2>2. CASE e.what \in PlainPoxEvents /\ e.what \notin AmountPoxEvents
    <3>1. e.what \in OperationTypes
      BY <2>2 DEF OperationTypes
    <3>2. makeSyntheticPoxOperation(n, status, e) = <<Operation(n + 1, e.what, status, e.from)>>
      BY <2>2 DEF makeSyntheticPoxOperation
    <3> QED BY <1>1, <3>1, <3>2, PlainChunk
  <2>3. CASE e.what \notin AmountPoxEvents \cup PlainPoxEvents
    <3>1. makeSyntheticPoxOperation(n, status, e) = <<>>
      BY <2>3 DEF makeSyntheticPoxOperation
    <3> QED BY <1>1, <3>1, EmptyChunk
  <2> QED BY <2>1, <2>2, <2>3
<1>3. LET log == Operation(n, "contract_log", status, NoAccount)
      IN  Sound(log) /\ log.index = n /\ log.related = {} /\ ~Debit(log)
  BY <1>1, Plain
<1> QED BY <1>2, <1>3, SingleThen DEF makeContractEventOperations

\* Whatever the event and whatever its currency lookup answers.
LEMMA EventChunk ==
    ASSUME NEW t \in Transactions, NEW n \in Nat, NEW status \in Statuses, NEW e \in Events,
           NEW new \in EventOperations(t, n, status, e)
    PROVE  Chunk(new, n)
<1>1. /\ e.amount \in Nat \ {0} /\ 1 \in Nat \ {0} /\ e.from \in Holders /\ e.to \in Holders
      /\ e.type \in EventTypes /\ (e.type # "contract_event" => e.asset \in Assets)
  BY EventFacts
<1>2. STX \in Assets /\ {"STX", "nft"} \subseteq Currencies /\ FtCurrencies \subseteq Currencies
  BY AssetFacts DEF Currencies
<1>3. CASE e.type = "stx_transfer_event"
  <2>1. new = StxTransferEventOperations(t, n, status, e)
    BY <1>3 DEF EventOperations
  <2>2. \/ new = <<>>
        \/ new = TransferOperations(n, status, e.from, e.to, e.amount, STX, "STX")
    BY <2>1 DEF StxTransferEventOperations, makeStxTransferOperations
  <2> QED BY <2>2, <1>1, <1>2, EmptyChunk, Transfer
<1>4. CASE e.type = "ft_transfer_event"
  <2>1. PICK c \in FtCurrencies :
            new = TransferOperations(n, status, e.from, e.to, e.amount, e.asset, c)
    BY <1>4 DEF EventOperations, makeFtTransferOperations
  <2> QED BY <2>1, <1>1, <1>2, <1>4, Transfer
<1>5. CASE e.type = "nft_transfer_event"
  <2>1. new = TransferOperations(n, status, e.from, e.to, 1, e.asset, "nft")
    BY <1>5 DEF EventOperations, makeNftTransferOperations
  <2> QED BY <2>1, <1>1, <1>2, <1>5, Transfer
<1>6. CASE e.type \in {"stx_burn_event", "nft_burn_event", "nft_mint_event"}
  <2>1. \E c \in {"STX", "nft"} :
            new = BurnOperation(n, status, e, c) \/ new = MintOperation(n, status, e, c)
    BY <1>6 DEF EventOperations
  <2> QED BY <2>1, <1>2, <1>6, MintOrBurn
<1>7. CASE e.type \in {"ft_burn_event", "ft_mint_event"}
  <2>1. \E c \in FtCurrencies :
            new = BurnOperation(n, status, e, c) \/ new = MintOperation(n, status, e, c)
    BY <1>7 DEF EventOperations
  <2> QED BY <2>1, <1>2, <1>7, MintOrBurn
<1>8. CASE e.type = "stx_lock_event"
  BY <1>8, LockChunk DEF EventOperations
<1>9. CASE e.type = "contract_event"
  BY <1>9, ContractEventChunk DEF EventOperations
<1> QED BY <1>1, <1>3, <1>4, <1>5, <1>6, <1>7, <1>8, <1>9 DEF EventTypes

-----------------------------------------------------------------------------
(* The node's ledger.                                                      *)

LEMMA NothingTyped == Nothing \in [Accounts -> [Assets -> Int]]
BY DEF Nothing

\* Giving tokens keeps the ledger's type.
LEMMA GivesTyped ==
    ASSUME NEW m \in [Accounts -> [Assets -> Int]], NEW a \in Holders, NEW asset \in Assets,
           NEW n \in Int
    PROVE  Gives(m, a, asset, n) \in [Accounts -> [Assets -> Int]]
BY DEF Gives, Holders

\* So does the effect of an event.
LEMMA EffectTyped ==
    ASSUME NEW m \in [Accounts -> [Assets -> Int]], NEW e \in Events
    PROVE  Effect(m, e) \in [Accounts -> [Assets -> Int]]
<1>1. CASE e.type \in {"contract_event", "stx_lock_event"}
  BY <1>1 DEF Effect
<1>2. CASE e.type \notin {"contract_event", "stx_lock_event"}
  <2>1. /\ e.amount \in Int /\ -e.amount \in Int /\ e.asset \in Assets
        /\ e.from \in Holders /\ e.to \in Holders
    BY <1>2, EventFacts
  <2> DEFINE taken == Gives(m, e.from, e.asset, -e.amount)
  <2>2. taken \in [Accounts -> [Assets -> Int]]
    BY <2>1, GivesTyped
  <2>3. Effect(m, e) = Gives(taken, e.to, e.asset, e.amount)
    BY <1>2 DEF Effect
  <2> HIDE DEF taken
  <2>4. Gives(taken, e.to, e.asset, e.amount) \in [Accounts -> [Assets -> Int]]
    BY <2>1, <2>2, GivesTyped
  <2> QED BY <2>3, <2>4
<1> QED BY <1>1, <1>2

-----------------------------------------------------------------------------
(* The invariant.                                                          *)

LEMMA AppendChunk ==
    ASSUME NEW s, Chunk(s, 0), NEW op, Sound(op), op.index = Len(s), op.related = {}, ~Debit(op)
    PROVE  Chunk(Append(s, op), 0)
<1>1. s \in Seq(OperationRecords) /\ Len(s) \in Nat
  BY DEF Chunk
<1>2. Chunk(<<op>>, 0 + Len(s))
  BY <1>1, Single
<1>3. Append(s, op) = s \o <<op>>
  BY <1>1 DEF Sound
<1> QED BY <1>2, <1>3, Concatenation

\* The serialization begins with the fee and the payload.
LEMMA BeginPreserves ==
    ASSUME IInv, NEW src \in {"replay", "parse"}, NEW t \in Transactions, Begin(src, t)
    PROVE  IInv'
<1> DEFINE fee == FeeOperations(t, Status(t, src))
           payload == PayloadOperations(t, Len(fee), Status(t, src))
<1>1. Status(t, src) = "throws" \/ Status(t, src) \in Statuses
  BY TransactionFacts
<1>6. Chunk(ops', 0)
  <2>1. CASE Status(t, src) = "throws"
    <3>1. ops' = <<>>
      BY <2>1 DEF Begin
    <3> QED BY <3>1, EmptyChunk
  <2>2. CASE Status(t, src) # "throws"
    <3>1. Chunk(fee, 0)
      BY <1>1, <2>2, FeeChunk
    <3>2. Len(fee) \in Nat
      BY <3>1 DEF Chunk
    <3>3. Chunk(payload, 0 + Len(fee))
      BY <1>1, <2>2, <3>2, PayloadChunk
    <3>4. ops' = fee \o payload
      BY <2>2 DEF Begin
    <3> HIDE DEF fee, payload
    <3> QED BY <3>1, <3>3, <3>4, Concatenation
  <2> QED BY <2>1, <2>2
<1>7. moved' \in [Accounts -> [Assets -> Int]]
  <2>1. Payer(t) \in Holders /\ -t.fee \in Int
    BY TransactionFacts DEF Holders
  <2> QED BY <2>1, AssetFacts, NothingTyped, GivesTyped DEF Begin
<1>8. /\ source' \in {"replay", "parse"} /\ stage' \in {"abi", "events", "failed"}
      /\ tx' \in Transactions /\ seen' \in Seq(Events)
      /\ stage' # "failed" => Status(tx', source') \in Statuses
  BY <1>1 DEF Begin
<1> QED BY <1>6, <1>7, <1>8 DEF IInv, Chunk, Numbered, CreditsFollow, DebitsPrecede

\* The operation of a contract call comes after its fee, or the block fails.
LEMMA ContractCallPreserves ==
    ASSUME IInv, NEW abi \in ABIs, makeContractCallOperation(abi)
    PROVE  IInv'
<1>1. CASE abi = "unfit"
  BY <1>1 DEF IInv, makeContractCallOperation, Chunk, Numbered, CreditsFollow, DebitsPrecede
<1>2. CASE abi # "unfit"
  <2> DEFINE plain == Operation(Len(ops), "contract_call", Status(tx, source), tx.sender)
             op == [plain EXCEPT !.args = abi # "null"]
  <2>1. /\ tx \in Transactions /\ Len(ops) \in Nat /\ Status(tx, source) \in Statuses
        /\ tx.sender \in Holders /\ "contract_call" \in OperationTypes
    BY TransactionFacts DEF IInv, Chunk, makeContractCallOperation, Holders, OperationTypes
  <2>6. Status(tx, source)' = Status(tx, source)
    BY DEF makeContractCallOperation, Status, serializeTxStatus
  <2>2. Sound(plain) /\ plain.index = Len(ops) /\ plain.related = {} /\ ~Debit(plain)
    BY <2>1, Plain
  <2>3. ops' = Append(ops, op)
    BY <1>2 DEF makeContractCallOperation
  <2> HIDE DEF plain
  <2>4. Sound(op) /\ op.index = Len(ops) /\ op.related = {} /\ ~Debit(op)
    BY <2>2 DEF Sound, Debit, OperationRecords
  <2> HIDE DEF op
  <2>5. Chunk(ops', 0)
    BY <2>3, <2>4, AppendChunk DEF IInv
  <2> QED BY <1>2, <2>1, <2>5, <2>6 DEF IInv, makeContractCallOperation, Chunk, Numbered, CreditsFollow, DebitsPrecede
<1> QED BY <1>1, <1>2

\* An event appends its operations to those of the events before it.
LEMMA EventPreserves ==
    ASSUME IInv, NEW e \in Events, SerializeEvent(e)
    PROVE  IInv'
<1>1. /\ tx \in Transactions /\ Len(ops) \in Nat /\ Status(tx, source) \in Statuses
  BY TransactionFacts DEF IInv, Chunk, SerializeEvent
<1>2. PICK new \in EventOperations(tx, Len(ops), Status(tx, source), e) : ops' = ops \o new
  BY DEF SerializeEvent
<1>3. Chunk(new, 0 + Len(ops))
  BY <1>1, EventChunk
<1>4. Chunk(ops', 0)
  BY <1>2, <1>3, Concatenation DEF IInv
<1>5. moved' \in [Accounts -> [Assets -> Int]]
  BY EffectTyped DEF IInv, SerializeEvent, Executed
<1>7. Status(tx, source)' = Status(tx, source)
  BY DEF SerializeEvent, Status, serializeTxStatus
<1>6. seen' \in Seq(Events)
  BY DEF IInv, SerializeEvent
<1> QED BY <1>1, <1>4, <1>5, <1>6, <1>7 DEF IInv, SerializeEvent, Chunk, Numbered, CreditsFollow, DebitsPrecede

\* No operations yet.
LEMMA Initially == Init => IInv
BY EmptyChunk, NothingTyped DEF Init, IInv

\* Every step keeps the invariant.
LEMMA Inductive == IInv /\ [Next]_vars => IInv'
<1> SUFFICES ASSUME IInv, [Next]_vars PROVE IInv'
  OBVIOUS
<1> USE DEF Chunk, Numbered, CreditsFollow, DebitsPrecede
<1>1. CASE \E src \in {"replay", "parse"}, t \in Transactions : Begin(src, t)
  BY <1>1, BeginPreserves
<1>2. CASE \E abi \in ABIs : makeContractCallOperation(abi)
  BY <1>2, ContractCallPreserves
<1>3. CASE \E e \in Events : SerializeEvent(e)
  BY <1>3, EventPreserves
<1>4. CASE Finish
  BY <1>4 DEF Finish, IInv, Status, serializeTxStatus
<1>5. CASE Answer
  BY <1>5, NothingTyped DEF Answer, IInv
<1>6. CASE UNCHANGED vars
  BY <1>6 DEF vars, IInv, Status, serializeTxStatus
<1> QED BY <1>1, <1>2, <1>3, <1>4, <1>5, <1>6 DEF Next

\* The operations so far are always a good list, however they came about.
THEOREM Invariance == Spec => []IInv
BY Initially, Inductive, PTL DEF Spec

-----------------------------------------------------------------------------
(* What it implies.                                                        *)

\* The serializer's variables always hold values of their types.
THEOREM TypeCorrect == Spec => []TypeOK
<1>1. IInv => TypeOK
  <2> SUFFICES ASSUME IInv, NEW i \in DOMAIN ops
               PROVE  /\ ops[i].index \in Nat /\ ops[i].status \in Statuses
                      /\ ops[i].account \in Accounts \cup {NoAccount}
                      /\ ops[i].value # 0 <=> ops[i].asset \in Assets
    BY DEF IInv, TypeOK
  <2>1. Sound(ops[i])
    BY DEF IInv, Chunk
  <2> QED BY <2>1 DEF Sound, OperationRecords, Holders
<1> QED BY <1>1, Invariance, PTL

\* Indexes count the operations of a transaction from 0 without gaps.
THEOREM IndexesAreCounted == Spec => []IndexesCount
<1>1. IInv => IndexesCount
  BY DEF IInv, Chunk, Numbered, IndexesCount
<1> QED BY <1>1, Invariance, PTL

\* The credit of a transfer is its debit but for what a credit changes.
LEMMA Sided ==
    ASSUME NEW op \in OperationRecords, NEW send \in OperationRecords, CreditOf(op, send)
    PROVE  op = [send EXCEPT !.index = op.index, !.related = {send.index},
                             !.account = op.account, !.value = -@]
BY DEF CreditOf, OperationRecords

\* The two sides of every transfer belong together, and every debit has its credit.
THEOREM SidesTogether == Spec => []SidesBelongTogether
<1>1. ASSUME IInv, NEW i \in DOMAIN ops, NEW k \in ops[i].related
      PROVE  \E j \in 1..(i - 1) :
                /\ ops[j].index = k
                /\ ops[i] = [ops[j] EXCEPT !.index = ops[i].index, !.related = {k},
                                           !.account = ops[i].account, !.value = -@]
                /\ ops[j].value < 0
  <2>1. i - 1 \in DOMAIN ops /\ CreditOf(ops[i], ops[i - 1])
    BY <1>1 DEF IInv, Chunk, CreditsFollow
  <2>2. ops[i] \in OperationRecords /\ ops[i - 1] \in OperationRecords /\ i - 1 \in 1..(i - 1)
    BY <1>1, <2>1 DEF IInv, Chunk
  <2>3. ops[i - 1].index = k /\ ops[i - 1].value < 0
    BY <1>1, <2>1 DEF CreditOf
  <2>4. ops[i] = [ops[i - 1] EXCEPT !.index = ops[i].index, !.related = {k},
                                    !.account = ops[i].account, !.value = -@]
    BY <2>1, <2>2, <2>3, Sided
  <2> QED BY <2>2, <2>3, <2>4
<1>2. ASSUME IInv, NEW j \in DOMAIN ops, Debit(ops[j])
      PROVE  \E i \in DOMAIN ops :
                \A x \in DOMAIN ops : ops[j].index \in ops[x].related <=> x = i
  <2>1. j + 1 \in DOMAIN ops /\ ops[j + 1].related = {ops[j].index}
    BY <1>2 DEF IInv, Chunk, DebitsPrecede
  <2>2. ASSUME NEW x \in DOMAIN ops, ops[j].index \in ops[x].related
        PROVE  x = j + 1
    <3>1. x - 1 \in DOMAIN ops /\ ops[x].related = {ops[x - 1].index}
      BY <1>2, <2>2 DEF IInv, Chunk, CreditsFollow, CreditOf
    <3>2. ops[x - 1].index = 0 + (x - 1) - 1 /\ ops[j].index = 0 + j - 1
      BY <1>2, <3>1 DEF IInv, Chunk, Numbered
    <3>3. x \in Nat /\ j \in Nat /\ ops[j].index = ops[x - 1].index
      BY <1>2, <2>2, <3>1 DEF IInv, Chunk
    <3> QED BY <3>2, <3>3
  <2> QED BY <2>1, <2>2
<1>3. IInv => SidesBelongTogether
  BY <1>1, <1>2 DEF SidesBelongTogether, Debit
<1> QED BY <1>3, Invariance, PTL

-----------------------------------------------------------------------------
(* What a list of operations tells of one token of one account, added up.  *)

\* The sums of the first n shares, n by n.
Sums(list, a, x) ==
    {g \in [0..Len(list) -> Int] :
        /\ Total(list, a, x) = g[Len(list)]
        /\ g[0] = 0
        /\ \A n \in 1..Len(list) : g[n] = g[n - 1] + Share(list[n], a, x)}

\* A share is a number.
LEMMA ShareIs ==
    ASSUME NEW op \in OperationRecords, NEW a, NEW x
    PROVE  Share(op, a, x) \in Int
  BY DEF Share, OperationRecords

\* The recursion of Total has a solution, and Total is its last value.
LEMMA SumsExist ==
    ASSUME NEW list \in Seq(OperationRecords), NEW a, NEW x
    PROVE  \E g \in Sums(list, a, x) : TRUE
<1> DEFINE N == Len(list)
           next == [p \in Int \X (1..N) |-> p[1] + Share(list[p[2]], a, x)]
<1>1. N \in Nat /\ 0 \in Int /\ \A n \in 1..N : list[n] \in OperationRecords
  OBVIOUS
<1>2. \A n \in 1..N : Share(list[n], a, x) \in Int
  BY <1>1, ShareIs
<1>3. \A i \in Int, n \in 1..N : next[<<i, n>>] = i + Share(list[n], a, x)
  OBVIOUS
<1> HIDE DEF next, N
<1>4. ASSUME NEW i \in Int, NEW n \in 1..N PROVE next[<<i, n>>] \in Int
  <2>1. next[<<i, n>>] = i + Share(list[n], a, x) /\ Share(list[n], a, x) \in Int
    BY <1>2, <1>3
  <2> QED BY <2>1
<1>5. PICK g \in Solutions(Int, 0, N, next) : TRUE
  BY <1>1, <1>4, Solution
<1>6. g \in [0..N -> Int] /\ g[0] = 0 /\ \A n \in 1..N : g[n] = next[<<g[n - 1], n>>]
  BY <1>5 DEF Solutions
<1>7. ASSUME NEW n \in 1..N PROVE g[n] = g[n - 1] + Share(list[n], a, x)
  <2>1. n - 1 \in 0..N
    BY <1>1
  <2> QED BY <1>3, <1>6, <2>1
<1>8. Total(list, a, x) = g[N]
  <2> DEFINE Follows(f) ==
               f = [n \in 0..N |-> IF n = 0 THEN 0 ELSE f[n - 1] + Share(list[n], a, x)]
             total == CHOOSE f : Follows(f)
  <2>1. Follows(g)
    <3>1. ASSUME NEW n \in 0..N
          PROVE  g[n] = IF n = 0 THEN 0 ELSE g[n - 1] + Share(list[n], a, x)
      <4>1. n # 0 => n \in 1..N
        BY <1>1
      <4> QED BY <1>6, <1>7, <4>1
    <3>2. g = [n \in 0..N |-> g[n]]
      BY <1>6
    <3>3. [n \in 0..N |-> g[n]]
            = [n \in 0..N |-> IF n = 0 THEN 0 ELSE g[n - 1] + Share(list[n], a, x)]
      BY <3>1, Zenon
    <3> QED BY <3>2, <3>3, Zenon
  <2>2. Follows(total)
    BY <2>1
  <2>3. Total(list, a, x) = total[N]
    BY Zenon DEF Total, N
  <2> HIDE DEF total
  <2>4. total[0] = 0 /\ \A n \in 1..N : total[n] = total[n - 1] + Share(list[n], a, x)
    <3>1. \A n \in 1..N : n \in 0..N /\ n # 0
      BY <1>1
    <3>2. 0 \in 0..N
      BY <1>1
    <3> QED BY <2>2, <3>1, <3>2
  <2> HIDE DEF Follows
  <2> DEFINE S == {n \in 0..N : total[n] = g[n]}
  <2>5. ASSUME NEW n \in 1..N, n - 1 \in S PROVE n \in S
    <3>1. n \in 0..N
      BY <1>1
    <3> QED BY <1>7, <2>4, <2>5, <3>1
  <2>6. 0 \in S
    BY <1>1, <1>6, <2>4
  <2>7. N \in S
    <3> HIDE DEF S
    <3>1. \A n \in 0..N : n \in S
      BY <1>1, <2>5, <2>6, UpTo
    <3> QED BY <1>1, <3>1
  <2> QED BY <2>3, <2>7
<1> QED BY <1>6, <1>7, <1>8 DEF Sums, N

\* The total of no operations, and of one.
LEMMA TotalOfNone ==
    ASSUME NEW a, NEW x
    PROVE  Total(<<>>, a, x) = 0
<1>1. <<>> \in Seq(OperationRecords) /\ Len(<<>>) = 0
  OBVIOUS
<1>2. PICK g \in Sums(<<>>, a, x) : TRUE
  BY <1>1, SumsExist
<1> QED BY <1>1, <1>2 DEF Sums

LEMMA TotalOfOne ==
    ASSUME NEW op \in OperationRecords, NEW a, NEW x
    PROVE  Total(<<op>>, a, x) = Share(op, a, x)
<1> DEFINE s == <<op>>
<1>1. s \in Seq(OperationRecords) /\ Len(s) = 1 /\ s[1] = op
  OBVIOUS
<1> HIDE DEF s
<1>2. PICK g \in Sums(s, a, x) : TRUE
  BY <1>1, SumsExist
<1>3. Total(s, a, x) = g[1] /\ g[0] = 0 /\ g[1] = g[1 - 1] + Share(s[1], a, x)
  <2>1. 1 \in 1..Len(s)
    BY <1>1
  <2> QED BY <1>1, <1>2, <2>1 DEF Sums
<1>4. Share(op, a, x) \in Int
  BY ShareIs
<1> QED BY <1>1, <1>3, <1>4 DEF s

\* Totals add up.
LEMMA TotalOfBoth ==
    ASSUME NEW s \in Seq(OperationRecords), NEW t \in Seq(OperationRecords), NEW a, NEW x
    PROVE  /\ Total(s, a, x) \in Int /\ Total(t, a, x) \in Int
           /\ Total(s \o t, a, x) = Total(s, a, x) + Total(t, a, x)
<1> DEFINE r == s \o t
           M == Len(s)
           N == Len(t)
<1>1. /\ r \in Seq(OperationRecords) /\ M \in Nat /\ N \in Nat /\ Len(r) = M + N
      /\ \A i \in 1..M : r[i] = s[i]
      /\ \A i \in 1..N : r[M + i] = t[i]
  OBVIOUS
<1> HIDE DEF r
<1>2. PICK f \in Sums(s, a, x) : TRUE
  BY SumsExist
<1>3. PICK h \in Sums(t, a, x) : TRUE
  BY SumsExist
<1>4. PICK g \in Sums(r, a, x) : TRUE
  BY <1>1, SumsExist
<1>5. /\ f \in [0..M -> Int] /\ Total(s, a, x) = f[M] /\ f[0] = 0
      /\ \A n \in 1..M : f[n] = f[n - 1] + Share(s[n], a, x)
  BY <1>2 DEF Sums
<1>6. /\ h \in [0..N -> Int] /\ Total(t, a, x) = h[N] /\ h[0] = 0
      /\ \A n \in 1..N : h[n] = h[n - 1] + Share(t[n], a, x)
  BY <1>3 DEF Sums
<1>7. /\ g \in [0..(M + N) -> Int] /\ Total(r, a, x) = g[M + N] /\ g[0] = 0
      /\ \A n \in 1..(M + N) : g[n] = g[n - 1] + Share(r[n], a, x)
  BY <1>1, <1>4 DEF Sums
<1> HIDE DEF M, N
<1>8. g[M] = f[M]
  <2> DEFINE P == {n \in 0..M : g[n] = f[n]}
  <2>1. ASSUME NEW n \in 1..M, n - 1 \in P PROVE n \in P
    <3>1. n \in 1..(M + N) /\ n \in 0..M
      BY <1>1
    <3> QED BY <1>1, <1>5, <1>7, <2>1, <3>1
  <2>2. 0 \in P
    BY <1>1, <1>5, <1>7
  <2>3. M \in P
    <3> HIDE DEF P
    <3>1. \A n \in 0..M : n \in P
      BY <1>1, <2>1, <2>2, UpTo
    <3> QED BY <1>1, <3>1
  <2> QED BY <2>3
<1> DEFINE S == {n \in 0..N : g[M + n] = f[M] + h[n]}
<1>9. 0 \in S
  <2>1. M \in 0..M /\ 0 \in 0..N /\ M + 0 = M
    BY <1>1
  <2>2. f[M] \in Int
    BY <1>5, <2>1
  <2> QED BY <1>6, <1>8, <2>1, <2>2
<1>10. ASSUME NEW n \in 1..N, n - 1 \in S PROVE n \in S
  <2>1. /\ M + n \in 1..(M + N) /\ (M + n) - 1 = M + (n - 1) /\ n \in 0..N
        /\ n - 1 \in 0..N /\ M \in 0..M
    BY <1>1
  <2>2. g[M + n] = g[M + (n - 1)] + Share(r[M + n], a, x)
    BY <1>7, <2>1
  <2>3. r[M + n] = t[n] /\ t[n] \in OperationRecords
    BY <1>1 DEF N
  <2>4. Share(t[n], a, x) \in Int
    BY <2>3, ShareIs
  <2>5. f[M] \in Int /\ h[n - 1] \in Int
    BY <1>5, <1>6, <2>1
  <2>6. g[M + (n - 1)] = f[M] + h[n - 1] /\ h[n] = h[n - 1] + Share(t[n], a, x)
    BY <1>6, <1>10
  <2>7. g[M + n] = f[M] + h[n]
    BY <2>2, <2>3, <2>4, <2>5, <2>6
  <2> QED BY <2>1, <2>7
<1>11. N \in S
  <2> HIDE DEF S
  <2>1. \A n \in 0..N : n \in S
    BY <1>1, <1>9, <1>10, UpTo
  <2> QED BY <1>1, <2>1
<1>12. f[M] \in Int /\ h[N] \in Int
  BY <1>1, <1>5, <1>6
<1> QED BY <1>5, <1>6, <1>7, <1>11, <1>12 DEF r

-----------------------------------------------------------------------------
(* What each operation tells.                                              *)

\* What one change of n units of a token to an account is to another.
To(b, asset, n, a, x) == IF a = b /\ x = asset THEN n ELSE 0

\* An operation with an amount that moves tokens tells its amount, if it succeeded.
LEMMA TotalOfValued ==
    ASSUME NEW n \in Nat, NEW type \in OperationTypes, NEW status \in Statuses,
           NEW account \in Holders, NEW value \in Int, NEW asset \in Assets,
           NEW currency \in Currencies, NEW a, NEW x
    PROVE  Total(<<WithAmount(Operation(n, type, status, account), value, asset, currency)>>, a, x)
             = IF \/ type = "fee"
                  \/ status = "success" /\ type \in {"token_transfer", "token_mint", "token_burn"}
               THEN To(account, asset, value, a, x) ELSE 0
<1> DEFINE op == WithAmount(Operation(n, type, status, account), value, asset, currency)
<1>1. IsOperation(op, n, type, status, account, value, asset, currency)
  BY Described
<1> HIDE DEF op
<1>2. Total(<<op>>, a, x) = Share(op, a, x)
  BY <1>1, TotalOfOne DEF IsOperation
<1>3. Share(op, a, x) = IF \/ type = "fee"
                           \/ status = "success" /\ type \in {"token_transfer", "token_mint", "token_burn"}
                        THEN To(account, asset, value, a, x) ELSE 0
  BY <1>1 DEF IsOperation, Share, Tells, To
<1> QED BY <1>2, <1>3 DEF op

\* An operation without an amount tells nothing of any token.
LEMMA TotalOfPlain ==
    ASSUME NEW n \in Nat, NEW type \in OperationTypes, NEW status \in Statuses,
           NEW account \in Holders, NEW a, NEW x \in Assets
    PROVE  Total(<<Operation(n, type, status, account)>>, a, x) = 0
<1> DEFINE op == Operation(n, type, status, account)
<1>1. op \in OperationRecords /\ op.asset = NoAsset
  BY DEF Operation, OperationRecords, Currencies
<1> HIDE DEF op
<1>2. Total(<<op>>, a, x) = Share(op, a, x)
  BY <1>1, TotalOfOne
<1>3. Share(op, a, x) = 0
  BY <1>1, AssetFacts DEF Share, Tells
<1> QED BY <1>2, <1>3 DEF op

\* A transfer tells its debit and its credit, if it succeeded.
LEMMA TotalOfTransfer ==
    ASSUME NEW n \in Nat, NEW status \in Statuses, NEW from \in Holders, NEW to \in Holders,
           NEW amount \in Nat \ {0}, NEW asset \in Assets, NEW currency \in Currencies,
           NEW a, NEW x
    PROVE  Total(TransferOperations(n, status, from, to, amount, asset, currency), a, x)
             = IF status = "success"
               THEN To(from, asset, -amount, a, x) + To(to, asset, amount, a, x) ELSE 0
<1> DEFINE send == WithAmount(Operation(n, "token_transfer", status, from),
                              -amount, asset, currency)
           credit == WithAmount(Operation(n + 1, "token_transfer", status, to),
                                amount, asset, currency)
           receive == [credit EXCEPT !.related = {n}]
<1>1. "token_transfer" \in OperationTypes /\ -amount \in Int /\ amount \in Int
  BY DEF OperationTypes
<1>2. Total(<<send>>, a, x) = IF status = "success" THEN To(from, asset, -amount, a, x) ELSE 0
  <2> HIDE DEF To
  <2> QED BY <1>1, TotalOfValued
<1>3. /\ IsOperation(credit, n + 1, "token_transfer", status, to, amount, asset, currency)
      /\ IsOperation(send, n, "token_transfer", status, from, -amount, asset, currency)
  BY <1>1, Described
<1> HIDE DEF send, credit
<1>4. /\ receive \in OperationRecords
      /\ receive.type = "token_transfer" /\ receive.status = status
      /\ receive.value = amount /\ receive.asset = asset /\ receive.account = to
  BY <1>3 DEF OperationRecords, IsOperation
<1> HIDE DEF receive
<1>5. Total(<<receive>>, a, x) = IF status = "success" THEN To(to, asset, amount, a, x) ELSE 0
  <2>1. Total(<<receive>>, a, x) = Share(receive, a, x)
    BY <1>4, TotalOfOne
  <2> QED BY <2>1, <1>4 DEF Share, Tells, To
<1>6. send \in OperationRecords
  BY <1>3 DEF IsOperation
<1>7. <<send, receive>> = <<send>> \o <<receive>>
  BY <1>4, <1>6
<1>8. Total(<<send, receive>>, a, x) = Total(<<send>>, a, x) + Total(<<receive>>, a, x)
  <2> DEFINE s == <<send>>
             t == <<receive>>
  <2>1. s \in Seq(OperationRecords) /\ t \in Seq(OperationRecords)
    BY <1>4, <1>6
  <2> HIDE DEF s, t
  <2>2. Total(s \o t, a, x) = Total(s, a, x) + Total(t, a, x)
    BY <2>1, TotalOfBoth
  <2> QED BY <1>7, <2>2 DEF s, t
<1>9. TransferOperations(n, status, from, to, amount, asset, currency) = <<send, receive>>
  BY DEF TransferOperations, send, receive, credit
<1> QED BY <1>2, <1>5, <1>8, <1>9

-----------------------------------------------------------------------------
(* What the node does.                                                     *)

\* What an event changes of one token of one account.
Change(e, a, x) ==
    IF e.type \in {"contract_event", "stx_lock_event"} THEN 0
    ELSE To(e.from, e.asset, -e.amount, a, x) + To(e.to, e.asset, e.amount, a, x)

\* A gift to an account adds to that token of that account.
LEMMA GivesIs ==
    ASSUME NEW m \in [Accounts -> [Assets -> Int]], NEW b \in Holders, NEW asset \in Assets,
           NEW n \in Int, NEW a \in Accounts, NEW x \in Assets
    PROVE  Gives(m, b, asset, n)[a][x] = m[a][x] + To(b, asset, n, a, x)
<1>1. CASE b = NoAccount
  <2>1. a # b
    BY <1>1, AmountAssumption
  <2> QED BY <1>1, <2>1 DEF Gives, To
<1>2. CASE b \in Accounts /\ b # NoAccount
  BY <1>2 DEF Gives, To
<1> QED BY <1>1, <1>2 DEF Holders

\* An event adds its change.
LEMMA EffectIs ==
    ASSUME NEW m \in [Accounts -> [Assets -> Int]], NEW e \in Events,
           NEW a \in Accounts, NEW x \in Assets
    PROVE  Effect(m, e)[a][x] = m[a][x] + Change(e, a, x)
<1>1. CASE e.type \in {"contract_event", "stx_lock_event"}
  BY <1>1 DEF Effect, Change
<1>2. CASE e.type \notin {"contract_event", "stx_lock_event"}
  <2>1. /\ e.amount \in Int /\ -e.amount \in Int /\ e.asset \in Assets
        /\ e.from \in Holders /\ e.to \in Holders
    BY <1>2, EventFacts
  <2> DEFINE taken == Gives(m, e.from, e.asset, -e.amount)
  <2>6. taken \in [Accounts -> [Assets -> Int]]
    BY <2>1, GivesTyped
  <2>7. taken[a][x] = m[a][x] + To(e.from, e.asset, -e.amount, a, x)
    BY <2>1, GivesIs
  <2>3. Effect(m, e) = Gives(taken, e.to, e.asset, e.amount)
    BY <1>2 DEF Effect
  <2> HIDE DEF taken
  <2>4. Gives(taken, e.to, e.asset, e.amount)[a][x]
          = taken[a][x] + To(e.to, e.asset, e.amount, a, x)
    BY <2>1, <2>6, GivesIs
  <2>5. /\ To(e.from, e.asset, -e.amount, a, x) \in Int
        /\ To(e.to, e.asset, e.amount, a, x) \in Int /\ m[a][x] \in Int
    BY <2>1 DEF To
  <2> QED BY <1>2, <2>3, <2>4, <2>5, <2>7 DEF Change
<1> QED BY <1>1, <1>2

\* The event of a token transfer is one.
LEMMA PayloadEventIs ==
    ASSUME NEW t \in Transactions, t.type = "token_transfer"
    PROVE  PayloadEvent(t) \in Events
<1> DEFINE e == PayloadEvent(t)
<1>1. /\ t.sender \in Accounts /\ t.recipient \in Accounts /\ t.amount \in Amounts
      /\ t.sender # t.recipient
  BY DEF Transactions, TxRecords
<1>2. NoAccount \notin Accounts /\ STX \notin NonFungibleTokens /\ STX \in Assets
  BY AmountAssumption DEF Assets
<1>3. /\ e.type = "stx_transfer_event" /\ e.asset = STX /\ e.from = t.sender
      /\ e.to = t.recipient /\ e.amount = t.amount /\ e.what = ""
      /\ e \in EventRecords
  BY <1>1, <1>2 DEF PayloadEvent, EventRecords, EventTypes
<1> HIDE DEF e
<1>4. AssetsOf(e.type) = {STX}
  BY <1>3 DEF AssetsOf
<1>5. e.from # NoAccount /\ e.to # NoAccount
  BY <1>1, <1>2, <1>3
<1>6. e \in Events
  BY <1>1, <1>2, <1>3, <1>4, <1>5 DEF Events
<1> QED BY <1>6 DEF e

-----------------------------------------------------------------------------
(* What the operations of a transaction and of an event tell.              *)

\* The fee, whatever becomes of the transaction.
LEMMA TotalOfFee ==
    ASSUME NEW t \in Transactions, NEW status \in Statuses, NEW a \in Accounts, NEW x \in Assets
    PROVE  Total(FeeOperations(t, status), a, x) = To(Payer(t), STX, -t.fee, a, x)
<1>1. /\ Payer(t) \in Holders /\ t.fee \in Nat /\ -t.fee \in Int /\ 0 \in Nat
      /\ "fee" \in OperationTypes /\ STX \in Assets /\ "STX" \in Currencies
  BY TransactionFacts, AssetFacts DEF Holders, OperationTypes
<1>2. CASE t.fee > 0
  <2>1. FeeOperations(t, status)
          = <<WithAmount(Operation(0, "fee", status, Payer(t)), -t.fee, STX, "STX")>>
    BY <1>2 DEF FeeOperations, makeFeeOperation
  <2>2. Total(<<WithAmount(Operation(0, "fee", status, Payer(t)), -t.fee, STX, "STX")>>, a, x)
          = To(Payer(t), STX, -t.fee, a, x)
    BY <1>1, TotalOfValued
  <2> QED BY <2>1, <2>2
<1>3. CASE ~(t.fee > 0)
  <2>1. FeeOperations(t, status) = <<>> /\ t.fee = 0 /\ -t.fee = 0
    BY <1>1, <1>3 DEF FeeOperations
  <2> QED BY <2>1, TotalOfNone DEF To
<1> QED BY <1>2, <1>3

\* The payload: that of a transfer what its event does.
LEMMA TotalOfPayload ==
    ASSUME NEW t \in Transactions, NEW n \in Nat, NEW status \in Statuses,
           NEW a \in Accounts, NEW x \in Assets
    PROVE  Total(PayloadOperations(t, n, status), a, x)
             = IF t.type = "token_transfer" /\ status = "success"
               THEN Change(PayloadEvent(t), a, x) ELSE 0
<1>0. t.sender \in Holders /\ t.recipient \in Holders
  BY TransactionFacts DEF Holders
<1>1. CASE t.type = "token_transfer"
  <2>1. PayloadOperations(t, n, status)
          = TransferOperations(n, status, t.sender, t.recipient, t.amount, STX, "STX")
    BY <1>1 DEF PayloadOperations, makeStxTransferOperations
  <2>2. t.amount \in Nat \ {0} /\ STX \in Assets /\ "STX" \in Currencies
    BY <1>1, TransactionFacts, AssetFacts
  <2>3. Total(TransferOperations(n, status, t.sender, t.recipient, t.amount, STX, "STX"), a, x)
          = IF status = "success"
            THEN To(t.sender, STX, -t.amount, a, x) + To(t.recipient, STX, t.amount, a, x) ELSE 0
    BY <1>0, <2>2, TotalOfTransfer
  <2>4. Change(PayloadEvent(t), a, x)
          = To(t.sender, STX, -t.amount, a, x) + To(t.recipient, STX, t.amount, a, x)
    BY DEF Change, PayloadEvent
  <2> QED BY <1>1, <2>1, <2>3, <2>4
<1>2. CASE t.type = "tenure_change"
  <2>1. PayloadOperations(t, n, status) = <<Operation(n, "tenure_change", status, NoAccount)>>
    BY <1>2 DEF PayloadOperations
  <2>2. "tenure_change" \in OperationTypes /\ NoAccount \in Holders
    BY DEF OperationTypes, Holders
  <2> QED BY <1>2, <2>1, <2>2, TotalOfPlain
<1>3. CASE t.type = "contract_deploy" \/ t.type = "coinbase"
  <2>1. PayloadOperations(t, n, status) = <<Operation(n, t.type, status, t.sender)>>
    BY <1>3 DEF PayloadOperations
  <2>2. t.type \in OperationTypes
    BY <1>3 DEF OperationTypes
  <2> QED BY <1>0, <1>3, <2>1, <2>2, TotalOfPlain
<1>4. CASE t.type \notin {"token_transfer", "tenure_change", "contract_deploy", "coinbase"}
  <2>1. PayloadOperations(t, n, status) = <<>>
    BY <1>4 DEF PayloadOperations
  <2> QED BY <1>4, <2>1, TotalOfNone
<1> QED BY <1>1, <1>2, <1>3, <1>4

\* A mint gives, and a burn takes.
LEMMA TotalOfMintOrBurn ==
    ASSUME NEW n \in Nat, NEW e \in Events, NEW currency \in Currencies,
           e.type # "contract_event", NEW a, NEW x
    PROVE  /\ Total(MintOperation(n, "success", e, currency), a, x)
                = To(e.to, e.asset, e.amount, a, x)
           /\ Total(BurnOperation(n, "success", e, currency), a, x)
                = To(e.from, e.asset, -e.amount, a, x)
<1>1. /\ "token_mint" \in OperationTypes /\ "token_burn" \in OperationTypes
      /\ "success" \in Statuses /\ e.amount \in Int /\ -e.amount \in Int
      /\ e.from \in Holders /\ e.to \in Holders /\ e.asset \in Assets
  BY EventFacts DEF OperationTypes, Statuses
<1>2. Total(<<WithAmount(Operation(n, "token_mint", "success", e.to), e.amount, e.asset, currency)>>, a, x)
        = To(e.to, e.asset, e.amount, a, x)
  BY <1>1, TotalOfValued
<1>3. Total(<<WithAmount(Operation(n, "token_burn", "success", e.from), -e.amount, e.asset, currency)>>, a, x)
        = To(e.from, e.asset, -e.amount, a, x)
  BY <1>1, TotalOfValued
<1> QED BY <1>2, <1>3 DEF MintOperation, BurnOperation

\* A contract event tells of no token that moves.
LEMMA TotalOfContractEvent ==
    ASSUME NEW n \in Nat, NEW e \in Events, NEW a, NEW x \in Assets
    PROVE  Total(makeContractEventOperations(n, "success", e), a, x) = 0
<1>1. /\ n + 1 \in Nat /\ NoAccount \in Holders /\ "contract_log" \in OperationTypes
      /\ e.amount \in Int /\ e.from \in Holders /\ "success" \in Statuses
      /\ STX \in Assets /\ "STX" \in Currencies
  BY EventFacts, AssetFacts DEF Holders, OperationTypes, Statuses
<1> DEFINE log == Operation(n, "contract_log", "success", NoAccount)
           s == <<log>>
           pox == makeSyntheticPoxOperation(n, "success", e)
<1>2. Total(s, a, x) = 0
  BY <1>1, TotalOfPlain
<1>3. Total(pox, a, x) = 0 /\ pox \in Seq(OperationRecords)
  <2>1. CASE e.what \in AmountPoxEvents
    <3> DEFINE op == WithAmount(Operation(n + 1, e.what, "success", e.from), e.amount, STX, "STX")
    <3>1. /\ e.what \in OperationTypes
          /\ e.what \notin {"fee", "token_transfer", "token_mint", "token_burn"}
          /\ e.what \notin PlainPoxEvents
      BY <2>1 DEF OperationTypes, AmountPoxEvents, PlainPoxEvents
    <3>2. pox = <<op>>
      BY <2>1, <3>1 DEF makeSyntheticPoxOperation
    <3>3. IsOperation(op, n + 1, e.what, "success", e.from, e.amount, STX, "STX")
      BY <1>1, <3>1, Described
    <3>4. Total(<<op>>, a, x) = 0
      BY <1>1, <3>1, TotalOfValued
    <3> HIDE DEF op
    <3>5. <<op>> \in Seq(OperationRecords)
      BY <3>3 DEF IsOperation
    <3> HIDE DEF pox
    <3> QED BY <3>2, <3>4, <3>5
  <2>2. CASE e.what \in PlainPoxEvents /\ e.what \notin AmountPoxEvents
    <3> DEFINE op == Operation(n + 1, e.what, "success", e.from)
    <3>1. e.what \in OperationTypes
      BY <2>2 DEF OperationTypes
    <3>2. pox = <<op>>
      BY <2>2 DEF makeSyntheticPoxOperation
    <3>3. Sound(op)
      BY <1>1, <3>1, Plain
    <3>4. Total(<<op>>, a, x) = 0
      BY <1>1, <3>1, TotalOfPlain
    <3> HIDE DEF op
    <3>5. <<op>> \in Seq(OperationRecords)
      BY <3>3 DEF Sound
    <3> HIDE DEF pox
    <3> QED BY <3>2, <3>4, <3>5
  <2>3. CASE e.what \notin AmountPoxEvents \cup PlainPoxEvents
    <3>1. pox = <<>>
      BY <2>3 DEF makeSyntheticPoxOperation
    <3> HIDE DEF pox
    <3> QED BY <3>1, TotalOfNone
  <2> QED BY <2>1, <2>2, <2>3
<1>4. makeContractEventOperations(n, "success", e) = s \o pox
  BY DEF makeContractEventOperations
<1>5. s \in Seq(OperationRecords)
  <2>1. Sound(log)
    BY <1>1, Plain
  <2> HIDE DEF log
  <2> QED BY <2>1 DEF Sound
<1> HIDE DEF s, pox
<1>6. Total(s \o pox, a, x) = Total(s, a, x) + Total(pox, a, x)
  <2>1. pox \in Seq(OperationRecords)
    BY <1>3
  <2> HIDE DEF log
  <2> QED BY <1>5, <2>1, TotalOfBoth
<1>7. Total(makeContractEventOperations(n, "success", e), a, x) = Total(s \o pox, a, x)
  BY <1>4, Zenon
<1>8. Total(s, a, x) = 0 /\ Total(pox, a, x) = 0
  BY <1>2, <1>3, Zenon
<1> QED BY <1>6, <1>7, <1>8

\* An event of a transaction that succeeded tells what it changed, unless the payload
\* has told it.
LEMMA TotalOfEvent ==
    ASSUME NEW t \in Transactions, NEW n \in Nat, NEW e \in Events,
           NEW new \in EventOperations(t, n, "success", e), NEW a \in Accounts, NEW x \in Assets
    PROVE  Total(new, a, x)
             = IF t.type = "token_transfer" /\ e.type = "stx_transfer_event" THEN 0
               ELSE Change(e, a, x)
<1>1. /\ e.amount \in Nat \ {0} /\ 1 \in Nat \ {0} /\ e.from \in Holders /\ e.to \in Holders
      /\ e.type \in EventTypes /\ (e.type # "contract_event" => e.asset \in Assets)
  BY EventFacts
<1>2. /\ STX \in Assets /\ "STX" \in Currencies /\ "nft" \in Currencies
      /\ FtCurrencies \subseteq Currencies /\ "success" \in Statuses
  BY AssetFacts DEF Currencies, Statuses
<1>3. /\ e.asset \in AssetsOf(e.type)
      /\ e.amount \in IF e.asset \in NonFungibleTokens THEN {1} ELSE Amounts
      /\ (e.from = NoAccount) <=> e.type \in {"ft_mint_event", "nft_mint_event"}
      /\ (e.to # NoAccount) <=>
           e.type \in {"stx_transfer_event", "ft_transfer_event", "nft_transfer_event",
                       "ft_mint_event", "nft_mint_event"}
  BY DEF Events
<1>4. To(NoAccount, e.asset, e.amount, a, x) = 0 /\ To(NoAccount, e.asset, -e.amount, a, x) = 0
  BY AmountAssumption DEF To
<1>5. To(e.to, e.asset, e.amount, a, x) \in Int /\ To(e.from, e.asset, -e.amount, a, x) \in Int
  BY <1>1 DEF To
<1>6. CASE e.type = "stx_transfer_event"
  <2>1. new = StxTransferEventOperations(t, n, "success", e) /\ e.asset = STX
    BY <1>3, <1>6 DEF EventOperations, AssetsOf
  <2>2. CASE t.type = "token_transfer"
    <3>1. new = <<>>
      BY <2>1, <2>2 DEF StxTransferEventOperations
    <3> QED BY <1>6, <2>2, <3>1, TotalOfNone
  <2>3. CASE t.type # "token_transfer"
    <3>1. new = TransferOperations(n, "success", e.from, e.to, e.amount, STX, "STX")
      BY <2>1, <2>3 DEF StxTransferEventOperations, makeStxTransferOperations
    <3>2. Total(TransferOperations(n, "success", e.from, e.to, e.amount, STX, "STX"), a, x)
            = To(e.from, STX, -e.amount, a, x) + To(e.to, STX, e.amount, a, x)
      BY <1>1, <1>2, TotalOfTransfer
    <3> QED BY <1>6, <2>1, <2>3, <3>1, <3>2 DEF Change
  <2> QED BY <2>2, <2>3
<1>7. CASE e.type = "ft_transfer_event"
  <2>1. PICK c \in FtCurrencies :
            new = TransferOperations(n, "success", e.from, e.to, e.amount, e.asset, c)
    BY <1>7 DEF EventOperations, makeFtTransferOperations
  <2>2. Total(TransferOperations(n, "success", e.from, e.to, e.amount, e.asset, c), a, x)
          = To(e.from, e.asset, -e.amount, a, x) + To(e.to, e.asset, e.amount, a, x)
    BY <1>1, <1>2, <1>7, TotalOfTransfer
  <2> QED BY <1>7, <2>1, <2>2 DEF Change
<1>8. CASE e.type = "nft_transfer_event"
  <2>1. new = TransferOperations(n, "success", e.from, e.to, 1, e.asset, "nft")
    BY <1>8 DEF EventOperations, makeNftTransferOperations
  <2>2. e.amount = 1
    BY <1>3, <1>8 DEF AssetsOf
  <2>3. Total(TransferOperations(n, "success", e.from, e.to, 1, e.asset, "nft"), a, x)
          = To(e.from, e.asset, -1, a, x) + To(e.to, e.asset, 1, a, x)
    BY <1>1, <1>2, <1>8, TotalOfTransfer
  <2> QED BY <1>8, <2>1, <2>2, <2>3 DEF Change
<1>9. CASE e.type \in {"ft_mint_event", "nft_mint_event"}
  <2>1. PICK c \in Currencies : new = MintOperation(n, "success", e, c)
    BY <1>2, <1>9 DEF EventOperations
  <2>2. Total(MintOperation(n, "success", e, c), a, x) = To(e.to, e.asset, e.amount, a, x)
    BY <1>9, TotalOfMintOrBurn
  <2>3. Change(e, a, x) = To(e.from, e.asset, -e.amount, a, x) + To(e.to, e.asset, e.amount, a, x)
    BY <1>9 DEF Change
  <2>4. e.from = NoAccount
    BY <1>3, <1>9
  <2>5. Change(e, a, x) = To(e.to, e.asset, e.amount, a, x)
    BY <1>4, <1>5, <2>3, <2>4
  <2> QED BY <1>9, <2>1, <2>2, <2>5
<1>10. CASE e.type \in {"stx_burn_event", "ft_burn_event", "nft_burn_event"}
  <2>1. PICK c \in Currencies : new = BurnOperation(n, "success", e, c)
    BY <1>2, <1>10 DEF EventOperations
  <2>2. Total(BurnOperation(n, "success", e, c), a, x) = To(e.from, e.asset, -e.amount, a, x)
    BY <1>10, TotalOfMintOrBurn
  <2>3. Change(e, a, x) = To(e.from, e.asset, -e.amount, a, x) + To(e.to, e.asset, e.amount, a, x)
    BY <1>10 DEF Change
  <2>4. e.to = NoAccount
    BY <1>3, <1>10
  <2>5. Change(e, a, x) = To(e.from, e.asset, -e.amount, a, x)
    BY <1>4, <1>5, <2>3, <2>4
  <2> QED BY <1>10, <2>1, <2>2, <2>5
<1>11. CASE e.type = "stx_lock_event"
  <2>1. new = <<WithAmount(Operation(n, "stx_lock", "success", e.from), -e.amount, STX, "STX")>>
    BY <1>11 DEF EventOperations, makeStxLockOperation
  <2>2. "stx_lock" \in OperationTypes /\ -e.amount \in Int
    BY <1>1 DEF OperationTypes
  <2>3. Total(<<WithAmount(Operation(n, "stx_lock", "success", e.from), -e.amount, STX, "STX")>>,
              a, x) = 0
    BY <1>1, <1>2, <2>2, TotalOfValued
  <2> QED BY <1>11, <2>1, <2>3 DEF Change
<1>12. CASE e.type = "contract_event"
  <2>1. new = makeContractEventOperations(n, "success", e)
    BY <1>12 DEF EventOperations
  <2> QED BY <1>12, <2>1, TotalOfContractEvent DEF Change
<1> QED BY <1>1, <1>6, <1>7, <1>8, <1>9, <1>10, <1>11, <1>12 DEF EventTypes

-----------------------------------------------------------------------------
(* The operations so far tell what the node has done so far -- and, of a   *)
(* token transfer that succeeded, what its event is about to do: its       *)
(* payload tells it first, and the event nothing more.                     *)

Due(a, x) ==
    IF stage # "done" /\ tx.type = "token_transfer" /\ tx.result = "ok" /\ seen = <<>>
    THEN moved[a][x] + Change(PayloadEvent(tx), a, x)
    ELSE moved[a][x]
Balanced ==
    source = "replay" /\ ErrsWhenAborted(tx) /\ stage \in {"abi", "events", "done"} =>
        \A a \in Accounts, x \in Assets : Total(ops, a, x) = Due(a, x)

\* A transaction of a block succeeds if its result is ok.
LEMMA SuccessIs ==
    ASSUME NEW t \in Transactions
    PROVE  Status(t, "replay") = "success" <=> t.result = "ok"
BY DEF Status, serializeTxStatus, Transactions, TxRecords

\* The fee and the payload.
LEMMA BeginBalanced ==
    ASSUME NEW src \in {"replay", "parse"}, NEW t \in Transactions, Begin(src, t)
    PROVE  Balanced'
<1> DEFINE status == Status(t, src)
           fee == FeeOperations(t, status)
           payload == PayloadOperations(t, Len(fee), status)
<1>0. ASSUME status = "throws" PROVE Balanced'
  BY <1>0 DEF Begin, Balanced
<1>1. CASE src = "replay" /\ status # "throws"
  <2> SUFFICES ASSUME NEW a \in Accounts, NEW x \in Assets
               PROVE  Total(ops', a, x) = Due(a, x)'
    BY DEF Balanced
  <2>1. status \in Statuses /\ (status = "success" <=> t.result = "ok")
    BY <1>1, TransactionFacts, SuccessIs
  <2>15. ops' = fee \o payload
    BY <1>1 DEF Begin
  <2> HIDE DEF status
  <2>2. Chunk(fee, 0)
    BY <2>1, FeeChunk
  <2>3. fee \in Seq(OperationRecords) /\ Len(fee) \in Nat
    BY <2>2 DEF Chunk
  <2>4. Chunk(payload, Len(fee))
    BY <2>1, <2>3, PayloadChunk
  <2>5. payload \in Seq(OperationRecords)
    BY <2>4 DEF Chunk
  <2>6. Total(fee, a, x) = To(Payer(t), STX, -t.fee, a, x)
    BY <2>1, TotalOfFee
  <2>7. Total(payload, a, x) = IF t.type = "token_transfer" /\ status = "success"
                               THEN Change(PayloadEvent(t), a, x) ELSE 0
    BY <2>1, <2>3, TotalOfPayload
  <2>8. ops' = fee \o payload
    BY <2>15 DEF status
  <2> HIDE DEF fee, payload
  <2>9. Total(fee \o payload, a, x) = Total(fee, a, x) + Total(payload, a, x)
    BY <2>3, <2>5, TotalOfBoth
  <2>10. Total(fee, a, x) \in Int /\ Total(payload, a, x) \in Int
    BY <2>3, <2>5, TotalOfBoth
  <2>11. moved'[a][x] = To(Payer(t), STX, -t.fee, a, x)
    <3>1. moved' = Gives(Nothing, Payer(t), STX, -t.fee)
      BY <1>1 DEF Begin
    <3>2. Payer(t) \in Holders /\ -t.fee \in Int /\ STX \in Assets
      BY TransactionFacts, AssetFacts DEF Holders
    <3>3. Gives(Nothing, Payer(t), STX, -t.fee)[a][x]
            = Nothing[a][x] + To(Payer(t), STX, -t.fee, a, x)
      BY <3>2, NothingTyped, GivesIs
    <3>4. Nothing[a][x] = 0 /\ To(Payer(t), STX, -t.fee, a, x) \in Int
      BY <3>2 DEF Nothing, To
    <3> QED BY <3>1, <3>3, <3>4
  <2>12. tx' = t /\ seen' = <<>> /\ stage' # "done"
    BY <1>1 DEF Begin
  <2>13. Total(ops', a, x) = IF t.type = "token_transfer" /\ t.result = "ok"
                             THEN moved'[a][x] + Change(PayloadEvent(t), a, x)
                             ELSE moved'[a][x]
    BY <2>1, <2>6, <2>7, <2>8, <2>9, <2>10, <2>11
  <2>14. Due(a, x)' = IF t.type = "token_transfer" /\ t.result = "ok"
                      THEN moved'[a][x] + Change(PayloadEvent(t), a, x)
                      ELSE moved'[a][x]
    BY <2>12 DEF Due, Change, PayloadEvent, To
  <2> QED BY <2>13, <2>14
<1>2. CASE src # "replay"
  BY <1>2 DEF Begin, Balanced
<1> QED BY <1>0, <1>1, <1>2

\* The operation of a contract call tells of no token.
LEMMA ContractCallBalanced ==
    ASSUME IInv, Balanced, NEW abi \in ABIs, makeContractCallOperation(abi)
    PROVE  Balanced'
<1> SUFFICES ASSUME source = "replay", abi # "unfit", ErrsWhenAborted(tx), NEW a \in Accounts, NEW x \in Assets
             PROVE  Total(ops', a, x) = Due(a, x)'
  BY DEF Balanced, ErrsWhenAborted, makeContractCallOperation
<1> DEFINE plain == Operation(Len(ops), "contract_call", Status(tx, source), tx.sender)
           op == [plain EXCEPT !.args = abi # "null"]
           s == <<op>>
<1>1. /\ tx \in Transactions /\ ops \in Seq(OperationRecords) /\ Len(ops) \in Nat
      /\ Status(tx, source) \in Statuses
      /\ tx.sender \in Holders /\ "contract_call" \in OperationTypes
  BY TransactionFacts DEF IInv, Chunk, makeContractCallOperation, Holders, OperationTypes
<1>2. plain \in OperationRecords /\ plain.asset = NoAsset
  BY <1>1 DEF Operation, OperationRecords, Currencies
<1>3. ops' = Append(ops, op)
  BY DEF makeContractCallOperation
<1> HIDE DEF plain
<1>4. op \in OperationRecords /\ op.asset = NoAsset
  BY <1>2 DEF OperationRecords
<1> HIDE DEF op
<1>5. Total(s, a, x) = 0
  <2>1. Total(s, a, x) = Share(op, a, x)
    BY <1>4, TotalOfOne
  <2>2. Share(op, a, x) = 0
    BY <1>4, AssetFacts DEF Share, Tells
  <2> QED BY <2>1, <2>2
<1>6. s \in Seq(OperationRecords) /\ ops' = ops \o s
  BY <1>1, <1>3, <1>4
<1> HIDE DEF s
<1>7. Total(ops \o s, a, x) = Total(ops, a, x) + Total(s, a, x) /\ Total(ops, a, x) \in Int
  BY <1>1, <1>6, TotalOfBoth
<1>8. Total(ops', a, x) = Total(ops, a, x)
  BY <1>5, <1>6, <1>7
<1>9. Total(ops, a, x) = Due(a, x)
  BY DEF Balanced, makeContractCallOperation
<1>10. Due(a, x)' = Due(a, x)
  BY DEF Due, makeContractCallOperation, Change, PayloadEvent, To
<1> QED BY <1>8, <1>9, <1>10

\* What an event tells is what it changes, or has been told by the payload.
LEMMA EventBalanced ==
    ASSUME IInv, Balanced, NEW e \in Events, SerializeEvent(e)
    PROVE  Balanced'
<1> SUFFICES ASSUME ErrsWhenAborted(tx), NEW a \in Accounts, NEW x \in Assets
             PROVE  Total(ops', a, x) = Due(a, x)'
  BY DEF Balanced, ErrsWhenAborted, SerializeEvent
<1>1. /\ tx \in Transactions /\ ops \in Seq(OperationRecords) /\ Len(ops) \in Nat
      /\ moved \in [Accounts -> [Assets -> Int]] /\ seen \in Seq(Events)
  BY DEF IInv, Chunk, SerializeEvent
<1>2. /\ stage = "events" /\ source = "replay" /\ tx.result = "ok"
      /\ tx.type = "token_transfer" => seen = <<>> /\ e = PayloadEvent(tx)
      /\ tx' = tx /\ stage' = stage /\ seen' = Append(seen, e) /\ moved' = Effect(moved, e)
  BY DEF SerializeEvent, MayEmit, Executed, ErrsWhenAborted
<1>3. Status(tx, source) = "success" /\ "success" \in Statuses
  BY <1>1, <1>2, SuccessIs DEF Statuses
<1>4. PICK new \in EventOperations(tx, Len(ops), "success", e) : ops' = ops \o new
  BY <1>3 DEF SerializeEvent
<1>5. new \in Seq(OperationRecords)
  <2>1. Chunk(new, Len(ops))
    BY <1>1, <1>3, <1>4, EventChunk
  <2> QED BY <2>1 DEF Chunk
<1>6. Total(new, a, x) = IF tx.type = "token_transfer" /\ e.type = "stx_transfer_event" THEN 0
                         ELSE Change(e, a, x)
  BY <1>1, <1>4, TotalOfEvent
<1>7. /\ Total(ops, a, x) \in Int /\ Total(new, a, x) \in Int
      /\ Total(ops \o new, a, x) = Total(ops, a, x) + Total(new, a, x)
  BY <1>1, <1>5, TotalOfBoth
<1>8. moved'[a][x] = moved[a][x] + Change(e, a, x)
  BY <1>1, <1>2, EffectIs
<1>9. Total(ops, a, x) = IF tx.type = "token_transfer" /\ seen = <<>>
                         THEN moved[a][x] + Change(PayloadEvent(tx), a, x) ELSE moved[a][x]
  BY <1>2 DEF Balanced, Due
<1>10. seen' # <<>>
  BY <1>1, <1>2
<1>11. Due(a, x)' = moved'[a][x]
  BY <1>10 DEF Due
<1>12. Total(ops', a, x) = Total(ops, a, x) + Total(new, a, x)
  BY <1>4, <1>7
<1>13. CASE tx.type = "token_transfer"
  <2>1. e.type = "stx_transfer_event"
    <3>1. e = PayloadEvent(tx)
      BY <1>2, <1>13
    <3>2. PayloadEvent(tx).type = "stx_transfer_event"
      BY DEF PayloadEvent
    <3> QED BY <3>1, <3>2
  <2>2. Total(ops, a, x) = moved'[a][x]
    BY <1>2, <1>8, <1>9, <1>13
  <2>3. Total(new, a, x) = 0
    BY <1>6, <1>13, <2>1
  <2> QED BY <1>7, <1>11, <1>12, <2>2, <2>3
<1>14. CASE tx.type # "token_transfer"
  <2>1. Total(ops, a, x) = moved[a][x] /\ Total(new, a, x) = Change(e, a, x)
    BY <1>6, <1>9, <1>14
  <2> QED BY <1>8, <1>11, <1>12, <2>1
<1> QED BY <1>13, <1>14

\* A token transfer that succeeded ends with its event.
LEMMA FinishBalanced ==
    ASSUME Balanced, Finish
    PROVE  Balanced'
<1> SUFFICES ASSUME source = "replay", ErrsWhenAborted(tx), NEW a \in Accounts, NEW x \in Assets
             PROVE  Total(ops', a, x) = Due(a, x)'
  BY DEF Balanced, Finish, ErrsWhenAborted
<1>1. ~(tx.type = "token_transfer" /\ tx.result = "ok" /\ seen = <<>>)
  BY DEF Finish, MayEnd
<1>2. Total(ops, a, x) = Due(a, x) /\ ops' = ops
  BY DEF Balanced, Finish
<1>3. Due(a, x) = moved[a][x] /\ Due(a, x)' = moved'[a][x] /\ moved' = moved
  BY <1>1 DEF Due, Finish
<1> QED BY <1>2, <1>3

\* Every step keeps the balance.
LEMMA StaysBalanced == IInv /\ Balanced /\ [Next]_vars => Balanced'
<1> SUFFICES ASSUME IInv, Balanced, [Next]_vars PROVE Balanced'
  OBVIOUS
<1>1. CASE \E src \in {"replay", "parse"}, t \in Transactions : Begin(src, t)
  BY <1>1, BeginBalanced
<1>2. CASE \E abi \in ABIs : makeContractCallOperation(abi)
  BY <1>2, ContractCallBalanced
<1>3. CASE \E e \in Events : SerializeEvent(e)
  BY <1>3, EventBalanced
<1>4. CASE Finish
  BY <1>4, FinishBalanced
<1>5. CASE Answer
  BY <1>5 DEF Answer, Balanced
<1>6. CASE UNCHANGED vars
  <2> SUFFICES ASSUME source = "replay", ErrsWhenAborted(tx), stage \in {"abi", "events", "done"},
                      NEW a \in Accounts, NEW x \in Assets
               PROVE  Total(ops', a, x) = Due(a, x)'
    BY <1>6 DEF Balanced, vars, ErrsWhenAborted
  <2>1. Total(ops, a, x) = Due(a, x) /\ ops' = ops
    BY <1>6 DEF Balanced, vars
  <2>2. Due(a, x)' = Due(a, x)
    BY <1>6 DEF Due, Change, PayloadEvent, To, vars
  <2> QED BY <2>1, <2>2
<1> QED BY <1>1, <1>2, <1>3, <1>4, <1>5, <1>6 DEF Next

\* What the operations of a transaction tell of the tokens of an account is what the
\* node did to them, however many events the transaction had, if the node answers an
\* error for a transaction that a post-condition aborts.
THEOREM BalancesAreTold == Spec => []OperationsTellBalances
<1>1. Init => Balanced
  BY DEF Init, Balanced
<1>2. Balanced => OperationsTellBalances
  BY DEF Balanced, Due, OperationsTellBalances
<1> QED BY <1>1, <1>2, StaysBalanced, Invariance, PTL DEF Spec
=============================================================================
