----------------------------- MODULE Operations -----------------------------
(***************************************************************************)
(* How a transaction becomes the operations of the Mesh API: for /block    *)
(* and /block/transaction from the replay of the transaction, with the     *)
(* events that the node recorded; for /construction/parse from its payload *)
(* alone.  One action is one run of the serializer from an await to the    *)
(* next, or one event; operations are only ever appended.                  *)
(*                                                                         *)
(* The node is external: moved is its ledger, the change that each event   *)
(* made to the tokens of an account.  It holds what transactions move; a   *)
(* miner's rewards, which no transaction tells of, are not in it.          *)
(***************************************************************************)
EXTENDS Integers, Sequences

CONSTANTS
    Accounts,
    FungibleTokens, NonFungibleTokens,
    Amounts,     \* amounts of tokens
    Fees,        \* fees that transactions declare
    PoxEvents,   \* synthetic events the PoX contracts print, named as operations
    MaxEvents,   \* bound on the events of a transaction
    NoAccount, NoAsset, NoTx

STX == "STX"
Assets == {STX} \cup FungibleTokens \cup NonFungibleTokens
ASSUME AmountAssumption ==
    /\ Amounts \subseteq Nat \ {0} /\ Fees \subseteq Nat /\ MaxEvents \in Nat
    /\ NoAccount \notin Accounts /\ NoAsset \notin Assets
    /\ STX \notin FungibleTokens \cup NonFungibleTokens

VARIABLES
    source,  \* "replay" or "parse"
    stage,   \* "idle", "abi" (awaits the contract's ABI), "events", "done", "failed"
    tx,      \* the transaction
    seen,    \* the events serialized so far
    ops,     \* the operations so far
    moved    \* history: moved[a][t], what the node has moved of token t to account a

vars == <<source, stage, tx, seen, ops, moved>>

-----------------------------------------------------------------------------
(* Transactions and events, as the node executes them (external).          *)

PayloadTypes == {"token_transfer", "contract_call", "contract_deploy", "coinbase",
                 "tenure_change", "poison_microblock"}
TxRecords ==
    [type : PayloadTypes, sender : Accounts, sponsor : Accounts \cup {NoAccount},
     fee : Fees, recipient : Accounts \cup {NoAccount}, amount : Amounts \cup {0},
     result : {"ok", "err", "other"}, post_condition_aborted : BOOLEAN]
\* Miners pay no fees and are not sponsored, nobody sends to himself, and
\* post-conditions are those of contracts.
Transactions ==
    {t \in TxRecords :
        /\ t.type \in {"coinbase", "tenure_change"} => t.fee = 0 /\ t.sponsor = NoAccount
        /\ (t.type = "token_transfer") <=> (t.recipient # NoAccount)
        /\ (t.type = "token_transfer") <=> (t.amount # 0)
        /\ t.recipient # t.sender /\ t.sponsor # t.sender
        /\ t.post_condition_aborted => t.type \in {"contract_call", "contract_deploy"}}

EventTypes ==
    {"stx_transfer_event", "stx_burn_event", "stx_lock_event",
     "ft_transfer_event", "ft_mint_event", "ft_burn_event",
     "nft_transfer_event", "nft_mint_event", "nft_burn_event", "contract_event"}
AssetsOf(type) ==
    CASE type \in {"stx_transfer_event", "stx_burn_event", "stx_lock_event"} -> {STX}
      [] type \in {"ft_transfer_event", "ft_mint_event", "ft_burn_event"} -> FungibleTokens
      [] type \in {"nft_transfer_event", "nft_mint_event", "nft_burn_event"} -> NonFungibleTokens
      [] OTHER -> {NoAsset}
\* what: what a contract printed, which in a PoX contract may be a synthetic event.
EventRecords ==
    [type : EventTypes, asset : Assets \cup {NoAsset},
     from : Accounts \cup {NoAccount}, to : Accounts \cup {NoAccount},
     amount : Amounts \cup {1}, what : PoxEvents \cup {"undecodable", "not PoX", ""}]
Events ==
    {e \in EventRecords :
        /\ e.asset \in AssetsOf(e.type)
        /\ e.amount \in IF e.asset \in NonFungibleTokens THEN {1} ELSE Amounts
        /\ e.from # e.to
        /\ (e.from = NoAccount) <=> e.type \in {"ft_mint_event", "nft_mint_event"}
        /\ (e.to # NoAccount) <=>
             e.type \in {"stx_transfer_event", "ft_transfer_event", "nft_transfer_event",
                         "ft_mint_event", "nft_mint_event"}
        /\ (e.what # "") <=> e.type = "contract_event"}
PayloadEvent(t) ==
    [type |-> "stx_transfer_event", asset |-> STX, from |-> t.sender, to |-> t.recipient,
     amount |-> t.amount, what |-> ""]

\* Failed transactions have no events, a token transfer has that of its payload, and
\* those of a miner (an automatic unlock, say) move no tokens.
MayEmit(t, e) ==
    /\ t.result = "ok"
    /\ t.type = "token_transfer" => seen = <<>> /\ e = PayloadEvent(t)
    /\ t.type \in {"coinbase", "tenure_change", "poison_microblock"} =>
         e.type = "contract_event"
MayEnd(t) == t.type = "token_transfer" /\ t.result = "ok" => seen # <<>>

Payer(t) == IF t.sponsor = NoAccount THEN t.sender ELSE t.sponsor
Nothing == [a \in Accounts |-> [t \in Assets |-> 0]]
Gives(m, a, asset, n) == IF a = NoAccount THEN m ELSE [m EXCEPT ![a][asset] = @ + n]
Effect(m, e) ==
    IF e.type \in {"contract_event", "stx_lock_event"} THEN m
    ELSE Gives(Gives(m, e.from, e.asset, -e.amount), e.to, e.asset, e.amount)
\* The events of a transaction that a post-condition aborts move nothing.
Executed(t, m, e) == IF t.post_condition_aborted THEN m ELSE Effect(m, e)

-----------------------------------------------------------------------------
(* Operations.                                                             *)

Operation(index, type, status, account) ==
    [index |-> index, related |-> {}, type |-> type, status |-> status,
     account |-> account, value |-> 0, asset |-> NoAsset, currency |-> "none",
     args |-> FALSE]
WithAmount(op, value, asset, currency) ==
    [op EXCEPT !.value = value, !.asset = asset, !.currency = currency]

\* The sponsor pays the fee of a sponsored transaction.
makeFeeOperation(t, status) ==
    WithAmount(Operation(0, "fee", status, Payer(t)), -t.fee, STX, "STX")

\* The debit and, related to it, the credit of a transfer.
TransferOperations(index, status, from, to, amount, asset, currency) ==
    LET send == WithAmount(Operation(index, "token_transfer", status, from),
                           -amount, asset, currency)
        receive == WithAmount(Operation(index + 1, "token_transfer", status, to),
                              amount, asset, currency)
    IN  <<send, [receive EXCEPT !.related = {index}]>>
makeStxTransferOperations(index, status, from, to, amount) ==
    TransferOperations(index, status, from, to, amount, STX, "STX")
makeNftTransferOperations(index, status, e) ==
    TransferOperations(index, status, e.from, e.to, 1, e.asset, "nft")

\* tokenMetadataCache.get: the token's metadata, or its fallback -- what the cache
\* holds of it may change between two lookups.
FtCurrencies == {"ft", "ft fallback"}

\* Mutant: the two sides of a transfer look the currency up one after the other.
FtSidesLookUpApart(index, status, e) ==
    {<<TransferOperations(index, status, e.from, e.to, e.amount, e.asset, c)[1],
       TransferOperations(index, status, e.from, e.to, e.amount, e.asset, d)[2]>> :
        c, d \in FtCurrencies}
makeFtTransferOperations(index, status, e) ==
    {TransferOperations(index, status, e.from, e.to, e.amount, e.asset, c) : c \in FtCurrencies}

\* A mint credits, a burn debits one account.
MintOperation(index, status, e, currency) ==
    <<WithAmount(Operation(index, "token_mint", status, e.to), e.amount, e.asset, currency)>>
BurnOperation(index, status, e, currency) ==
    <<WithAmount(Operation(index, "token_burn", status, e.from), -e.amount, e.asset, currency)>>

makeStxLockOperation(index, status, e) ==
    <<WithAmount(Operation(index, "stx_lock", status, e.from), -e.amount, STX, "STX")>>

\* The PoX events that become an operation: those with an amount, and those without.
AmountPoxEvents ==
    {"delegate_stx", "delegate_stack_stx", "delegate_stack_increase", "stack_stx",
     "stack_increase", "stack_aggregation_increase", "stack_aggregation_commit",
     "stack_aggregation_commit_indexed",
     "stake", "stake_update", "unstake", "register_for_bond"}
PlainPoxEvents == {"revoke_delegate_stx", "delegate_stack_extend", "stack_extend", "handle_unlock"}
makeSyntheticPoxOperation(index, status, e) ==
    LET op == Operation(index + 1, e.what, status, e.from)
    IN  CASE e.what \in AmountPoxEvents -> <<WithAmount(op, e.amount, STX, "STX")>>
          [] e.what \in PlainPoxEvents -> <<op>>
          [] OTHER -> <<>>

\* Mutant: the PoX operation is given the index of the log operation.
PoxSharesIndex(index, status, e) ==
    <<Operation(index, "contract_log", status, NoAccount)>>
    \o makeSyntheticPoxOperation(index - 1, status, e)
makeContractEventOperations(index, status, e) ==
    <<Operation(index, "contract_log", status, NoAccount)>>
    \o makeSyntheticPoxOperation(index, status, e)

-----------------------------------------------------------------------------
(* The serializer.                                                         *)

\* Of an ok result the post-conditions do not matter; it throws if the result is no
\* response.
serializeTxStatus(t) ==
    CASE t.result = "err" -> IF t.post_condition_aborted THEN "abort_by_post_condition"
                             ELSE "abort_by_response"
      [] t.result = "ok" -> "success"
      [] OTHER -> "throws"
Status(t, src) == IF src = "parse" THEN "pending" ELSE serializeTxStatus(t)

\* Mutant: a fee operation of a transaction without a fee.
FeeAlways(t, status) == <<makeFeeOperation(t, status)>>
FeeOperations(t, status) == IF t.fee > 0 THEN <<makeFeeOperation(t, status)>> ELSE <<>>

\* The operations of a payload whose serialization awaits nothing.
PayloadOperations(t, index, status) ==
    CASE t.type = "token_transfer" ->
            makeStxTransferOperations(index, status, t.sender, t.recipient, t.amount)
      [] t.type = "tenure_change" -> <<Operation(index, "tenure_change", status, NoAccount)>>
      [] t.type \in {"contract_deploy", "coinbase"} ->
            <<Operation(index, t.type, status, t.sender)>>
      [] OTHER -> <<>>

Begin(src, t) ==
    /\ stage = "idle"
    /\ source' = src /\ tx' = t /\ seen' = <<>>
    /\ LET status == Status(t, src)
           fee == FeeOperations(t, status)
       IN  IF status = "throws" THEN stage' = "failed" /\ ops' = <<>>
           ELSE /\ ops' = fee \o PayloadOperations(t, Len(fee), status)
                /\ stage' = IF t.type = "contract_call" THEN "abi" ELSE "events"
    /\ moved' = IF src = "replay" THEN Gives(Nothing, Payer(t), STX, -t.fee) ELSE Nothing

\* contractAbiCache.get has answered: null (offline, or a failed fetch), or an ABI that
\* holds the function with enough parameters, or one that does not.
ABIs == {"null", "fits", "unfit"}
makeContractCallOperation(abi) ==
    /\ stage = "abi"
    /\ IF abi = "unfit" THEN stage' = "failed" /\ UNCHANGED ops
       ELSE /\ stage' = "events"
            /\ ops' = Append(ops, [Operation(Len(ops), "contract_call",
                                             Status(tx, source), tx.sender)
                                     EXCEPT !.args = abi # "null"])
    /\ UNCHANGED <<source, tx, seen, moved>>

\* Mutant: a token transfer is told twice, by its payload and by its event.
TransferToldTwice(t, index, status, e) ==
    makeStxTransferOperations(index, status, e.from, e.to, e.amount)
StxTransferEventOperations(t, index, status, e) ==
    IF t.type = "token_transfer" THEN <<>>
    ELSE makeStxTransferOperations(index, status, e.from, e.to, e.amount)
\* The operations an event may become.
EventOperations(t, index, status, e) ==
    CASE e.type = "stx_transfer_event" -> {StxTransferEventOperations(t, index, status, e)}
      [] e.type = "stx_burn_event" -> {BurnOperation(index, status, e, "STX")}
      [] e.type = "stx_lock_event" -> {makeStxLockOperation(index, status, e)}
      [] e.type = "ft_mint_event" -> {MintOperation(index, status, e, c) : c \in FtCurrencies}
      [] e.type = "ft_transfer_event" -> makeFtTransferOperations(index, status, e)
      [] e.type = "ft_burn_event" -> {BurnOperation(index, status, e, c) : c \in FtCurrencies}
      [] e.type = "nft_transfer_event" -> {makeNftTransferOperations(index, status, e)}
      [] e.type = "nft_mint_event" -> {MintOperation(index, status, e, "nft")}
      [] e.type = "nft_burn_event" -> {BurnOperation(index, status, e, "nft")}
      [] e.type = "contract_event" -> {makeContractEventOperations(index, status, e)}

SerializeEvent(e) ==
    /\ stage = "events" /\ source = "replay" /\ Len(seen) < MaxEvents
    /\ MayEmit(tx, e)
    /\ seen' = Append(seen, e)
    /\ \E new \in EventOperations(tx, Len(ops), Status(tx, source), e) : ops' = ops \o new
    /\ moved' = Executed(tx, moved, e)
    /\ UNCHANGED <<source, stage, tx>>

Finish ==
    /\ stage = "events" /\ (source = "replay" => MayEnd(tx))
    /\ stage' = "done"
    /\ UNCHANGED <<source, tx, seen, ops, moved>>

\* The operations are answered, or the error is: a block fails as a whole.
Answer ==
    /\ stage \in {"done", "failed"}
    /\ stage' = "idle" /\ source' = "parse" /\ tx' = NoTx /\ seen' = <<>> /\ ops' = <<>>
    /\ moved' = Nothing

Init ==
    /\ source = "parse" /\ stage = "idle" /\ tx = NoTx /\ seen = <<>> /\ ops = <<>>
    /\ moved = Nothing

Next ==
    \/ \E src \in {"replay", "parse"}, t \in Transactions : Begin(src, t)
    \/ \E abi \in ABIs : makeContractCallOperation(abi)
    \/ \E e \in Events : SerializeEvent(e)
    \/ Finish \/ Answer

Spec == Init /\ [][Next]_vars

-----------------------------------------------------------------------------
(* Properties.                                                             *)

Statuses == {"pending", "success", "abort_by_response", "abort_by_post_condition"}

TypeOK ==
    /\ source \in {"replay", "parse"}
    /\ stage \in {"idle", "abi", "events", "done", "failed"}
    /\ stage = "idle" \/ tx \in Transactions
    /\ seen \in Seq(Events)
    /\ \A i \in DOMAIN ops :
          /\ ops[i].index \in Nat /\ ops[i].status \in Statuses
          /\ ops[i].account \in Accounts \cup {NoAccount}
          /\ ops[i].value # 0 <=> ops[i].asset \in Assets
    /\ moved \in [Accounts -> [Assets -> Int]]

\* operation_identifier.index counts the operations of a transaction from 0 without
\* gaps, whichever events it has and however many operations each of them becomes.
IndexesCount == \A i \in DOMAIN ops : ops[i].index = i - 1

\* The sides of every transfer belong together: an operation related to another is the
\* credit of an earlier debit -- same token, same currency, same status, opposite
\* amount -- and every debit of a transfer has exactly one such credit.
SidesBelongTogether ==
    /\ \A i \in DOMAIN ops : \A k \in ops[i].related :
          \E j \in 1..(i - 1) :
             /\ ops[j].index = k
             /\ ops[i] = [ops[j] EXCEPT !.index = ops[i].index, !.related = {k},
                                        !.account = ops[i].account, !.value = -@]
             /\ ops[j].value < 0
    /\ \A j \in DOMAIN ops : ops[j].type = "token_transfer" /\ ops[j].value < 0 =>
          \E i \in DOMAIN ops :
             \A x \in DOMAIN ops : ops[j].index \in ops[x].related <=> x = i

\* What a transaction of a block did to the tokens of an account is what its operations
\* tell: those that move tokens and succeeded, and the fee in any case, add up to what
\* the node did.  That takes a node that answers an error for a transaction that a
\* post-condition aborted, as today's nodes do: with an ok result it would be told as a
\* success.  (Stacking operations speak of tokens that are locked, not moved.)
Tells(op, a, t) ==
    /\ op.account = a /\ op.asset = t
    /\ op.type = "fee" \/ op.status = "success"
    /\ op.type \in {"fee", "token_transfer", "token_mint", "token_burn"}
Share(op, a, t) == IF Tells(op, a, t) THEN op.value ELSE 0
Total(list, a, t) ==
    LET total[n \in 0..Len(list)] ==
            IF n = 0 THEN 0 ELSE total[n - 1] + Share(list[n], a, t)
    IN  total[Len(list)]
ErrsWhenAborted(t) == t.post_condition_aborted => t.result = "err"
OperationsTellBalances ==
    stage = "done" /\ source = "replay" /\ ErrsWhenAborted(tx) =>
        \A a \in Accounts, t \in Assets : Total(ops, a, t) = moved[a][t]
=============================================================================
