---------------------------- MODULE Construction ----------------------------
(***************************************************************************)
(* The Construction API and the wallets that walk through it:              *)
(*                                                                         *)
(*   preprocess -> metadata -> payloads -> (sign) -> combine -> submit     *)
(*                                                                         *)
(* The API keeps nothing between two calls: the wallet carries what one    *)
(* answers over to the next, while the sender's account moves on.  Each    *)
(* action is one call with the whole handler that serves it.  What a       *)
(* wallet sends is its own choice wherever the API leaves it one: the      *)
(* operations, where the memo travels, the fee operations, the key.        *)
(*                                                                         *)
(* External: @stacks/transactions, which builds and signs the wire         *)
(* transactions, and the node.                                             *)
(***************************************************************************)
EXTENDS Integers, SequencesExt, Filters

CONSTANTS
    Accounts,     \* each with one key
    Memos,        \* memo strings
    EmptyMemo,    \* the memo ""
    LongMemos,    \* memos that do not fit the 34 bytes of a transaction
    NoMemo,       \* undefined
    Codes,        \* a contract and its function, for calls; a name and source, for deploys
    Values,       \* the arguments of calls
    Parameters,   \* what an ABI may say of the function that is called (see Fits)
    Asks,         \* the preprocess requests wallets make
    Sessions,     \* wallets at work at the same time, one transaction each
    DefaultFee,   \* CONSTRUCTION_DEFAULT_FEE
    TxSize,       \* TxSize[t]: bytes of a transaction of options type t
    MaxNonce,     \* bound on account nonces
    NoFee, NoWhat, NoAccount, NoAbi, NoFunction, Invalid, None

TxTypes == {"token_transfer", "contract_call", "contract_deploy"}

ASSUME MemoAssumption ==
    EmptyMemo \in Memos /\ LongMemos \subseteq Memos \ {EmptyMemo} /\ NoMemo \notin Memos
ASSUME FeeAssumption ==
    /\ DefaultFee \in Nat /\ TxSize \in [TxTypes -> Nat \ {0}] /\ MaxNonce \in Nat
    /\ NoFee \notin Int
ASSUME AbiAssumption ==
    /\ Parameters \subseteq Nat \cup {NoAbi, NoFunction}
    /\ NoAbi \notin Nat /\ NoFunction \notin Nat \cup {NoAbi}

\* What contract calls and deploys are made of; a deploy has no arguments.
Whats == [code : Codes, args : Seq(Values)]

\* The operations that the request schemas let through.
TransferOperations ==
    [type : {"token_transfer"}, account : Accounts, value : Int, memo : Memos \cup {NoMemo},
     what : {NoWhat}]
ContractOperations ==
    [type : {"contract_call", "contract_deploy"}, account : Accounts, value : {0},
     memo : {NoMemo}, what : Whats]
FeeTypeOperations ==
    [type : {"fee"}, account : Accounts, value : Int, memo : {NoMemo}, what : {NoWhat}]
ConstructionOperations == TransferOperations \cup ContractOperations \cup FeeTypeOperations
PreprocessRequests ==
    [ops : Seq(ConstructionOperations), memo : Memos \cup {NoMemo},
     maxFee : Int \cup {NoFee}, multiplier : Int \cup {NoFee}]

ConstructionOptions ==
    [opts : [type : TxTypes, sender : Accounts, recipient : Accounts \cup {NoAccount},
             amount : Nat, memo : Memos \cup {NoMemo}, what : Whats \cup {NoWhat}],
     max_fee : Int \cup {NoFee}, suggested_fee_multiplier : Int \cup {NoFee}]

PayloadsRequests ==
    [ops : Seq(ConstructionOperations), key : Accounts, memo : Memos \cup {NoMemo}]
UnsignedTransactions ==
    [signer : Accounts, type : TxTypes, recipient : Accounts \cup {NoAccount}, amount : Nat,
     memo : Memos, what : Whats \cup {NoWhat}, fee : Nat, nonce : Nat, signature : {None}]
Signatures ==
    [by : Accounts, hash : [body : UnsignedTransactions, fee : Nat, nonce : Nat],
     layout : {"RSV", "VRS"}]

\* Wallets send what the schemas allow, and the signs for nothing are nothing else.
ASSUME RequestAssumption ==
    /\ Asks \subseteq PreprocessRequests
    /\ Invalid \notin ConstructionOptions
    /\ None \notin Asks \cup PayloadsRequests \cup Signatures

VARIABLES
    nonce,    \* the node: the next nonce of each account
    \* what each wallet holds of the answers it got, and of what it asked
    stage,    \* "idle", "preprocessed", "described", "unsigned", "signed",
              \* "submitted", "refused"
    ask,      \* its preprocess request: operations, memo, max_fee, multiplier
    options,  \* preprocess: the options
    meta,     \* metadata: {options, nonce} and the suggested fee
    request,  \* what it added for payloads: fee operations, key, memo
    tx,       \* payloads, combine: the unsigned, then the signed transaction
    payload,  \* payloads: what to sign, and who is to
    reply     \* the error code of its last call, or "ok"

wallet == <<stage, ask, options, meta, request, tx, payload, reply>>
vars == <<nonce, wallet>>

-----------------------------------------------------------------------------
(* Operations, and the options they mean.                                  *)

Op(type, account, value, memo, what) ==
    [type |-> type, account |-> account, value |-> value, memo |-> memo, what |-> what]
Fee(account, value) == Op("fee", account, value, NoMemo, NoWhat)
Transfer(account, value, memo) == Op("token_transfer", account, value, memo, NoWhat)

Abs(n) == IF n < 0 THEN -n ELSE n
FirstOf(memo, other) == IF memo # NoMemo THEN memo ELSE other

\* A debit and a credit of one amount under one memo, in either order.
IsTransferPair(op1, op2) ==
    /\ op1.type = "token_transfer" /\ op2.type = "token_transfer"
    /\ Abs(op1.value) = Abs(op2.value)
    /\ (op1.value < 0 /\ op2.value > 0) \/ (op1.value > 0 /\ op2.value < 0)
    /\ op1.memo = op2.memo

\* Mutant: the first operation is taken for the debit.
TransferInOrder(op1, op2, memo) ==
    [type |-> "token_transfer", sender |-> op1.account, recipient |-> op2.account,
     amount |-> Abs(op1.value), memo |-> FirstOf(op1.memo, memo), what |-> NoWhat]
TransferOptions(op1, op2, memo) ==
    [type |-> "token_transfer",
     sender    |-> IF op1.value < 0 THEN op1.account ELSE op2.account,
     recipient |-> IF op1.value < 0 THEN op2.account ELSE op1.account,
     amount |-> Abs(op1.value), memo |-> FirstOf(op1.memo, memo), what |-> NoWhat]

ContractOptions(op) ==
    [type |-> op.type, sender |-> op.account, recipient |-> NoAccount,
     amount |-> 0, memo |-> NoMemo, what |-> op.what]

Capped(opts, maxFee, multiplier) ==
    [opts |-> opts, max_fee |-> maxFee,
     suggested_fee_multiplier |-> IF multiplier = 0 THEN NoFee ELSE multiplier]

\* The operations that are not fees, and those that are.
Legs(ops) == OnlyIn(ops, {op \in ToSet(ops) : op.type # "fee"})
Fees(ops) == OnlyIn(ops, {op \in ToSet(ops) : op.type = "fee"})

buildConstructionOptionsFromOperations(ops, memo, maxFee, multiplier) ==
    LET legs == Legs(ops)
    IN  CASE Len(legs) = 1 /\ legs[1].type \in {"contract_call", "contract_deploy"} ->
                 Capped(ContractOptions(legs[1]), maxFee, multiplier)
          [] Len(legs) = 2 /\ IsTransferPair(legs[1], legs[2]) ->
                 Capped(TransferOptions(legs[1], legs[2], memo), maxFee, multiplier)
          [] OTHER -> Invalid

\* Two options are compared without their memos.  (Lists inside are compared as
\* bags; what a contract call is made of is one value here.)
withoutMemo(o) == [o EXCEPT !.opts.memo = NoMemo]
\* Mutant: the memos are compared, too.
SameOptionsAndMemo(o1, o2) == o1 = o2
SameOptions(o1, o2) == withoutMemo(o1) = withoutMemo(o2)

-----------------------------------------------------------------------------
(* The wire transaction (external), and what /construction/parse reads.    *)

Transaction(signer, o, memo, fee, n) ==
    [signer |-> signer, type |-> o.type, recipient |-> o.recipient, amount |-> o.amount,
     memo |-> FirstOf(memo, EmptyMemo), what |-> o.what, fee |-> fee, nonce |-> n,
     signature |-> None]

\* signBegin clears nonce and fee; sigHashPreSign adds those it is given.
SigHash(t, fee, n) ==
    [body |-> [t EXCEPT !.fee = 0, !.nonce = 0, !.signature = None], fee |-> fee, nonce |-> n]

\* The node's check of a signature.
Verifies(t) ==
    t.signature = [by |-> t.signer, hash |-> SigHash(t, t.fee, t.nonce), layout |-> "VRS"]

\* Mutant: the padding of the memo is left in place.
MemoWithPadding(memo) == memo
parseTransactionMemo(memo) == IF memo = EmptyMemo THEN NoMemo ELSE memo

\* The arguments of a call are returned with what the ABI of the contract says of
\* its function: how many parameters it has.  Without an ABI (always in offline mode)
\* none are; the handler throws if the ABI lacks the function or a parameter.
Fits(what, parameters) ==
    parameters = NoAbi \/ (parameters # NoFunction /\ Len(what.args) <= parameters)
Labelled(what, parameters) == IF parameters = NoAbi THEN [what EXCEPT !.args = <<>>] ELSE what

\* The operations that /construction/parse returns for a transaction, if it does.
serializeDecodedTransactionOperations(t, parameters) ==
    LET memo == parseTransactionMemo(t.memo)
        fee  == IF t.fee > 0 THEN <<Fee(t.signer, -t.fee)>> ELSE <<>>
    IN  CASE t.type = "token_transfer" ->
               fee \o <<Transfer(t.signer, -t.amount, memo), Transfer(t.recipient, t.amount, memo)>>
          [] t.type = "contract_call" ->
               IF Fits(t.what, parameters)
               THEN fee \o <<Op(t.type, t.signer, 0, NoMemo, Labelled(t.what, parameters))>>
               ELSE Invalid
          [] t.type = "contract_deploy" -> fee \o <<Op(t.type, t.signer, 0, NoMemo, t.what)>>

-----------------------------------------------------------------------------
(* The handlers.                                                           *)

Keep(s) == UNCHANGED <<nonce, ask, options, meta, request, tx, payload>>
Refuse(s, code) ==
    /\ stage' = [stage EXCEPT ![s] = "refused"]
    /\ reply' = [reply EXCEPT ![s] = code]

Preprocess(s, a) ==
    /\ stage[s] = "idle"
    /\ ask' = [ask EXCEPT ![s] = a]
    /\ LET o == buildConstructionOptionsFromOperations(a.ops, a.memo, a.maxFee, a.multiplier)
       IN  IF o = Invalid THEN Refuse(s, "invalidTransaction") /\ UNCHANGED options
           ELSE /\ stage' = [stage EXCEPT ![s] = "preprocessed"]
                /\ options' = [options EXCEPT ![s] = o]
                /\ reply' = [reply EXCEPT ![s] = "ok"]
    /\ UNCHANGED <<nonce, meta, request, tx, payload>>

\* The size of a dummy transaction at one micro-STX per byte.  A dummy contract call
\* or deploy has no nonce, which the library looks up: that may fail.
Estimates(type) == {TxSize[type]} \cup (IF type = "token_transfer" THEN {} ELSE {DefaultFee})

\* Times the multiplier (in tenths), rounded half up.
Multiplied(fee, multiplier) ==
    IF multiplier = NoFee THEN fee ELSE (fee * multiplier + 5) \div 10
Limited(fee, maxFee) == IF maxFee # NoFee /\ fee > maxFee THEN maxFee ELSE fee
\* Mutant: the cap is applied before the multiplier.
MultipliedAfterCap(fee, o) ==
    Multiplied(Limited(fee, o.max_fee), o.suggested_fee_multiplier)
SuggestedFee(fee, o) ==
    Limited(Multiplied(fee, o.suggested_fee_multiplier), o.max_fee)

\* Again at any time before the transaction is submitted, for a fresh nonce.
Metadata(s) ==
    /\ stage[s] \in {"preprocessed", "described", "unsigned", "signed"}
    /\ stage' = [stage EXCEPT ![s] = "described"]
    /\ \E estimate \in Estimates(options[s].opts.type) :
         meta' = [meta EXCEPT ![s] =
                    [options |-> options[s], nonce |-> nonce[options[s].opts.sender],
                     suggested_fee |-> SuggestedFee(estimate, options[s])]]
    /\ request' = [request EXCEPT ![s] = None]
    /\ tx' = [tx EXCEPT ![s] = None]
    /\ payload' = [payload EXCEPT ![s] = None]
    /\ reply' = [reply EXCEPT ![s] = "ok"]
    /\ UNCHANGED <<nonce, ask, options>>

\* The node does not answer GET /v2/accounts: nothing is lost.
MetadataFails(s) ==
    /\ stage[s] \in {"preprocessed", "described", "unsigned", "signed"}
    /\ reply' = [reply EXCEPT ![s] = "internalError"]
    /\ Keep(s) /\ UNCHANGED stage

\* The memo of a token transfer: that of its operations, or one of the metadata,
\* where the top level comes before the options.
MetadataMemo(m, r) == FirstOf(r.memo, m.options.opts.memo)
ResolvedMemo(m, r, o) ==
    IF o.opts.type # "token_transfer" THEN NoMemo
    ELSE FirstOf(o.opts.memo, MetadataMemo(m, r))

FeeOperations(r) == Fees(r.ops)

\* What is wrong with request r with metadata m, in the order of the handler's checks;
\* o are the options that its operations mean.
MemosConflict(m, r, o) ==
    /\ o.opts.memo # NoMemo /\ MetadataMemo(m, r) # NoMemo
    /\ o.opts.memo # MetadataMemo(m, r)
OptionsDiffer(m, r, o) ==
    ~SameOptions([o EXCEPT !.opts.memo = ResolvedMemo(m, r, o)], m.options)
FeeIsWrong(r, o) ==
    LET fees == FeeOperations(r)
    IN  fees = <<>> \/ fees[1].account # o.opts.sender \/ fees[1].value >= 0
PayloadsVerdict(m, r, o) ==
    IF o = Invalid \/ MemosConflict(m, r, o) \/ OptionsDiffer(m, r, o)
      THEN "invalidTransaction"
    ELSE IF r.key # o.opts.sender THEN "invalidPublicKey"
    ELSE IF FeeIsWrong(r, o) THEN "invalidTransaction"
    ELSE "ok"

\* Mutant: the nonce after the next.
NonceAfterNext(m, type) == {m.nonce + 1}
\* A token transfer is given the nonce of the metadata.  For the others the
\* library has to look one up; nothing ties it to the node of this API.
UnsignedNonces(m, type) ==
    IF type = "token_transfer" THEN {m.nonce} ELSE 0..MaxNonce

Payloads(s, r) ==
    /\ stage[s] = "described"
    /\ request' = [request EXCEPT ![s] = r]
    /\ LET o == buildConstructionOptionsFromOperations(r.ops, NoMemo, NoFee, NoFee)
           verdict == PayloadsVerdict(meta[s], r, o)
       IN  \/ verdict # "ok" /\ Refuse(s, verdict) /\ UNCHANGED <<tx, payload>>
           \/ /\ verdict = "ok"
              /\ LET memo == ResolvedMemo(meta[s], r, o)
                     fee  == Abs(FeeOperations(r)[1].value)
                 IN  \* the library throws
                     \/ /\ o.opts.type # "token_transfer" \/ memo \in LongMemos
                        /\ Refuse(s, "internalError")
                        /\ UNCHANGED <<tx, payload>>
                     \/ /\ o.opts.type = "token_transfer" => memo \notin LongMemos
                        /\ \E n \in UnsignedNonces(meta[s], o.opts.type) :
                             LET t == Transaction(r.key, o.opts, memo, fee, n)
                             IN  /\ tx' = [tx EXCEPT ![s] = t]
                                 /\ payload' = [payload EXCEPT ![s] =
                                      [address |-> o.opts.sender,
                                       hash |-> SigHash(t, fee, meta[s].nonce)]]
                        /\ stage' = [stage EXCEPT ![s] = "unsigned"]
                        /\ reply' = [reply EXCEPT ![s] = "ok"]
    /\ UNCHANGED <<nonce, ask, options, meta>>

\* Mutant: the signature keeps the order of its bytes.
SignatureAsItCame(sig) == sig
reorderSignatureToVrs(sig) == [sig EXCEPT !.layout = "VRS"]

\* The wallet signs the payload with the key of its address; combine takes one
\* signature of full length, whatever it signs.
Combine(s, count, full) ==
    /\ stage[s] = "unsigned"
    /\ IF count # 1 \/ ~full THEN Refuse(s, "invalidSignature") /\ UNCHANGED tx
       ELSE /\ stage' = [stage EXCEPT ![s] = "signed"]
            /\ tx' = [tx EXCEPT ![s].signature =
                        reorderSignatureToVrs([by |-> payload[s].address,
                                               hash |-> payload[s].hash, layout |-> "RSV"])]
            /\ reply' = [reply EXCEPT ![s] = "ok"]
    /\ UNCHANGED <<nonce, ask, options, meta, request, payload>>

\* The node takes the transaction, and its answer arrives.
Submit(s) ==
    /\ stage[s] = "signed"
    /\ Verifies(tx[s]) /\ tx[s].nonce >= nonce[tx[s].signer]
    /\ stage' = [stage EXCEPT ![s] = "submitted"]
    /\ reply' = [reply EXCEPT ![s] = "ok"]
    /\ Keep(s)

\* It refuses, or its answer is lost: all the same to the wallet, who may submit
\* again.
SubmitFails(s) ==
    /\ stage[s] = "signed"
    /\ reply' = [reply EXCEPT ![s] = "transactionBroadcastError"]
    /\ Keep(s) /\ UNCHANGED stage

-----------------------------------------------------------------------------
\* The wallet is done, or gives up.
Leave(s) ==
    /\ stage[s] # "idle"
    /\ stage' = [stage EXCEPT ![s] = "idle"]
    /\ ask' = [ask EXCEPT ![s] = None]
    /\ options' = [options EXCEPT ![s] = None]
    /\ meta' = [meta EXCEPT ![s] = None]
    /\ request' = [request EXCEPT ![s] = None]
    /\ tx' = [tx EXCEPT ![s] = None]
    /\ payload' = [payload EXCEPT ![s] = None]
    /\ reply' = [reply EXCEPT ![s] = "ok"]
    /\ UNCHANGED nonce

\* A transaction of the account is confirmed: one submitted here, or elsewhere.
Confirm(a) ==
    /\ nonce[a] < MaxNonce
    /\ nonce' = [nonce EXCEPT ![a] = @ + 1]
    /\ UNCHANGED wallet

\* What wallets send to payloads with metadata m: the operations of their preprocess
\* request or of any other, with the fee operations they choose, a key, and perhaps a
\* memo in the metadata.
FeeChoices(m) ==
    LET payer == m.options.opts.sender
        fee   == m.suggested_fee
    IN  {<<>>, <<Fee(payer, -fee)>>, <<Fee(payer, fee)>>}
        \cup {<<Fee(a, -1), Fee(payer, -fee)>> : a \in Accounts}
PayloadRequests(m) ==
    {[ops |-> fees \o Legs(a.ops), key |-> key, memo |-> memo] :
        fees \in FeeChoices(m), a \in Asks, key \in Accounts, memo \in Memos \cup {NoMemo}}

Step(s) ==
    \/ \E a \in Asks : Preprocess(s, a)
    \/ Metadata(s) \/ MetadataFails(s)
    \/ stage[s] = "described" /\ \E r \in PayloadRequests(meta[s]) : Payloads(s, r)
    \/ \E count \in {1, 2}, full \in BOOLEAN : Combine(s, count, full)
    \/ Submit(s) \/ SubmitFails(s)
    \/ Leave(s)

Init ==
    /\ nonce = [a \in Accounts |-> 0]
    /\ stage = [s \in Sessions |-> "idle"]
    /\ ask = [s \in Sessions |-> None]
    /\ options = [s \in Sessions |-> None]
    /\ meta = [s \in Sessions |-> None]
    /\ request = [s \in Sessions |-> None]
    /\ tx = [s \in Sessions |-> None]
    /\ payload = [s \in Sessions |-> None]
    /\ reply = [s \in Sessions |-> "ok"]

Next == (\E s \in Sessions : Step(s)) \/ (\E a \in Accounts : Confirm(a))

Spec == Init /\ [][Next]_vars

-----------------------------------------------------------------------------
(* Properties.                                                             *)

TypeOK ==
    /\ nonce \in [Accounts -> 0..MaxNonce]
    /\ stage \in [Sessions -> {"idle", "preprocessed", "described", "unsigned",
                               "signed", "submitted", "refused"}]
    /\ ask \in [Sessions -> Asks \cup {None}]
    /\ \A s \in Sessions :
          /\ stage[s] = "idle" <=> ask[s] = None
          /\ stage[s] \in {"unsigned", "signed", "submitted"} =>
               /\ tx[s].nonce \in 0..MaxNonce /\ tx[s].fee \in Nat \ {0}
               /\ (tx[s].signature = None) <=> (stage[s] = "unsigned")
          /\ stage[s] = "described" => meta[s].nonce \in 0..MaxNonce

HasTransaction(s) == stage[s] \in {"unsigned", "signed", "submitted"}

\* How a reader understands a request to preprocess, without the code's order of
\* checks: leg d pays leg c, or leg d alone is about a contract.
Pays(d, c) ==
    /\ d.type = "token_transfer" /\ c.type = "token_transfer"
    /\ d.value < 0 /\ d.value + c.value = 0 /\ d.memo = c.memo
IsContractLeg(d) == d.type \in {"contract_call", "contract_deploy"}
MakesSense(ops) ==
    LET legs == Legs(ops)
    IN  \/ Len(legs) = 2 /\ \E i \in 1..2 : Pays(legs[i], legs[3 - i])
        \/ Len(legs) = 1 /\ IsContractLeg(legs[1])

\* The memo that goes along with leg d, of request r for payloads: its own, or else the
\* one passed beside the operations, or else that of leg e, of request a for preprocess,
\* or else the one passed beside those.
Passed(a, r, e) == FirstOf(r.memo, FirstOf(e.memo, a.memo))
Meant(a, r, d, e) == FirstOf(d.memo, Passed(a, r, e))

\* Does transaction t do what operations ops ask for, the memo aside: debit the
\* account of the negative leg in favour of the positive one, or make the contract
\* call or deploy?
Executes(t, ops) ==
    \E d \in ToSet(ops) :
        /\ d.type = t.type /\ d.account = t.signer
        /\ IsContractLeg(d) => d.what = t.what
        /\ ~IsContractLeg(d) =>
             \E c \in ToSet(ops) : Pays(d, c) /\ c.account = t.recipient /\ c.value = t.amount

\* A transaction that the node has taken does what the wallet asked for, in both of
\* its calls, and nothing else; it carries the memo that the wallet means, is signed
\* by the account that it debits, and pays the fee of the first fee operation.
ExecutesWhatWasAsked ==
    \A s \in Sessions : stage[s] = "submitted" =>
        /\ tx[s].signature.by = tx[s].signer
        /\ FeeOperations(request[s])[1] = Fee(tx[s].signer, -tx[s].fee)
        /\ Executes(tx[s], ask[s].ops) /\ Executes(tx[s], request[s].ops)
        /\ tx[s].type = "token_transfer" =>
             \A d \in ToSet(Legs(request[s].ops)), e \in ToSet(Legs(ask[s].ops)) :
                tx[s].memo = FirstOf(Meant(ask[s], request[s], d, e), EmptyMemo)

\* The payload that a wallet signs is the one the node checks the signature of the
\* combined token transfer against.
SignatureCoversTransfer ==
    \A s \in Sessions :
        stage[s] = "signed" /\ tx[s].type = "token_transfer" => Verifies(tx[s])

\* Do the operations that parse returns for transaction t, if it does, tell those of
\* request r for payloads?  Only the memo may have come from request a, or from beside
\* the operations, and "" is no memo.
Retells(a, r, t, parameters) ==
    LET legs == ToSet(Legs(r.ops))
        shown(memo) == IF memo = EmptyMemo THEN NoMemo ELSE memo
        parsed == serializeDecodedTransactionOperations(t, parameters)
        retold(op, e) ==
          CASE ~IsContractLeg(op) -> [op EXCEPT !.memo = shown(Meant(a, r, op, e))]
            [] op.type = "contract_call" /\ parameters = NoAbi -> [op EXCEPT !.what.args = <<>>]
            [] OTHER -> op
        unfit(op) == /\ op.type = "contract_call" /\ parameters # NoAbi
                     /\ parameters = NoFunction \/ parameters < Len(op.what.args)
    IN  IF \E op \in legs : unfit(op) THEN parsed = Invalid
        ELSE ToSet(parsed) = {FeeOperations(r)[1]}
               \cup {retold(op, e) : op \in legs, e \in ToSet(Legs(a.ops))}

\* What /construction/parse tells of a transaction, signed or not, are the
\* operations that the wallet sent to payloads, the first fee operation among
\* them.  Of a contract call the arguments are missing without an ABI, and only there;
\* it is not told at all if and only if an ABI is known that the call does not fit.
ParseTellsTheRequest ==
    \A s \in Sessions, parameters \in Parameters :
        HasTransaction(s) => Retells(ask[s], request[s], tx[s], parameters)

\* Are the legs of two requests the same, but for their memos?
SameLegs(ops1, ops2) ==
    {[op EXCEPT !.memo = NoMemo] : op \in ToSet(Legs(ops1))} =
    {[op EXCEPT !.memo = NoMemo] : op \in ToSet(Legs(ops2))}

\* A wallet that asks for something sensible is refused only if it errs in a later
\* call: it asks for something else, sends the wrong key, no proper fee operation, one
\* memo on its operations and another beside them, or one too long.  (A wallet that
\* names a max_fee or a multiplier is a case of its own.)
RefusedOnlyForCause ==
    \A s \in Sessions :
        stage[s] = "refused" /\ reply[s] \in {"invalidTransaction", "invalidPublicKey"} =>
            \/ ~MakesSense(ask[s].ops)
            \/ ask[s].maxFee # NoFee \/ ask[s].multiplier # NoFee
            \/ /\ request[s] # None
               /\ LET fees == FeeOperations(request[s])
                      debtor(a) == \E op \in ToSet(Legs(ask[s].ops)) :
                                     op.account = a /\ (op.value < 0 \/ IsContractLeg(op))
                  IN  \/ ~MakesSense(request[s].ops) \/ ~SameLegs(ask[s].ops, request[s].ops)
                      \/ ~debtor(request[s].key)
                      \/ fees = <<>> \/ ~debtor(fees[1].account) \/ fees[1].value >= 0
                      \/ \E d \in ToSet(Legs(request[s].ops)), e \in ToSet(Legs(ask[s].ops)) :
                            d.memo # NoMemo /\ Passed(ask[s], request[s], e) \notin {NoMemo, d.memo}

\* What the wallet is told to pay never exceeds the max_fee it set.
SuggestedFeeWithinCap ==
    \A s \in Sessions :
        meta[s] # None /\ ask[s].maxFee # NoFee => meta[s].suggested_fee <= ask[s].maxFee
=============================================================================
