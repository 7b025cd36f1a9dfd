--------------------------- MODULE MCConstruction ---------------------------
(* Two accounts, and requests of every kind: transfers with the legs in    *)
(* either order and the memo in each place, contract transactions, fee     *)
(* wishes, and requests that make no sense.                                *)
EXTENDS Construction

CONSTANTS al, bo, call, code, u1

MCMemos == {"", "hello", "35 bytes"}
MCTxSize == [t \in TxTypes |-> IF t = "token_transfer" THEN 180 ELSE 300]

Asking(ops, memo, maxFee, multiplier) ==
    [ops |-> ops, memo |-> memo, maxFee |-> maxFee, multiplier |-> multiplier]
PairOf(v, w, memo) == <<Transfer(al, v, memo), Transfer(bo, w, memo)>>
ContractCall == <<Op("contract_call", al, 0, NoMemo, [code |-> call, args |-> <<u1>>])>>
ContractDeploy == <<Op("contract_deploy", bo, 0, NoMemo, [code |-> code, args |-> <<>>])>>
\* No ABI, one without the function, and functions of no, one and two parameters.
MCParameters == {NoAbi, NoFunction, 0, 1, 2}

MCAsks ==
    {Asking(PairOf(-5, 5, memo), NoMemo, NoFee, NoFee) : memo \in MCMemos \cup {NoMemo}}
    \cup {Asking(PairOf(5, -5, memo), "hello", NoFee, NoFee) : memo \in {"", NoMemo}}
    \cup {Asking(<<Fee(al, -1)>> \o PairOf(-5, 5, NoMemo), NoMemo, maxFee, multiplier) :
              maxFee \in {NoFee, 150}, multiplier \in {NoFee, 0, 15}}
    \cup {Asking(ops, NoMemo, NoFee, NoFee) : ops \in {ContractCall, ContractDeploy}}
    \* No sense: two credits, unequal amounts, nothing, two memos, too many legs.
    \cup {Asking(ops, NoMemo, NoFee, NoFee) :
              ops \in {PairOf(5, 5, NoMemo), PairOf(-5, 4, NoMemo), PairOf(0, 0, NoMemo), <<>>,
                       <<Transfer(al, -5, "hello"), Transfer(bo, 5, NoMemo)>>,
                       ContractCall \o ContractDeploy,
                       PairOf(-5, 5, NoMemo) \o ContractCall,
                       <<Transfer(al, -5, NoMemo)>>}}

-----------------------------------------------------------------------------
(* What the documentation says, and the code does not do.                  *)

\* The request to payloads of a wallet that does as the README says: its own
\* operations and a fee operation for the suggested fee, the metadata as received.
ByTheBook(s) ==
    /\ request[s] # None
    /\ Legs(request[s].ops) = Legs(ask[s].ops)
    /\ request[s].memo = NoMemo
    /\ request[s].key = meta[s].options.opts.sender
    /\ meta[s].suggested_fee > 0
    /\ FeeOperations(request[s]) =
         <<Fee(meta[s].options.opts.sender, -meta[s].suggested_fee)>>

\* A wallet that does everything by the book is not told that its transaction is
\* invalid.  README.md:266: "...metadata from previous step...".
EchoedMetadataIsAccepted ==
    \A s \in Sessions :
        stage[s] = "refused" /\ ByTheBook(s) => reply[s] # "invalidTransaction"

\* Contract transactions get valid signatures, too.  README.md:342-343: "The rest of
\* the flow (metadata, payloads, sign, combine, submit) is identical to the token
\* transfer example."
SignatureCoversEveryTransaction ==
    \A s \in Sessions : stage[s] = "signed" => Verifies(tx[s])
=============================================================================
