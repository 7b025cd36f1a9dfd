---------------------------- MODULE MCOperations ----------------------------
(* Two accounts, one token of each kind, and PoX events of both kinds      *)
(* beside those that become no operation.                                  *)
EXTENDS Operations, SequencesExt

CONSTANTS al, bo, ft1, nft1

MCPoxEvents == {"delegate_stx", "handle_unlock", "unstake", "calculate_rewards"}

-----------------------------------------------------------------------------
(* What the announced statuses say, and the code does not do.              *)

\* The statuses that /network/options announces as successful.
\* constants.ts:15-21: {status: 'abort_by_response', successful: false},
\* {status: 'abort_by_post_condition', successful: false}.
OPERATION_STATUSES_successful == {"success"}

\* Somebody who keeps balances by the announced statuses counts the operations of a
\* transaction of a block that move tokens and have a successful one.
Counted(op, a, t) ==
    /\ op.account = a /\ op.asset = t /\ op.status \in OPERATION_STATUSES_successful
    /\ op.type \in {"fee", "token_transfer", "token_mint", "token_burn"}
StatusesTellBalances ==
    stage = "done" /\ source = "replay" =>
        \A a \in Accounts, t \in Assets :
            LET counted == SelectSeq(ops, LAMBDA op : Counted(op, a, t))
            IN  FoldLeft(LAMBDA sum, op : sum + op.value, 0, counted) = moved[a][t]
=============================================================================
