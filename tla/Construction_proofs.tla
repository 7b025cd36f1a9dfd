------------------------ MODULE Construction_proofs ------------------------
(***************************************************************************)
(* Proofs of the safety properties of Construction.  The wallet carries    *)
(* all the state, so the invariant says of each wallet that its options    *)
(* are those of its request to preprocess, its metadata those of the       *)
(* options, its request to payloads one it may make with that metadata,    *)
(* and its transaction the one that payloads and combine make of all that. *)
(* The properties follow from what the two requests mean: the same legs.   *)
(***************************************************************************)
EXTENDS Construction, SequenceLemmas

-----------------------------------------------------------------------------
(* Operations and the options they mean.                                   *)

\* The legs of a list of operations are operations of the list, none a fee.
LEMMA LegsType ==
    ASSUME NEW ops \in Seq(ConstructionOperations)
    PROVE  /\ Legs(ops) \in Seq(ConstructionOperations)
           /\ \A i \in 1..Len(Legs(ops)) :
                /\ Legs(ops)[i] \in TransferOperations \cup ContractOperations
                /\ Legs(ops)[i] \in ToSet(ops)
<1> DEFINE S == {op \in ToSet(ops) : op.type # "fee"}
<1>1. /\ OnlyIn(ops, S) \in Seq(ConstructionOperations)
      /\ \A i \in 1..Len(OnlyIn(ops, S)) : OnlyIn(ops, S)[i] \in S
  <2> HIDE DEF S
  <2> QED
    BY OnlyInType
<1>2. Legs(ops) = OnlyIn(ops, S)
  BY DEF Legs
<1>3. \A op \in S : op \in ToSet(ops) /\ op.type # "fee"
  OBVIOUS
<1>4. \A op \in ToSet(ops) : op \in ConstructionOperations
  BY DEF ToSet
<1>5. \A op \in S : op \in TransferOperations \cup ContractOperations
  BY <1>3, <1>4 DEF ConstructionOperations, FeeTypeOperations
<1> HIDE DEF S
<1> QED
  BY <1>1, <1>2, <1>3, <1>5

\* Fee operations before legs are told apart again.
LEMMA FeesBeforeLegs ==
    ASSUME NEW fees \in Seq(FeeTypeOperations), NEW ops \in Seq(ConstructionOperations)
    PROVE  /\ fees \o Legs(ops) \in Seq(ConstructionOperations)
           /\ Legs(fees \o Legs(ops)) = Legs(ops)
           /\ Fees(fees \o Legs(ops)) = fees
<1> DEFINE L == Legs(ops)
           both == fees \o L
           S == {op \in ToSet(both) : op.type # "fee"}
           T == {op \in ToSet(both) : op.type = "fee"}
<1>1. /\ L \in Seq(ConstructionOperations) /\ fees \in Seq(ConstructionOperations)
      /\ \A i \in 1..Len(L) : L[i].type # "fee"
      /\ \A i \in 1..Len(fees) : fees[i].type = "fee"
  <2>1. \A op \in TransferOperations \cup ContractOperations : op.type # "fee"
    BY DEF TransferOperations, ContractOperations
  <2>2. \A op \in FeeTypeOperations : op.type = "fee" /\ op \in ConstructionOperations
    BY DEF FeeTypeOperations, ConstructionOperations
  <2>3. \A i \in 1..Len(fees) : fees[i] \in FeeTypeOperations
    OBVIOUS
  <2>4. fees \in Seq(ConstructionOperations)
    BY <2>2, <2>3, IsASeq
  <2> QED
    BY <2>1, <2>2, <2>3, <2>4, LegsType
<1> HIDE DEF L
<1>2. both \in Seq(ConstructionOperations)
  BY <1>1
<1>3. \A i \in 1..Len(fees) : fees[i] \in ToSet(both)
  BY <1>1 DEF ToSet
<1>4. \A i \in 1..Len(L) : L[i] \in ToSet(both)
  <2> TAKE i \in 1..Len(L)
  <2>1. Len(fees) + i \in DOMAIN both /\ both[Len(fees) + i] = L[i]
    BY <1>1, ConcatProperties
  <2> QED
    BY <2>1 DEF ToSet
<1>5. /\ \A i \in 1..Len(fees) : fees[i] \in T /\ fees[i] \notin S
      /\ \A i \in 1..Len(L) : L[i] \in S /\ L[i] \notin T
  BY <1>1, <1>3, <1>4
<1>6. Legs(both) = OnlyIn(fees, S) \o OnlyIn(L, S) /\ Fees(both) = OnlyIn(fees, T) \o OnlyIn(L, T)
  <2>1. Legs(both) = OnlyIn(fees \o L, S) /\ Fees(both) = OnlyIn(fees \o L, T)
    BY DEF Legs, Fees
  <2> HIDE DEF S, T, both
  <2>2. \A U : OnlyIn(fees \o L, U) = OnlyIn(fees, U) \o OnlyIn(L, U)
    BY <1>1, OnlyInConcat
  <2> QED
    BY <2>1, <2>2
<1>7. /\ OnlyIn(fees, S) = <<>> /\ OnlyIn(L, S) = L
      /\ OnlyIn(fees, T) = fees /\ OnlyIn(L, T) = <<>>
  <2> HIDE DEF S, T, both
  <2>1. OnlyIn(fees, S) = <<>>
    BY <1>5, OnlyInNone
  <2>2. OnlyIn(L, S) = L
    BY <1>1, <1>5, OnlyInAll
  <2>3. OnlyIn(fees, T) = fees
    BY <1>5, OnlyInAll
  <2>4. OnlyIn(L, T) = <<>>
    BY <1>1, <1>5, OnlyInNone
  <2> QED
    BY <2>1, <2>2, <2>3, <2>4
<1> QED
  <2> HIDE DEF S, T
  <2>1. <<>> \o L = L /\ fees \o <<>> = fees
    BY <1>1, ConcatEmptySeq
  <2> QED
    BY <1>2, <1>6, <1>7, <2>1 DEF L

\* Two legs make a transfer in the code's sense when one pays the other.
LEMMA PairsPay ==
    ASSUME NEW x \in TransferOperations \cup ContractOperations,
           NEW y \in TransferOperations \cup ContractOperations
    PROVE  IsTransferPair(x, y) <=> Pays(x, y) \/ Pays(y, x)
<1>1. x.value \in Int /\ y.value \in Int
  BY DEF TransferOperations, ContractOperations
<1> QED
  BY <1>1 DEF IsTransferPair, Pays, Abs

\* What the options are, and when there are none.
LEMMA OptionsAre ==
    ASSUME NEW ops \in Seq(ConstructionOperations), NEW memo \in Memos \cup {NoMemo},
           NEW maxFee \in Int \cup {NoFee}, NEW multiplier \in Int \cup {NoFee}
    PROVE  LET legs == Legs(ops)
               o == buildConstructionOptionsFromOperations(ops, memo, maxFee, multiplier)
           IN  \/ /\ Len(legs) = 1 /\ IsContractLeg(legs[1])
                  /\ o = Capped(ContractOptions(legs[1]), maxFee, multiplier)
                  /\ o \in ConstructionOptions /\ MakesSense(ops)
               \/ /\ Len(legs) = 2 /\ (Pays(legs[1], legs[2]) \/ Pays(legs[2], legs[1]))
                  /\ o = Capped(TransferOptions(legs[1], legs[2], memo), maxFee, multiplier)
                  /\ o \in ConstructionOptions /\ MakesSense(ops)
               \/ o = Invalid /\ ~MakesSense(ops)
<1> DEFINE legs == Legs(ops)
           o == buildConstructionOptionsFromOperations(ops, memo, maxFee, multiplier)
<1>1. /\ Len(legs) \in Nat
      /\ \A i \in 1..Len(legs) : legs[i] \in TransferOperations \cup ContractOperations
  BY LegsType
<1>2. CASE Len(legs) = 1 /\ IsContractLeg(legs[1])
  <2>1. o = Capped(ContractOptions(legs[1]), maxFee, multiplier)
    BY <1>2 DEF buildConstructionOptionsFromOperations, IsContractLeg
  <2>2. legs[1] \in ContractOperations
    BY <1>1, <1>2 DEF TransferOperations, IsContractLeg
  <2>3. Capped(ContractOptions(legs[1]), maxFee, multiplier) \in ConstructionOptions
    BY <2>2 DEF Capped, ContractOptions, ConstructionOptions, ContractOperations, TxTypes
  <2> QED
    BY <1>2, <2>1, <2>3 DEF MakesSense
<1>3. CASE Len(legs) = 2 /\ IsTransferPair(legs[1], legs[2])
  <2> DEFINE x == legs[1]
             y == legs[2]
  <2>1. o = Capped(TransferOptions(x, y, memo), maxFee, multiplier)
    BY <1>3 DEF buildConstructionOptionsFromOperations
  <2>2. /\ x \in TransferOperations \cup ContractOperations
        /\ y \in TransferOperations \cup ContractOperations
    BY <1>1, <1>3
  <2>3. Pays(x, y) \/ Pays(y, x)
    BY <1>3, <2>2, PairsPay
  <2>4. x \in TransferOperations /\ y \in TransferOperations
    BY <2>2, <2>3 DEF Pays, ContractOperations
  <2> HIDE DEF x, y
  <2>5. Capped(TransferOptions(x, y, memo), maxFee, multiplier) \in ConstructionOptions
    BY <2>4 DEF Capped, TransferOptions, ConstructionOptions, TransferOperations, TxTypes,
                FirstOf, Abs
  <2>6. MakesSense(ops)
    <3>1. \E i \in 1..2 : Pays(legs[i], legs[3 - i])
      BY <2>3 DEF x, y
    <3> QED
      BY <1>3, <3>1 DEF MakesSense
  <2> QED
    BY <1>3, <2>1, <2>3, <2>5, <2>6 DEF x, y
<1>4. CASE /\ ~(Len(legs) = 1 /\ IsContractLeg(legs[1]))
           /\ ~(Len(legs) = 2 /\ IsTransferPair(legs[1], legs[2]))
  <2>1. o = Invalid
    BY <1>4 DEF buildConstructionOptionsFromOperations, IsContractLeg
  <2>2. ASSUME Len(legs) = 2, NEW i \in 1..2, Pays(legs[i], legs[3 - i]) PROVE FALSE
    <3>1. Pays(legs[1], legs[2]) \/ Pays(legs[2], legs[1])
      BY <2>2
    <3>2. IsTransferPair(legs[1], legs[2])
      BY <1>1, <2>2, <3>1, PairsPay
    <3> QED
      BY <1>4, <2>2, <3>2
  <2> QED
    BY <1>4, <2>1, <2>2 DEF MakesSense
<1> QED
  BY <1>2, <1>3, <1>4
-----------------------------------------------------------------------------
(* The inductive invariant: what a wallet holds is what the handlers make   *)
(* of its requests.                                                        *)

OptionsOf(a) == buildConstructionOptionsFromOperations(a.ops, a.memo, a.maxFee, a.multiplier)
Prepared(a, o) == a \in Asks /\ o = OptionsOf(a) /\ o \in ConstructionOptions
Described(a, o, m) ==
    /\ Prepared(a, o)
    /\ \E estimate \in Estimates(o.opts.type), n \in 0..MaxNonce :
         m = [options |-> o, nonce |-> n, suggested_fee |-> SuggestedFee(estimate, o)]
Requested(a, o, m, r) == Described(a, o, m) /\ r \in PayloadRequests(m)

Understood(r) == buildConstructionOptionsFromOperations(r.ops, NoMemo, NoFee, NoFee)
FeeOf(r) == Abs(FeeOperations(r)[1].value)
UnsignedOf(m, r, n) ==
    Transaction(r.key, Understood(r).opts, ResolvedMemo(m, r, Understood(r)), FeeOf(r), n)
PayloadOf(m, r, t) ==
    [address |-> Understood(r).opts.sender, hash |-> SigHash(t, FeeOf(r), m.nonce)]
SignatureOf(p) == reorderSignatureToVrs([by |-> p.address, hash |-> p.hash, layout |-> "RSV"])
Built(st, m, r, t, p) ==
    /\ PayloadsVerdict(m, r, Understood(r)) = "ok"
    /\ \E n \in UnsignedNonces(m, Understood(r).opts.type) :
         /\ p = PayloadOf(m, r, UnsignedOf(m, r, n))
         /\ t = IF st = "unsigned" THEN UnsignedOf(m, r, n)
                ELSE [UnsignedOf(m, r, n) EXCEPT !.signature = SignatureOf(p)]

SessionOK(st, a, o, m, r, t, p, err) ==
    \/ st = "idle" /\ a = None /\ o = None /\ m = None /\ r = None
    \/ st = "preprocessed" /\ Prepared(a, o) /\ m = None /\ r = None
    \/ st = "described" /\ Described(a, o, m) /\ r = None
    \/ st \in {"unsigned", "signed", "submitted"} /\ Requested(a, o, m, r) /\ Built(st, m, r, t, p)
    \/ /\ st = "refused" /\ a \in Asks /\ OptionsOf(a) = Invalid /\ m = None /\ r = None
    \/ /\ st = "refused" /\ Requested(a, o, m, r)
       /\ err \in {"invalidTransaction", "invalidPublicKey"} =>
            PayloadsVerdict(m, r, Understood(r)) # "ok"

Session(s) ==
    SessionOK(stage[s], ask[s], options[s], meta[s], request[s], tx[s], payload[s], reply[s])

Stages ==
    {"idle", "preprocessed", "described", "unsigned", "signed", "submitted", "refused"}

Inv ==
    /\ nonce \in [Accounts -> 0..MaxNonce]
    /\ stage \in [Sessions -> Stages]
    /\ ask \in [Sessions -> Asks \cup {None}]
    /\ DOMAIN options = Sessions /\ DOMAIN meta = Sessions /\ DOMAIN request = Sessions
    /\ DOMAIN tx = Sessions /\ DOMAIN payload = Sessions /\ DOMAIN reply = Sessions
    /\ \A s \in Sessions : Session(s)

\* A step of wallet s leaves the others alone.
OnlyOf(s) ==
    /\ nonce' = nonce
    /\ DOMAIN options' = DOMAIN options /\ DOMAIN meta' = DOMAIN meta
    /\ DOMAIN request' = DOMAIN request /\ DOMAIN tx' = DOMAIN tx
    /\ DOMAIN payload' = DOMAIN payload /\ DOMAIN reply' = DOMAIN reply
    /\ \A x \in Sessions \ {s} :
         /\ stage'[x] = stage[x] /\ ask'[x] = ask[x] /\ options'[x] = options[x]
         /\ meta'[x] = meta[x] /\ request'[x] = request[x] /\ tx'[x] = tx[x]
         /\ payload'[x] = payload[x] /\ reply'[x] = reply[x]

\* A step that is that of one wallet keeps the invariant if it does for that wallet.
LEMMA StepOfOne ==
    ASSUME Inv, NEW s \in Sessions, OnlyOf(s), Session(s)',
           stage' \in [Sessions -> Stages], ask' \in [Sessions -> Asks \cup {None}]
    PROVE  Inv'
<1>1. ASSUME NEW x \in Sessions, x # s PROVE Session(x)'
  <2>1. Session(x)
    BY DEF Inv
  <2> QED
    BY <1>1, <2>1 DEF Session, OnlyOf
<1>2. \A x \in Sessions : Session(x)'
  BY <1>1
<1> QED
  BY <1>2 DEF Inv, OnlyOf

\* Every wallet is idle and holds nothing.
LEMMA InitInv == Init => Inv
<1> SUFFICES ASSUME Init PROVE Inv
  OBVIOUS
<1>1. nonce \in [Accounts -> 0..MaxNonce]
  BY FeeAssumption DEF Init
<1>2. \A s \in Sessions : Session(s)
  BY DEF Init, Session, SessionOK
<1> QED
  BY <1>1, <1>2 DEF Init, Inv, Stages

\* What the schemas promise about a preprocess request.
LEMMA AsksAre ==
    ASSUME NEW a \in Asks
    PROVE  /\ a.ops \in Seq(ConstructionOperations) /\ a.memo \in Memos \cup {NoMemo}
           /\ a.maxFee \in Int \cup {NoFee} /\ a.multiplier \in Int \cup {NoFee}
  BY RequestAssumption DEF PreprocessRequests

\* Preprocess hands out the options of the request, or refuses one that means none.
LEMMA PreprocessKeeps ==
    ASSUME Inv, NEW s \in Sessions, NEW a \in Asks, Preprocess(s, a)
    PROVE  Inv'
<1> DEFINE o == OptionsOf(a)
<1>1. stage[s] = "idle" /\ meta[s] = None /\ request[s] = None
  BY DEF Inv, Session, SessionOK, Preprocess
<1>2. o = Invalid \/ o \in ConstructionOptions
  BY AsksAre, OptionsAre DEF OptionsOf
<1>3. /\ ask' = [ask EXCEPT ![s] = a]
      /\ IF o = Invalid THEN Refuse(s, "invalidTransaction") /\ UNCHANGED options
         ELSE /\ stage' = [stage EXCEPT ![s] = "preprocessed"]
              /\ options' = [options EXCEPT ![s] = o]
              /\ reply' = [reply EXCEPT ![s] = "ok"]
      /\ UNCHANGED <<nonce, meta, request, tx, payload>>
  BY DEF Preprocess, OptionsOf
<1> HIDE DEF o
<1>4. CASE o = Invalid
  <2>1. OnlyOf(s) /\ stage' \in [Sessions -> Stages] /\ ask' \in [Sessions -> Asks \cup {None}]
    BY <1>3, <1>4 DEF Inv, OnlyOf, Refuse, Stages
  <2>2. Session(s)'
    BY <1>1, <1>3, <1>4 DEF Inv, Session, SessionOK, Refuse, o
  <2> QED
    BY <2>1, <2>2, StepOfOne
<1>5. CASE o # Invalid
  <2>1. OnlyOf(s) /\ stage' \in [Sessions -> Stages] /\ ask' \in [Sessions -> Asks \cup {None}]
    BY <1>3, <1>5 DEF Inv, OnlyOf, Stages
  <2>2. Session(s)'
    BY <1>1, <1>2, <1>3, <1>5 DEF Inv, Session, SessionOK, Prepared, o
  <2> QED
    BY <2>1, <2>2, StepOfOne
<1> QED
  BY <1>4, <1>5

\* Metadata, again or for the first time, drops what was built with the last answer.
LEMMA MetadataKeeps ==
    ASSUME Inv, NEW s \in Sessions, Metadata(s)
    PROVE  Inv'
<1>1. Prepared(ask[s], options[s])
  BY DEF Inv, Session, SessionOK, Metadata, Requested, Described
<1>2. options[s].opts.sender \in Accounts
  BY <1>1 DEF Prepared, ConstructionOptions
<1>3. nonce[options[s].opts.sender] \in 0..MaxNonce
  BY <1>2 DEF Inv
<1>4. Described(ask'[s], options'[s], meta'[s])
  BY <1>1, <1>3 DEF Inv, Metadata, Described
<1>5. Session(s)'
  BY <1>4 DEF Inv, Session, SessionOK, Metadata
<1>6. OnlyOf(s) /\ stage' \in [Sessions -> Stages] /\ ask' \in [Sessions -> Asks \cup {None}]
  BY DEF Inv, OnlyOf, Metadata, Stages
<1> QED
  BY <1>5, <1>6, StepOfOne

\* Payloads refuses with a verdict, or because the library throws, or builds.
LEMMA PayloadsKeeps ==
    ASSUME Inv, NEW s \in Sessions, NEW r \in PayloadRequests(meta[s]), Payloads(s, r)
    PROVE  Inv'
<1> DEFINE verdict == PayloadsVerdict(meta[s], r, Understood(r))
<1>1. Requested(ask[s], options[s], meta[s], r)
  BY DEF Inv, Session, SessionOK, Payloads, Requested
<1>2. request' = [request EXCEPT ![s] = r] /\ UNCHANGED <<nonce, ask, options, meta>>
  BY DEF Payloads
<1>3. \/ verdict # "ok" /\ Refuse(s, verdict) /\ UNCHANGED <<tx, payload>>
      \/ Refuse(s, "internalError") /\ UNCHANGED <<tx, payload>>
      \/ /\ verdict = "ok"
         /\ \E n \in UnsignedNonces(meta[s], Understood(r).opts.type) :
              LET t == UnsignedOf(meta[s], r, n)
              IN  /\ tx' = [tx EXCEPT ![s] = t]
                  /\ payload' = [payload EXCEPT ![s] = PayloadOf(meta[s], r, t)]
         /\ stage' = [stage EXCEPT ![s] = "unsigned"]
         /\ reply' = [reply EXCEPT ![s] = "ok"]
  BY DEF Payloads, Understood, UnsignedOf, PayloadOf, FeeOf
<1>4. CASE verdict # "ok" /\ Refuse(s, verdict) /\ UNCHANGED <<tx, payload>>
  <2>1. OnlyOf(s) /\ stage' \in [Sessions -> Stages] /\ ask' \in [Sessions -> Asks \cup {None}]
    BY <1>2, <1>4 DEF Inv, OnlyOf, Refuse, Stages
  <2>2. Session(s)'
    BY <1>1, <1>2, <1>4 DEF Inv, Session, SessionOK, Refuse
  <2> QED
    BY <2>1, <2>2, StepOfOne
<1>5. CASE Refuse(s, "internalError") /\ UNCHANGED <<tx, payload>>
  <2>1. OnlyOf(s) /\ stage' \in [Sessions -> Stages] /\ ask' \in [Sessions -> Asks \cup {None}]
    BY <1>2, <1>5 DEF Inv, OnlyOf, Refuse, Stages
  <2>2. Session(s)'
    BY <1>1, <1>2, <1>5 DEF Inv, Session, SessionOK, Refuse
  <2> QED
    BY <2>1, <2>2, StepOfOne
<1>6. ASSUME verdict = "ok",
             NEW n \in UnsignedNonces(meta[s], Understood(r).opts.type),
             tx' = [tx EXCEPT ![s] = UnsignedOf(meta[s], r, n)],
             payload' = [payload EXCEPT ![s] = PayloadOf(meta[s], r, UnsignedOf(meta[s], r, n))],
             stage' = [stage EXCEPT ![s] = "unsigned"],
             reply' = [reply EXCEPT ![s] = "ok"]
      PROVE  Inv'
  <2>1. OnlyOf(s) /\ stage' \in [Sessions -> Stages] /\ ask' \in [Sessions -> Asks \cup {None}]
    BY <1>2, <1>6 DEF Inv, OnlyOf, Stages
  <2>2. Built(stage'[s], meta'[s], request'[s], tx'[s], payload'[s])
    BY <1>2, <1>6 DEF Inv, Built
  <2>3. Session(s)'
    BY <1>1, <1>2, <1>6, <2>2 DEF Inv, Session, SessionOK
  <2> QED
    BY <2>1, <2>3, StepOfOne
<1> QED
  BY <1>3, <1>4, <1>5, <1>6

\* Combine adds the signature of the payload to the transaction of the payload.
LEMMA CombineKeeps ==
    ASSUME Inv, NEW s \in Sessions, NEW count, NEW full, Combine(s, count, full)
    PROVE  Inv'
<1>1. /\ Requested(ask[s], options[s], meta[s], request[s])
      /\ Built("unsigned", meta[s], request[s], tx[s], payload[s])
  BY DEF Inv, Session, SessionOK, Combine
<1>2. CASE Refuse(s, "invalidSignature") /\ UNCHANGED tx
  <2>1. OnlyOf(s) /\ stage' \in [Sessions -> Stages] /\ ask' \in [Sessions -> Asks \cup {None}]
    BY <1>2 DEF Inv, OnlyOf, Refuse, Combine, Stages
  <2>2. Session(s)'
    BY <1>1, <1>2 DEF Inv, Session, SessionOK, Refuse, Combine
  <2> QED
    BY <2>1, <2>2, StepOfOne
<1>3. CASE /\ stage' = [stage EXCEPT ![s] = "signed"]
           /\ tx' = [tx EXCEPT ![s].signature =
                       reorderSignatureToVrs([by |-> payload[s].address,
                                              hash |-> payload[s].hash, layout |-> "RSV"])]
           /\ reply' = [reply EXCEPT ![s] = "ok"]
  <2>1. OnlyOf(s) /\ stage' \in [Sessions -> Stages] /\ ask' \in [Sessions -> Asks \cup {None}]
    BY <1>3 DEF Inv, OnlyOf, Combine, Stages
  <2>2. tx'[s] = [tx[s] EXCEPT !.signature = SignatureOf(payload[s])]
    BY <1>3 DEF Inv, SignatureOf
  <2>3. Built("signed", meta[s], request[s], tx'[s], payload[s])
    BY <1>1, <2>2 DEF Built
  <2>4. Session(s)'
    BY <1>1, <1>3, <2>3 DEF Inv, Session, SessionOK, Combine
  <2> QED
    BY <2>1, <2>4, StepOfOne
<1> QED
  BY <1>2, <1>3 DEF Combine

\* Calls that leave all as it is, but perhaps the stage and the reply.
LEMMA SubmitKeeps ==
    ASSUME Inv, NEW s \in Sessions, Submit(s) \/ SubmitFails(s) \/ MetadataFails(s)
    PROVE  Inv'
<1>1. OnlyOf(s) /\ stage' \in [Sessions -> Stages] /\ ask' \in [Sessions -> Asks \cup {None}]
  BY DEF Inv, OnlyOf, Submit, SubmitFails, MetadataFails, Keep, Stages
<1>2. Session(s)'
  <2>1. Session(s)
    BY DEF Inv
  <2>2. CASE Submit(s)
    BY <2>1, <2>2 DEF Inv, Session, SessionOK, Submit, Keep, Built
  <2>3. CASE SubmitFails(s)
    BY <2>1, <2>3 DEF Inv, Session, SessionOK, SubmitFails, Keep
  <2>4. CASE MetadataFails(s)
    BY <2>1, <2>4 DEF Inv, Session, SessionOK, MetadataFails, Keep
  <2> QED
    BY <2>2, <2>3, <2>4
<1> QED
  BY <1>1, <1>2, StepOfOne

\* A wallet that leaves forgets everything.
LEMMA LeaveKeeps ==
    ASSUME Inv, NEW s \in Sessions, Leave(s)
    PROVE  Inv'
<1>1. OnlyOf(s) /\ stage' \in [Sessions -> Stages] /\ ask' \in [Sessions -> Asks \cup {None}]
  BY DEF Inv, OnlyOf, Leave, Stages
<1>2. Session(s)'
  BY DEF Inv, Session, SessionOK, Leave
<1> QED
  BY <1>1, <1>2, StepOfOne

\* Nonces move on behind the wallets' backs; no wallet's state depends on them.
LEMMA ConfirmKeeps ==
    ASSUME Inv, NEW a \in Accounts, Confirm(a)
    PROVE  Inv'
<1>1. nonce' \in [Accounts -> 0..MaxNonce]
  BY FeeAssumption DEF Inv, Confirm
<1>2. \A x \in Sessions : Session(x)'
  BY DEF Inv, Confirm, wallet, Session
<1> QED
  BY <1>1, <1>2 DEF Inv, Confirm, wallet

\* Every step of every wallet and of the chain keeps the invariant.
LEMMA NextInv == Inv /\ [Next]_vars => Inv'
<1> SUFFICES ASSUME Inv, [Next]_vars PROVE Inv'
  OBVIOUS
<1>1. ASSUME NEW s \in Sessions, Step(s) PROVE Inv'
  BY <1>1, PreprocessKeeps, MetadataKeeps, PayloadsKeeps, CombineKeeps, SubmitKeeps, LeaveKeeps
     DEF Step
<1>2. CASE \E a \in Accounts : Confirm(a)
  BY <1>2, ConfirmKeeps
<1>3. CASE UNCHANGED vars
  BY <1>3 DEF vars, wallet, Inv, Session
<1> QED
  BY <1>1, <1>2, <1>3 DEF Next

\* What a wallet holds is always what the handlers made of its requests.
THEOREM AlwaysInv == Spec => []Inv
  BY InitInv, NextInv, PTL DEF Spec

-----------------------------------------------------------------------------
(* What the requests of a wallet mean.                                     *)

\* The options of a transfer of leg d to leg c.
PaymentOf(d, c, memo) ==
    [type |-> "token_transfer", sender |-> d.account, recipient |-> c.account,
     amount |-> c.value, memo |-> FirstOf(d.memo, memo), what |-> NoWhat]

\* The options of a pair of legs do not depend on their order.
LEMMA TransfersPay ==
    ASSUME NEW x \in TransferOperations, NEW y \in TransferOperations, NEW memo
    PROVE  /\ Pays(x, y) => TransferOptions(x, y, memo) = PaymentOf(x, y, memo)
           /\ Pays(y, x) => TransferOptions(x, y, memo) = PaymentOf(y, x, memo)
<1>1. x.value \in Int /\ y.value \in Int
  BY DEF TransferOperations
<1> QED
  BY <1>1 DEF Pays, TransferOptions, PaymentOf, Abs

\* The suggested fee is a number, and no more than the cap.
LEMMA SuggestedFeeIsInt ==
    ASSUME NEW o \in ConstructionOptions, NEW fee \in Nat
    PROVE  /\ SuggestedFee(fee, o) \in Int
           /\ o.max_fee # NoFee => SuggestedFee(fee, o) <= o.max_fee
<1>1. o.max_fee \in Int \cup {NoFee} /\ o.suggested_fee_multiplier \in Int \cup {NoFee}
  BY DEF ConstructionOptions
<1>2. Multiplied(fee, o.suggested_fee_multiplier) \in Int
  BY <1>1 DEF Multiplied
<1> QED
  BY <1>1, <1>2 DEF SuggestedFee, Limited

\* Every estimate of the size of a transaction is a number.
LEMMA EstimatesAre ==
    ASSUME NEW type \in TxTypes
    PROVE  Estimates(type) \subseteq Nat
  BY FeeAssumption DEF Estimates

\* What the schemas promise about a request to payloads; the metadata it goes with has
\* the options of the request to preprocess.
LEMMA RequestsAre ==
    ASSUME NEW a, NEW o, NEW m, NEW r, Requested(a, o, m, r)
    PROVE  /\ r \in PayloadsRequests
           /\ FeeOperations(r) \in Seq(FeeTypeOperations)
           /\ m.options = o /\ m.nonce \in 0..MaxNonce
<1>1. /\ a \in Asks /\ o \in ConstructionOptions
      /\ \E estimate \in Estimates(o.opts.type), n \in 0..MaxNonce :
           m = [options |-> o, nonce |-> n, suggested_fee |-> SuggestedFee(estimate, o)]
  BY DEF Requested, Described, Prepared
<1>2. o.opts.sender \in Accounts /\ o.opts.type \in TxTypes
  BY <1>1 DEF ConstructionOptions
<1>3. m.options = o /\ m.suggested_fee \in Int /\ m.nonce \in 0..MaxNonce
  BY <1>1, <1>2, EstimatesAre, SuggestedFeeIsInt
<1>4. PICK fees \in FeeChoices(m), b \in Asks, key \in Accounts, memo \in Memos \cup {NoMemo} :
        r = [ops |-> fees \o Legs(b.ops), key |-> key, memo |-> memo]
  BY DEF Requested, PayloadRequests
<1>5. fees \in Seq(FeeTypeOperations)
  <2>1. \A x \in Accounts, v \in Int : Fee(x, v) \in FeeTypeOperations
    BY DEF Fee, Op, FeeTypeOperations
  <2>2. \A x \in FeeTypeOperations, y \in FeeTypeOperations :
          <<x>> \in Seq(FeeTypeOperations) /\ <<x, y>> \in Seq(FeeTypeOperations)
    OBVIOUS
  <2>3. -m.suggested_fee \in Int /\ -1 \in Int
    BY <1>3
  <2>4. m.options.opts.sender \in Accounts
    BY <1>2, <1>3
  <2>5. \/ fees = <<>>
        \/ fees = <<Fee(m.options.opts.sender, -m.suggested_fee)>>
        \/ fees = <<Fee(m.options.opts.sender, m.suggested_fee)>>
        \/ \E x \in Accounts : fees = <<Fee(x, -1), Fee(m.options.opts.sender, -m.suggested_fee)>>
    BY <1>4 DEF FeeChoices
  <2> QED
    <3> DEFINE payer == m.options.opts.sender
               fee == m.suggested_fee
    <3>1. /\ Fee(payer, -fee) \in FeeTypeOperations /\ Fee(payer, fee) \in FeeTypeOperations
          /\ \A x \in Accounts : Fee(x, -1) \in FeeTypeOperations
      BY <1>3, <2>1, <2>3, <2>4
    <3>2. \/ fees = <<>>
          \/ fees = <<Fee(payer, -fee)>>
          \/ fees = <<Fee(payer, fee)>>
          \/ \E x \in Accounts : fees = <<Fee(x, -1), Fee(payer, -fee)>>
      BY <2>5
    <3> HIDE DEF payer, fee
    <3>3. CASE fees = <<>>
      BY <3>3
    <3>4. CASE fees = <<Fee(payer, -fee)>>
      BY <3>1, <3>4, <2>2
    <3>5. CASE fees = <<Fee(payer, fee)>>
      BY <3>1, <3>5, <2>2
    <3>6. ASSUME NEW x \in Accounts, fees = <<Fee(x, -1), Fee(payer, -fee)>>
          PROVE  fees \in Seq(FeeTypeOperations)
      BY <3>1, <3>6, <2>2
    <3> QED
      BY <3>2, <3>3, <3>4, <3>5, <3>6
<1>6. b.ops \in Seq(ConstructionOperations)
  BY <1>4, AsksAre
<1> QED
  BY <1>3, <1>4, <1>5, <1>6, FeesBeforeLegs DEF FeeOperations, PayloadsRequests

\* Operations mean the transaction of a contract leg, or of a leg that pays another.
IsContract(ops, d) ==
    d \in ContractOperations /\ d \in ToSet(ops) /\ ToSet(Legs(ops)) = {d}
IsPayment(ops, d, c) ==
    /\ d \in TransferOperations /\ c \in TransferOperations /\ Pays(d, c)
    /\ d \in ToSet(ops) /\ c \in ToSet(ops) /\ ToSet(Legs(ops)) = {d, c}

\* Operations mean options o, with the memo, max_fee and multiplier beside them.
Means(ops, memo, maxFee, multiplier, o) ==
    /\ o \in ConstructionOptions
    /\ \/ \E d : IsContract(ops, d) /\ o = Capped(ContractOptions(d), maxFee, multiplier)
       \/ \E d, c : IsPayment(ops, d, c) /\ o = Capped(PaymentOf(d, c, memo), maxFee, multiplier)

\* The options that operations mean are made of them, if they make sense.
LEMMA Meaning ==
    ASSUME NEW ops \in Seq(ConstructionOperations), NEW memo \in Memos \cup {NoMemo},
           NEW maxFee \in Int \cup {NoFee}, NEW multiplier \in Int \cup {NoFee}
    PROVE  LET o == buildConstructionOptionsFromOperations(ops, memo, maxFee, multiplier)
           IN  (o = Invalid /\ ~MakesSense(ops)) \/ Means(ops, memo, maxFee, multiplier, o)
<1> DEFINE legs == Legs(ops)
           o == buildConstructionOptionsFromOperations(ops, memo, maxFee, multiplier)
<1>1. /\ \A i \in 1..Len(legs) : legs[i] \in TransferOperations \cup ContractOperations
      /\ \A i \in 1..Len(legs) : legs[i] \in ToSet(ops)
      /\ legs \in Seq(ConstructionOperations)
  BY LegsType
<1>2. \/ o = Invalid /\ ~MakesSense(ops)
      \/ /\ Len(legs) = 1 /\ IsContractLeg(legs[1]) /\ o \in ConstructionOptions
         /\ o = Capped(ContractOptions(legs[1]), maxFee, multiplier)
      \/ /\ Len(legs) = 2 /\ (Pays(legs[1], legs[2]) \/ Pays(legs[2], legs[1]))
         /\ o = Capped(TransferOptions(legs[1], legs[2], memo), maxFee, multiplier)
         /\ o \in ConstructionOptions
  BY OptionsAre
<1> HIDE DEF o
<1>3. ASSUME Len(legs) = 1, IsContractLeg(legs[1]), o \in ConstructionOptions,
             o = Capped(ContractOptions(legs[1]), maxFee, multiplier)
      PROVE  Means(ops, memo, maxFee, multiplier, o)
  <2>1. legs[1] \in ContractOperations
    BY <1>1, <1>3 DEF IsContractLeg, TransferOperations
  <2>2. ToSet(legs) = {legs[1]} /\ legs[1] \in ToSet(ops)
    BY <1>1, <1>3 DEF ToSet
  <2>3. IsContract(ops, legs[1])
    BY <2>1, <2>2 DEF IsContract
  <2> HIDE DEF legs
  <2> QED
    BY <1>3, <2>3 DEF Means
<1>4. ASSUME Len(legs) = 2, Pays(legs[1], legs[2]) \/ Pays(legs[2], legs[1]),
             o = Capped(TransferOptions(legs[1], legs[2], memo), maxFee, multiplier),
             o \in ConstructionOptions
      PROVE  Means(ops, memo, maxFee, multiplier, o)
  <2> DEFINE x == legs[1]
             y == legs[2]
  <2>1. ToSet(legs) = {x, y} /\ x \in ToSet(ops) /\ y \in ToSet(ops)
    BY <1>1, <1>4 DEF ToSet
  <2>2. x \in TransferOperations /\ y \in TransferOperations
    BY <1>1, <1>4 DEF Pays, ContractOperations
  <2>3. /\ o = Capped(TransferOptions(x, y, memo), maxFee, multiplier)
        /\ Pays(x, y) \/ Pays(y, x)
    BY <1>4
  <2> HIDE DEF x, y
  <2>4. \/ IsPayment(ops, x, y) /\ o = Capped(PaymentOf(x, y, memo), maxFee, multiplier)
        \/ IsPayment(ops, y, x) /\ o = Capped(PaymentOf(y, x, memo), maxFee, multiplier)
    BY <2>1, <2>2, <2>3, TransfersPay DEF IsPayment
  <2> QED
    BY <1>4, <2>4 DEF Means
<1> QED
  BY <1>2, <1>3, <1>4 DEF o

\* A transaction made of the options that operations mean executes the operations.
LEMMA MadeOfOptions ==
    ASSUME NEW ops, NEW memo, NEW maxFee, NEW multiplier, NEW o,
           Means(ops, memo, maxFee, multiplier, o), NEW t,
           t.type = o.opts.type, t.signer = o.opts.sender, t.recipient = o.opts.recipient,
           t.amount = o.opts.amount, t.what = o.opts.what
    PROVE  Executes(t, ops)
<1>1. ASSUME NEW d, IsContract(ops, d),
             o = Capped(ContractOptions(d), maxFee, multiplier)
      PROVE  Executes(t, ops)
  <2>1. o.opts.type = d.type /\ o.opts.sender = d.account /\ o.opts.what = d.what
    BY <1>1 DEF Capped, ContractOptions
  <2>2. IsContractLeg(d)
    BY <1>1 DEF IsContract, ContractOperations, IsContractLeg
  <2>3. d \in ToSet(ops)
    BY <1>1 DEF IsContract
  <2> QED
    BY <2>1, <2>2, <2>3 DEF Executes
<1>2. ASSUME NEW d, NEW c, IsPayment(ops, d, c),
             o = Capped(PaymentOf(d, c, memo), maxFee, multiplier)
      PROVE  Executes(t, ops)
  <2>1. /\ o.opts.type = "token_transfer" /\ o.opts.sender = d.account
        /\ o.opts.recipient = c.account /\ o.opts.amount = c.value
    BY <1>2 DEF Capped, PaymentOf
  <2>2. /\ d.type = "token_transfer" /\ ~IsContractLeg(d) /\ Pays(d, c)
        /\ d \in ToSet(ops) /\ c \in ToSet(ops)
    BY <1>2 DEF IsPayment, TransferOperations, IsContractLeg
  <2> QED
    BY <2>1, <2>2 DEF Executes
<1> QED
  BY <1>1, <1>2 DEF Means

\* The memo in the options is that of any leg, or else the one passed beside them;
\* contract transactions have none.
LEMMA MemoOfLegs ==
    ASSUME NEW ops, NEW memo, NEW maxFee, NEW multiplier, NEW o,
           Means(ops, memo, maxFee, multiplier, o)
    PROVE  /\ o.opts.type = "token_transfer" =>
                \A d \in ToSet(Legs(ops)) : o.opts.memo = FirstOf(d.memo, memo)
           /\ o.opts.type # "token_transfer" => o.opts.memo = NoMemo
           /\ ToSet(Legs(ops)) # {}
<1> DEFINE Goal ==
             /\ o.opts.type = "token_transfer" =>
                  \A d \in ToSet(Legs(ops)) : o.opts.memo = FirstOf(d.memo, memo)
             /\ o.opts.type # "token_transfer" => o.opts.memo = NoMemo
             /\ ToSet(Legs(ops)) # {}
<1>1. ASSUME NEW d, IsContract(ops, d),
             o = Capped(ContractOptions(d), maxFee, multiplier)
      PROVE  Goal
  <2>1. d.type # "token_transfer" /\ ToSet(Legs(ops)) = {d}
    BY <1>1 DEF IsContract, ContractOperations
  <2>2. o.opts.type = d.type /\ o.opts.memo = NoMemo
    BY <1>1 DEF Capped, ContractOptions
  <2> QED
    BY <2>1, <2>2
<1>2. ASSUME NEW d, NEW c, IsPayment(ops, d, c),
             o = Capped(PaymentOf(d, c, memo), maxFee, multiplier)
      PROVE  Goal
  <2>1. d.memo = c.memo /\ ToSet(Legs(ops)) = {d, c}
    BY <1>2 DEF IsPayment, Pays
  <2>2. o.opts.type = "token_transfer" /\ o.opts.memo = FirstOf(d.memo, memo)
    BY <1>2 DEF Capped, PaymentOf
  <2> QED
    BY <2>1, <2>2
<1> QED
  BY <1>1, <1>2 DEF Means

\* Payloads' comparison of the options leaves out their memos only.
LEMMA ComparedAre ==
    ASSUME NEW o \in ConstructionOptions, NEW u \in ConstructionOptions, NEW m, NEW r,
           m.options = o
    PROVE  ~OptionsDiffer(m, r, u) <=>
             /\ u.opts.type = o.opts.type /\ u.opts.sender = o.opts.sender
             /\ u.opts.recipient = o.opts.recipient /\ u.opts.amount = o.opts.amount
             /\ u.opts.what = o.opts.what /\ u.max_fee = o.max_fee
             /\ u.suggested_fee_multiplier = o.suggested_fee_multiplier
<1> DEFINE Bare(y) ==
             [opts |-> [type |-> y.opts.type, sender |-> y.opts.sender,
                        recipient |-> y.opts.recipient, amount |-> y.opts.amount,
                        memo |-> NoMemo, what |-> y.opts.what],
              max_fee |-> y.max_fee, suggested_fee_multiplier |-> y.suggested_fee_multiplier]
           x == ResolvedMemo(m, r, u)
<1>1. withoutMemo(o) = Bare(o)
  BY DEF withoutMemo, ConstructionOptions
<1>2. withoutMemo([u EXCEPT !.opts.memo = x]) = Bare(u)
  <2> HIDE DEF x
  <2> DEFINE v == [u EXCEPT !.opts.memo = x]
  <2>1. /\ DOMAIN u.opts = {"type", "sender", "recipient", "amount", "memo", "what"}
        /\ DOMAIN u = {"opts", "max_fee", "suggested_fee_multiplier"}
    BY DEF ConstructionOptions
  <2>2. v.opts = [type |-> u.opts.type, sender |-> u.opts.sender, recipient |-> u.opts.recipient,
                  amount |-> u.opts.amount, memo |-> x, what |-> u.opts.what]
    BY DEF ConstructionOptions
  <2>3. v = [opts |-> v.opts, max_fee |-> u.max_fee,
             suggested_fee_multiplier |-> u.suggested_fee_multiplier]
    BY DEF ConstructionOptions
  <2> HIDE DEF v
  <2>4. [v EXCEPT !.opts.memo = NoMemo] = Bare(u)
    BY <2>2, <2>3
  <2> QED
    BY <2>4 DEF withoutMemo, v
<1>3. OptionsDiffer(m, r, u) <=> Bare(u) # Bare(o)
  BY <1>1, <1>2 DEF OptionsDiffer, SameOptions
<1>4. Bare(u) = Bare(o) <=>
        /\ u.opts.type = o.opts.type /\ u.opts.sender = o.opts.sender
        /\ u.opts.recipient = o.opts.recipient /\ u.opts.amount = o.opts.amount
        /\ u.opts.what = o.opts.what /\ u.max_fee = o.max_fee
        /\ u.suggested_fee_multiplier = o.suggested_fee_multiplier
  OBVIOUS
<1> QED
  BY <1>3, <1>4

\* A preprocess request that was not refused, and what its options are made of.
LEMMA PreparedIs ==
    ASSUME NEW a, NEW o, Prepared(a, o)
    PROVE  /\ a.ops \in Seq(ConstructionOperations) /\ a.memo \in Memos \cup {NoMemo}
           /\ a.maxFee \in Int \cup {NoFee} /\ a.multiplier \in Int \cup {NoFee}
           /\ Means(a.ops, a.memo, a.maxFee, a.multiplier, o)
<1>1. /\ a.ops \in Seq(ConstructionOperations) /\ a.memo \in Memos \cup {NoMemo}
      /\ a.maxFee \in Int \cup {NoFee} /\ a.multiplier \in Int \cup {NoFee}
      /\ o = buildConstructionOptionsFromOperations(a.ops, a.memo, a.maxFee, a.multiplier)
      /\ o # Invalid
  BY AsksAre, RequestAssumption DEF Prepared, OptionsOf
<1> QED
  BY <1>1, Meaning

\* What payloads understands of a request that it builds a transaction for agrees with
\* the options in all but the memo.
LEMMA Agreed ==
    ASSUME NEW a, NEW o, NEW m, NEW r, NEW st, NEW t, NEW p,
           Requested(a, o, m, r), Built(st, m, r, t, p)
    PROVE  LET u == Understood(r)
           IN  /\ Means(r.ops, NoMemo, NoFee, NoFee, u) /\ u # Invalid
               /\ u.opts.type = o.opts.type /\ u.opts.sender = o.opts.sender
               /\ u.opts.recipient = o.opts.recipient /\ u.opts.amount = o.opts.amount
               /\ u.opts.what = o.opts.what
<1>1. Prepared(a, o) /\ m.options = o /\ r.ops \in Seq(ConstructionOperations)
  BY RequestsAre DEF Requested, Described, PayloadsRequests
<1>2. Understood(r) # Invalid /\ ~OptionsDiffer(m, r, Understood(r))
  BY DEF Built, PayloadsVerdict
<1>3. Understood(r) = buildConstructionOptionsFromOperations(r.ops, NoMemo, NoFee, NoFee)
  BY DEF Understood
<1>4. Means(r.ops, NoMemo, NoFee, NoFee, Understood(r))
  BY <1>1, <1>2, <1>3, Meaning
<1>5. Understood(r) \in ConstructionOptions /\ o \in ConstructionOptions
  BY <1>1, <1>4, PreparedIs DEF Means
<1> QED
  BY <1>1, <1>2, <1>4, <1>5, ComparedAre

-----------------------------------------------------------------------------
(* The properties.                                                         *)

\* What the transaction of a request is.
LEMMA BuiltIs ==
    ASSUME NEW a, NEW o, NEW m, NEW r, NEW st, NEW t, NEW p,
           Requested(a, o, m, r), Built(st, m, r, t, p)
    PROVE  LET opts == Understood(r).opts
           IN  /\ FeeOperations(r)[1] = Fee(t.signer, -t.fee)
               /\ t.fee \in Nat \ {0} /\ t.nonce \in 0..MaxNonce
               /\ t.signer = opts.sender /\ t.signer = r.key /\ t.signer \in Accounts
               /\ t.type = opts.type /\ t.recipient = opts.recipient /\ t.amount = opts.amount
               /\ t.memo = FirstOf(ResolvedMemo(m, r, Understood(r)), EmptyMemo)
               /\ t.what = opts.what
               /\ st = "unsigned" => t.signature = None
               /\ st # "unsigned" =>
                    /\ t.signature.by = t.signer
                    /\ opts.type = "token_transfer" => Verifies(t)
<1> DEFINE u == Understood(r)
           fees == FeeOperations(r)
<1>1. /\ r \in PayloadsRequests /\ fees \in Seq(FeeTypeOperations) /\ m.nonce \in 0..MaxNonce
  BY RequestsAre
<1>2. /\ r.key = u.opts.sender
      /\ fees # <<>> /\ fees[1].account = u.opts.sender /\ ~(fees[1].value >= 0)
  BY DEF Built, PayloadsVerdict, FeeIsWrong
<1>3. fees[1] \in FeeTypeOperations /\ r.key \in Accounts
  BY <1>1, <1>2 DEF PayloadsRequests
<1>4. fees[1] = Fee(r.key, -FeeOf(r)) /\ FeeOf(r) \in Nat \ {0}
  <2>1. fees[1] = [type |-> "fee", account |-> r.key, value |-> fees[1].value,
                   memo |-> NoMemo, what |-> NoWhat] /\ fees[1].value \in Int
    BY <1>2, <1>3 DEF FeeTypeOperations
  <2>2. FeeOf(r) = -fees[1].value
    BY <1>2, <2>1 DEF FeeOf, Abs
  <2>3. -FeeOf(r) = fees[1].value
    BY <2>1, <2>2
  <2> QED
    BY <1>2, <2>1, <2>2, <2>3 DEF Fee, Op
<1>5. PICK n \in UnsignedNonces(m, u.opts.type) :
        /\ p = PayloadOf(m, r, UnsignedOf(m, r, n))
        /\ t = IF st = "unsigned" THEN UnsignedOf(m, r, n)
               ELSE [UnsignedOf(m, r, n) EXCEPT !.signature = SignatureOf(p)]
  BY DEF Built
<1>6. n \in 0..MaxNonce /\ (u.opts.type = "token_transfer" => n = m.nonce)
  BY <1>1, <1>5 DEF UnsignedNonces
<1> DEFINE x == UnsignedOf(m, r, n)
<1>7. x = [signer |-> r.key, type |-> u.opts.type, recipient |-> u.opts.recipient,
           amount |-> u.opts.amount, memo |-> FirstOf(ResolvedMemo(m, r, u), EmptyMemo),
           what |-> u.opts.what, fee |-> FeeOf(r), nonce |-> n, signature |-> None]
  BY DEF UnsignedOf, Transaction
<1> HIDE DEF x, u, fees
<1>8. /\ t.signer = r.key /\ t.type = u.opts.type /\ t.recipient = u.opts.recipient
      /\ t.amount = u.opts.amount /\ t.memo = FirstOf(ResolvedMemo(m, r, u), EmptyMemo)
      /\ t.what = u.opts.what /\ t.fee = FeeOf(r) /\ t.nonce = n
      /\ st = "unsigned" => t.signature = None
      /\ st # "unsigned" => t.signature = SignatureOf(p)
  BY <1>5, <1>7 DEF x
<1>9. SignatureOf(p) = [by |-> r.key, hash |-> SigHash(x, FeeOf(r), m.nonce), layout |-> "VRS"]
  BY <1>2, <1>5 DEF SignatureOf, reorderSignatureToVrs, PayloadOf, x, u
<1>10. SigHash(t, FeeOf(r), m.nonce) = SigHash(x, FeeOf(r), m.nonce)
  BY <1>5, <1>7 DEF SigHash, x
<1>11. st # "unsigned" /\ u.opts.type = "token_transfer" => Verifies(t)
  BY <1>6, <1>8, <1>9, <1>10 DEF Verifies
<1> QED
  BY <1>2, <1>3, <1>4, <1>6, <1>8, <1>9, <1>11 DEF u, fees

\* What the wallet signs for a token transfer is what the node checks.
THEOREM TransfersAreSigned == Spec => []SignatureCoversTransfer
<1>1. Inv => SignatureCoversTransfer
  <2> SUFFICES ASSUME Inv, NEW s \in Sessions, stage[s] = "signed", tx[s].type = "token_transfer"
               PROVE  Verifies(tx[s])
    BY DEF SignatureCoversTransfer
  <2>1. /\ Requested(ask[s], options[s], meta[s], request[s])
        /\ Built("signed", meta[s], request[s], tx[s], payload[s])
    BY DEF Inv, Session, SessionOK
  <2> QED
    BY <2>1, BuiltIs
<1> QED
  BY <1>1, AlwaysInv, PTL

\* The options carry the max_fee of the request.
LEMMA CapsAre ==
    ASSUME NEW a, NEW o, Prepared(a, o)
    PROVE  o.max_fee = a.maxFee
<1> DEFINE legs == Legs(a.ops)
<1>1. /\ o = buildConstructionOptionsFromOperations(a.ops, a.memo, a.maxFee, a.multiplier)
      /\ o # Invalid /\ a \in Asks
  BY RequestAssumption DEF Prepared, OptionsOf
<1>2. /\ a.ops \in Seq(ConstructionOperations) /\ a.memo \in Memos \cup {NoMemo}
      /\ a.maxFee \in Int \cup {NoFee} /\ a.multiplier \in Int \cup {NoFee}
  BY <1>1, AsksAre
<1>3. \/ o = Capped(ContractOptions(legs[1]), a.maxFee, a.multiplier)
      \/ o = Capped(TransferOptions(legs[1], legs[2], a.memo), a.maxFee, a.multiplier)
  BY <1>1, <1>2, OptionsAre
<1> HIDE DEF legs
<1> QED
  BY <1>3 DEF Capped

\* The suggested fee keeps to the max_fee of the request.
THEOREM FeesAreCapped == Spec => []SuggestedFeeWithinCap
<1>1. Inv => SuggestedFeeWithinCap
  <2> SUFFICES ASSUME Inv, NEW s \in Sessions, meta[s] # None, ask[s].maxFee # NoFee
               PROVE  meta[s].suggested_fee <= ask[s].maxFee
    BY DEF SuggestedFeeWithinCap
  <2> DEFINE a == ask[s]
             o == options[s]
  <2>1. Described(a, o, meta[s])
    BY DEF Inv, Session, SessionOK, Requested
  <2>2. a \in Asks /\ o \in ConstructionOptions
        /\ o = buildConstructionOptionsFromOperations(a.ops, a.memo, a.maxFee, a.multiplier)
    BY <2>1 DEF Described, Prepared, OptionsOf
  <2>3. o.max_fee = a.maxFee
    BY <2>1, CapsAre DEF Described
  <2>4. o.opts.type \in TxTypes
    BY <2>2 DEF ConstructionOptions
  <2>5. PICK estimate \in Estimates(o.opts.type) :
          meta[s].suggested_fee = SuggestedFee(estimate, o)
    BY <2>1 DEF Described
  <2> QED
    BY <2>2, <2>3, <2>4, <2>5, EstimatesAre, SuggestedFeeIsInt
<1> QED
  BY <1>1, AlwaysInv, PTL

\* The memo of the transaction is the one that the wallet means.
LEMMA MemoIs ==
    ASSUME NEW a, NEW o, NEW m, NEW r, NEW st, NEW t, NEW p,
           Requested(a, o, m, r), Built(st, m, r, t, p),
           Understood(r).opts.type = "token_transfer",
           NEW d \in ToSet(Legs(r.ops)), NEW e \in ToSet(Legs(a.ops))
    PROVE  t.memo = FirstOf(FirstOf(d.memo, FirstOf(r.memo, FirstOf(e.memo, a.memo))), EmptyMemo)
<1> DEFINE u == Understood(r)
<1>1. Prepared(a, o) /\ m.options = o
  BY RequestsAre DEF Requested, Described
<1>2. Means(r.ops, NoMemo, NoFee, NoFee, u) /\ o.opts.type = u.opts.type
  BY Agreed
<1>0. u.opts.type = "token_transfer"
  OBVIOUS
<1> HIDE DEF u
<1>3. u.opts.memo = FirstOf(d.memo, NoMemo)
  BY <1>0, <1>2, MemoOfLegs
<1>4. o.opts.memo = FirstOf(e.memo, a.memo)
  BY <1>0, <1>1, <1>2, PreparedIs, MemoOfLegs
<1>5. ResolvedMemo(m, r, u) = FirstOf(d.memo, FirstOf(r.memo, FirstOf(e.memo, a.memo)))
  BY <1>1, <1>3, <1>4 DEF ResolvedMemo, MetadataMemo, FirstOf, u
<1>6. t.memo = FirstOf(ResolvedMemo(m, r, u), EmptyMemo)
  BY BuiltIs DEF u
<1> QED
  BY <1>5, <1>6

\* A submitted transaction does what the wallet asked for.
THEOREM AskedIsExecuted == Spec => []ExecutesWhatWasAsked
<1>1. Inv => ExecutesWhatWasAsked
  <2> SUFFICES ASSUME Inv, NEW s \in Sessions, stage[s] = "submitted"
               PROVE  /\ tx[s].signature.by = tx[s].signer
                      /\ FeeOperations(request[s])[1] = Fee(tx[s].signer, -tx[s].fee)
                      /\ Executes(tx[s], ask[s].ops) /\ Executes(tx[s], request[s].ops)
                      /\ tx[s].type = "token_transfer" =>
                           \A d \in ToSet(Legs(request[s].ops)), e \in ToSet(Legs(ask[s].ops)) :
                              tx[s].memo = FirstOf(Meant(ask[s], request[s], d, e), EmptyMemo)
    BY DEF ExecutesWhatWasAsked
  <2> DEFINE a == ask[s]
             o == options[s]
             m == meta[s]
             r == request[s]
             t == tx[s]
             u == Understood(r)
  <2>1. Requested(a, o, m, r) /\ Built("submitted", m, r, t, payload[s])
    BY DEF Inv, Session, SessionOK, Built
  <2>2. /\ t.signature.by = t.signer /\ FeeOperations(r)[1] = Fee(t.signer, -t.fee)
        /\ t.signer = u.opts.sender /\ t.type = u.opts.type /\ t.what = u.opts.what
        /\ t.recipient = u.opts.recipient /\ t.amount = u.opts.amount
    BY <2>1, BuiltIs
  <2>3. /\ Means(r.ops, NoMemo, NoFee, NoFee, u)
        /\ u.opts.type = o.opts.type /\ u.opts.sender = o.opts.sender
        /\ u.opts.recipient = o.opts.recipient /\ u.opts.amount = o.opts.amount
        /\ u.opts.what = o.opts.what
    BY <2>1, Agreed
  <2>4. \A d \in ToSet(Legs(r.ops)), e \in ToSet(Legs(a.ops)) :
           t.type = "token_transfer" => t.memo = FirstOf(Meant(a, r, d, e), EmptyMemo)
    <3> TAKE d \in ToSet(Legs(r.ops)), e \in ToSet(Legs(a.ops))
    <3> HAVE t.type = "token_transfer"
    <3>1. u.opts.type = "token_transfer"
      BY <2>2
    <3> HIDE DEF t, u
    <3>2. t.memo = FirstOf(FirstOf(d.memo, FirstOf(r.memo, FirstOf(e.memo, a.memo))), EmptyMemo)
      BY <2>1, <3>1, MemoIs DEF u
    <3> QED
      BY <3>2 DEF Meant, Passed
  <2> HIDE DEF a, o, m, r, t, u
  <2>5. Executes(t, r.ops)
    BY <2>2, <2>3, MadeOfOptions
  <2>6. Executes(t, a.ops)
    BY <2>1, <2>2, <2>3, PreparedIs, MadeOfOptions DEF Requested, Described
  <2> QED
    BY <2>2, <2>4, <2>5, <2>6 DEF a, r, t
<1> QED
  BY <1>1, AlwaysInv, PTL

\* The account that operations debit.
LEMMA DebtorIs ==
    ASSUME NEW ops, NEW memo, NEW maxFee, NEW multiplier, NEW o,
           Means(ops, memo, maxFee, multiplier, o), NEW x
    PROVE  (\E op \in ToSet(Legs(ops)) : op.account = x /\ (op.value < 0 \/ IsContractLeg(op)))
             <=> x = o.opts.sender
<1>1. ASSUME NEW d, IsContract(ops, d),
             o = Capped(ContractOptions(d), maxFee, multiplier)
      PROVE  (\E op \in ToSet(Legs(ops)) : op.account = x /\ (op.value < 0 \/ IsContractLeg(op)))
                <=> x = o.opts.sender
  <2>1. IsContractLeg(d) /\ ToSet(Legs(ops)) = {d} /\ o.opts.sender = d.account
    BY <1>1 DEF IsContract, Capped, ContractOptions, ContractOperations, IsContractLeg
  <2> QED
    BY <2>1
<1>2. ASSUME NEW d, NEW c, IsPayment(ops, d, c),
             o = Capped(PaymentOf(d, c, memo), maxFee, multiplier)
      PROVE  (\E op \in ToSet(Legs(ops)) : op.account = x /\ (op.value < 0 \/ IsContractLeg(op)))
                <=> x = o.opts.sender
  <2>1. /\ ~IsContractLeg(d) /\ ~IsContractLeg(c) /\ d.value < 0 /\ ~(c.value < 0)
        /\ ToSet(Legs(ops)) = {d, c} /\ o.opts.sender = d.account
    BY <1>2 DEF IsPayment, Capped, PaymentOf, TransferOperations, IsContractLeg, Pays
  <2> QED
    BY <2>1
<1> QED
  BY <1>1, <1>2 DEF Means

\* Operations with the same legs, up to the memos, mean the same, up to the memo.
LEMMA SameLegsAgree ==
    ASSUME NEW ops1, NEW ops2, NEW memo, NEW o, NEW u,
           Means(ops1, memo, NoFee, NoFee, o), Means(ops2, NoMemo, NoFee, NoFee, u),
           SameLegs(ops1, ops2), NEW m, NEW r, m.options = o
    PROVE  ~OptionsDiffer(m, r, u)
<1> DEFINE Bare(op) == [op EXCEPT !.memo = NoMemo]
<1>1. {Bare(op) : op \in ToSet(Legs(ops1))} = {Bare(op) : op \in ToSet(Legs(ops2))}
  BY DEF SameLegs
<1>2. \A op \in TransferOperations \cup ContractOperations :
         /\ Bare(op).type = op.type /\ Bare(op).account = op.account
         /\ Bare(op).value = op.value /\ Bare(op).what = op.what
  BY DEF TransferOperations, ContractOperations
<1>3. o \in ConstructionOptions /\ u \in ConstructionOptions
  BY DEF Means
<1>4. SUFFICES /\ u.opts.type = o.opts.type /\ u.opts.sender = o.opts.sender
               /\ u.opts.recipient = o.opts.recipient /\ u.opts.amount = o.opts.amount
               /\ u.opts.what = o.opts.what /\ u.max_fee = o.max_fee
               /\ u.suggested_fee_multiplier = o.suggested_fee_multiplier
  BY <1>3, ComparedAre
<1> HIDE DEF Bare
<1>5. ASSUME NEW d, IsContract(ops1, d), o = Capped(ContractOptions(d), NoFee, NoFee),
             NEW e, IsContract(ops2, e), u = Capped(ContractOptions(e), NoFee, NoFee)
      PROVE  /\ u.opts.type = o.opts.type /\ u.opts.sender = o.opts.sender
             /\ u.opts.recipient = o.opts.recipient /\ u.opts.amount = o.opts.amount
             /\ u.opts.what = o.opts.what /\ u.max_fee = o.max_fee
             /\ u.suggested_fee_multiplier = o.suggested_fee_multiplier
  <2>1. Bare(d) = Bare(e) /\ d \in ContractOperations /\ e \in ContractOperations
    BY <1>1, <1>5 DEF IsContract
  <2>2. d.type = e.type /\ d.account = e.account /\ d.what = e.what
    BY <1>2, <2>1
  <2> QED
    BY <1>5, <2>2 DEF Capped, ContractOptions
<1>6. ASSUME NEW d, NEW c, IsPayment(ops1, d, c), o = Capped(PaymentOf(d, c, memo), NoFee, NoFee),
             NEW e, NEW b, IsPayment(ops2, e, b), u = Capped(PaymentOf(e, b, NoMemo), NoFee, NoFee)
      PROVE  /\ u.opts.type = o.opts.type /\ u.opts.sender = o.opts.sender
             /\ u.opts.recipient = o.opts.recipient /\ u.opts.amount = o.opts.amount
             /\ u.opts.what = o.opts.what /\ u.max_fee = o.max_fee
             /\ u.suggested_fee_multiplier = o.suggested_fee_multiplier
  <2>1. /\ {Bare(d), Bare(c)} = {Bare(e), Bare(b)}
        /\ d \in TransferOperations /\ c \in TransferOperations
        /\ e \in TransferOperations /\ b \in TransferOperations
    <3>1. /\ ToSet(Legs(ops1)) = {d, c} /\ ToSet(Legs(ops2)) = {e, b}
          /\ d \in TransferOperations /\ c \in TransferOperations
          /\ e \in TransferOperations /\ b \in TransferOperations
      BY <1>6 DEF IsPayment
    <3>2. {Bare(op) : op \in {d, c}} = {Bare(op) : op \in {e, b}}
      BY <1>1, <3>1
    <3> QED
      BY <3>1, <3>2
  <2>2. /\ d.value \in Int /\ c.value \in Int /\ e.value \in Int /\ b.value \in Int
        /\ d.value < 0 /\ c.value > 0 /\ e.value < 0 /\ b.value > 0
    BY <1>6, <2>1 DEF IsPayment, Pays, TransferOperations
  <2>3. Bare(d) = Bare(e) /\ Bare(c) = Bare(b)
    <3>1. /\ Bare(d).value = d.value /\ Bare(c).value = c.value
          /\ Bare(e).value = e.value /\ Bare(b).value = b.value
      BY <1>2, <2>1
    <3>2. Bare(d) # Bare(b) /\ Bare(c) # Bare(e)
      BY <2>2, <3>1
    <3> QED
      BY <2>1, <3>2
  <2>4. d.account = e.account /\ c.account = b.account /\ c.value = b.value
    BY <1>2, <2>1, <2>3
  <2> QED
    BY <1>6, <2>4 DEF Capped, PaymentOf
<1>7. ASSUME NEW d, IsContract(ops1, d), NEW e, NEW b, IsPayment(ops2, e, b) PROVE FALSE
  <2>1. Bare(e) \in {Bare(op) : op \in {d}}
    BY <1>1, <1>7 DEF IsContract, IsPayment
  <2>2. Bare(e) = Bare(d) /\ d \in ContractOperations /\ e \in TransferOperations
    BY <1>7, <2>1 DEF IsContract, IsPayment
  <2>3. d.type = e.type
    BY <1>2, <2>2
  <2> QED
    BY <2>2, <2>3 DEF ContractOperations, TransferOperations
<1>8. ASSUME NEW d, NEW c, IsPayment(ops1, d, c), NEW e, IsContract(ops2, e) PROVE FALSE
  <2>1. Bare(d) \in {Bare(op) : op \in {e}}
    BY <1>1, <1>8 DEF IsContract, IsPayment
  <2>2. Bare(d) = Bare(e) /\ e \in ContractOperations /\ d \in TransferOperations
    BY <1>8, <2>1 DEF IsContract, IsPayment
  <2>3. d.type = e.type
    BY <1>2, <2>2
  <2> QED
    BY <2>2, <2>3 DEF ContractOperations, TransferOperations
<1>9. \/ \E d : IsContract(ops1, d) /\ o = Capped(ContractOptions(d), NoFee, NoFee)
      \/ \E d, c : IsPayment(ops1, d, c) /\ o = Capped(PaymentOf(d, c, memo), NoFee, NoFee)
  BY DEF Means
<1>10. \/ \E d : IsContract(ops2, d) /\ u = Capped(ContractOptions(d), NoFee, NoFee)
       \/ \E d, c : IsPayment(ops2, d, c) /\ u = Capped(PaymentOf(d, c, NoMemo), NoFee, NoFee)
  BY DEF Means
<1> QED
  BY <1>5, <1>6, <1>7, <1>8, <1>9, <1>10

\* A request of a wallet that makes sense is refused only for what the wallet sent.
THEOREM RefusalsHaveACause == Spec => []RefusedOnlyForCause
<1>1. Inv => RefusedOnlyForCause
  <2> SUFFICES ASSUME Inv, NEW s \in Sessions, stage[s] = "refused",
                      reply[s] \in {"invalidTransaction", "invalidPublicKey"},
                      MakesSense(ask[s].ops),
                      ask[s].maxFee = NoFee, ask[s].multiplier = NoFee
               PROVE  /\ request[s] # None
                      /\ LET fees == FeeOperations(request[s])
                             debtor(x) == \E op \in ToSet(Legs(ask[s].ops)) :
                                            op.account = x /\ (op.value < 0 \/ IsContractLeg(op))
                         IN  \/ ~MakesSense(request[s].ops) \/ ~SameLegs(ask[s].ops, request[s].ops)
                             \/ ~debtor(request[s].key)
                             \/ fees = <<>> \/ ~debtor(fees[1].account) \/ fees[1].value >= 0
                             \/ \E d \in ToSet(Legs(request[s].ops)), e \in ToSet(Legs(ask[s].ops)) :
                                   d.memo # NoMemo /\ Passed(ask[s], request[s], e) \notin {NoMemo, d.memo}
    BY DEF RefusedOnlyForCause
  <2> DEFINE a == ask[s]
             o == options[s]
             m == meta[s]
             r == request[s]
             u == Understood(r)
             fees == FeeOperations(r)
             debtor(x) == \E op \in ToSet(Legs(a.ops)) :
                            op.account = x /\ (op.value < 0 \/ IsContractLeg(op))
  <2>1. Requested(a, o, m, r) /\ PayloadsVerdict(m, r, u) # "ok"
    <3>1. ~(a \in Asks /\ OptionsOf(a) = Invalid)
      <4> SUFFICES ASSUME a \in Asks, OptionsOf(a) = Invalid PROVE FALSE
        OBVIOUS
      <4> HIDE DEF a
      <4>1. Invalid \notin ConstructionOptions
        BY RequestAssumption
      <4> QED
        BY <4>1, AsksAre, OptionsAre DEF OptionsOf, a
    <3> QED
      BY <3>1 DEF Inv, Session, SessionOK
  <2>2. /\ r \in PayloadsRequests /\ fees \in Seq(FeeTypeOperations) /\ m.options = o
        /\ Prepared(a, o) /\ r # None
    BY <2>1, RequestsAre, RequestAssumption DEF Requested, Described
  <2>3. a.maxFee = NoFee /\ a.multiplier = NoFee
    OBVIOUS
  <2>4. \A e : Passed(a, r, e) = FirstOf(r.memo, FirstOf(e.memo, a.memo))
    BY DEF Passed
  <2> HIDE DEF a, o, m, r
  <2>5. /\ Means(a.ops, a.memo, NoFee, NoFee, o) /\ o \in ConstructionOptions
        /\ (u = Invalid /\ ~MakesSense(r.ops)) \/ Means(r.ops, NoMemo, NoFee, NoFee, u)
    <3>1. Means(a.ops, a.memo, NoFee, NoFee, o)
      BY <2>2, <2>3, PreparedIs
    <3>2. r.ops \in Seq(ConstructionOperations) /\ NoMemo \in Memos \cup {NoMemo}
          /\ NoFee \in Int \cup {NoFee}
      BY <2>2 DEF PayloadsRequests
    <3>3. (u = Invalid /\ ~MakesSense(r.ops)) \/ Means(r.ops, NoMemo, NoFee, NoFee, u)
      BY <3>2, Meaning DEF Understood
    <3> QED
      BY <3>1, <3>3 DEF Means
  <2> HIDE DEF u
  <2>6. CASE u = Invalid
    <3>1. ~MakesSense(r.ops)
      BY <2>5, <2>6, RequestAssumption DEF Means
    <3> QED
      BY <2>2, <3>1 DEF r
  <2>7. CASE u # Invalid /\ OptionsDiffer(m, r, u)
    <3>1. ~SameLegs(a.ops, r.ops)
      BY <2>2, <2>5, <2>7, SameLegsAgree
    <3> QED
      BY <2>2, <3>1 DEF a, r
  <2>8. CASE u # Invalid /\ ~OptionsDiffer(m, r, u) /\ MemosConflict(m, r, u)
    <3>1. u.opts.type = o.opts.type
      <4>1. u \in ConstructionOptions
        BY <2>5, <2>8 DEF Means
      <4> QED
        BY <2>2, <2>5, <2>8, <4>1, ComparedAre
    <3>2. u.opts.memo # NoMemo /\ FirstOf(r.memo, o.opts.memo) \notin {NoMemo, u.opts.memo}
      BY <2>2, <2>8 DEF MemosConflict, MetadataMemo
    <3>3. u.opts.type = "token_transfer"
      BY <2>5, <2>8, <3>2, MemoOfLegs
    <3>4. PICK d \in ToSet(Legs(r.ops)) : u.opts.memo = FirstOf(d.memo, NoMemo)
      <4>1. Means(r.ops, NoMemo, NoFee, NoFee, u)
        BY <2>5, <2>8
      <4>2. ToSet(Legs(r.ops)) # {}
            /\ \A d \in ToSet(Legs(r.ops)) : u.opts.memo = FirstOf(d.memo, NoMemo)
        BY <3>3, <4>1, MemoOfLegs
      <4> QED
        BY <4>2
    <3>5. PICK e \in ToSet(Legs(a.ops)) : o.opts.memo = FirstOf(e.memo, a.memo)
      <4>1. ToSet(Legs(a.ops)) # {}
            /\ \A e \in ToSet(Legs(a.ops)) : o.opts.memo = FirstOf(e.memo, a.memo)
        <5>1. Means(a.ops, a.memo, NoFee, NoFee, o) /\ o.opts.type = "token_transfer"
          BY <2>5, <3>1, <3>3
        <5> QED
          BY <5>1, MemoOfLegs
      <4> QED
        BY <4>1
    <3>6. d.memo = u.opts.memo
      BY <3>4 DEF FirstOf
    <3>7. d.memo # NoMemo /\ Passed(a, r, e) \notin {NoMemo, d.memo}
      BY <2>4, <3>2, <3>5, <3>6
    <3> QED
      BY <2>2, <3>7 DEF a, r
  <2>9. CASE u # Invalid /\ ~OptionsDiffer(m, r, u) /\ (r.key # u.opts.sender \/ FeeIsWrong(r, u))
    <3>1. u.opts.sender = o.opts.sender
      <4>1. u \in ConstructionOptions
        BY <2>5, <2>9 DEF Means
      <4> QED
        BY <2>2, <2>5, <2>9, <4>1, ComparedAre
    <3>2. \A x : debtor(x) <=> x = u.opts.sender
      BY <2>5, <3>1, DebtorIs
    <3> HIDE DEF debtor
    <3>3. ~debtor(r.key) \/ fees = <<>> \/ ~debtor(fees[1].account) \/ fees[1].value >= 0
      BY <2>9, <3>2 DEF FeeIsWrong
    <3> QED
      BY <2>2, <3>3 DEF a, r, debtor
  <2> QED
    BY <2>1, <2>6, <2>7, <2>8, <2>9 DEF PayloadsVerdict
<1> QED
  BY <1>1, AlwaysInv, PTL

\* Short lists as sets.
LEMMA ShortLists ==
    ASSUME NEW x, NEW y, NEW z
    PROVE  ToSet(<<x>> \o <<y>>) = {x, y} /\ ToSet(<<x>> \o <<y, z>>) = {x, y, z}
<1> DEFINE S == {x, y, z}
           two == <<x>> \o <<y>>
           three == <<x>> \o <<y, z>>
<1>1. /\ <<x>> \in Seq(S) /\ Len(<<x>>) = 1 /\ <<x>>[1] = x
      /\ <<y>> \in Seq(S) /\ Len(<<y>>) = 1 /\ <<y>>[1] = y
      /\ <<y, z>> \in Seq(S) /\ Len(<<y, z>>) = 2 /\ <<y, z>>[1] = y /\ <<y, z>>[2] = z
  OBVIOUS
<1>2. DOMAIN two = 1..2 /\ two[1] = x /\ two[2] = y
  BY <1>1, ConcatProperties
<1>3. DOMAIN three = 1..3 /\ three[1] = x /\ three[2] = y /\ three[3] = z
  BY <1>1, ConcatProperties
<1> HIDE DEF two, three
<1>4. ToSet(two) = {x, y} /\ ToSet(three) = {x, y, z}
  BY <1>2, <1>3 DEF ToSet
<1> QED
  BY <1>4 DEF two, three

\* What parse shows of the transaction of a request.
LEMMA ParsedIs ==
    ASSUME NEW a, NEW o, NEW m, NEW r, NEW st, NEW t, NEW p, NEW parameters \in Parameters,
           Requested(a, o, m, r), Built(st, m, r, t, p)
    PROVE  Retells(a, r, t, parameters)
<1> DEFINE u == Understood(r)
           memo == parseTransactionMemo(t.memo)
           fee == Fee(t.signer, -t.fee)
           legs == ToSet(Legs(r.ops))
           others == ToSet(Legs(a.ops))
           shown(x) == IF x = EmptyMemo THEN NoMemo ELSE x
           parsed == serializeDecodedTransactionOperations(t, parameters)
           retold(op, e) ==
             CASE ~IsContractLeg(op) -> [op EXCEPT !.memo = shown(Meant(a, r, op, e))]
               [] op.type = "contract_call" /\ parameters = NoAbi -> [op EXCEPT !.what.args = <<>>]
               [] OTHER -> op
           unfit(op) == /\ op.type = "contract_call" /\ parameters # NoAbi
                        /\ parameters = NoFunction \/ parameters < Len(op.what.args)
           Goal == IF \E op \in legs : unfit(op) THEN parsed = Invalid
                   ELSE ToSet(parsed) = {FeeOperations(r)[1]}
                          \cup {retold(op, e) : op \in legs, e \in others}
<1>1. /\ FeeOperations(r)[1] = fee /\ t.fee > 0
      /\ t.signer = u.opts.sender /\ t.type = u.opts.type
      /\ t.recipient = u.opts.recipient /\ t.amount = u.opts.amount /\ t.what = u.opts.what
  BY BuiltIs
<1>2. Means(r.ops, NoMemo, NoFee, NoFee, u)
  BY Agreed
<1>3. others # {}
  BY PreparedIs, MemoOfLegs DEF Requested, Described
<1>4. u.opts.type = "token_transfer" =>
         \A op \in legs, e \in others : t.memo = FirstOf(Meant(a, r, op, e), EmptyMemo)
  BY MemoIs DEF Meant, Passed
<1> HIDE DEF fee, memo, u, others
<1>5. ASSUME NEW d, IsContract(r.ops, d),
             u = Capped(ContractOptions(d), NoFee, NoFee)
      PROVE  Goal
  <2>1. /\ d \in ContractOperations /\ legs = {d} /\ d.type \in {"contract_call", "contract_deploy"}
        /\ d.what \in Whats /\ IsContractLeg(d)
    BY <1>5 DEF IsContract, ContractOperations, IsContractLeg
  <2>2. t.type = d.type /\ t.what = d.what /\ t.signer = d.account
    BY <1>1, <1>5 DEF Capped, ContractOptions
  <2>3. d = Op(t.type, t.signer, 0, NoMemo, t.what)
    BY <2>1, <2>2 DEF ContractOperations, Op
  <2>4. d.what.args \in Seq(Values)
    BY <2>1 DEF Whats
  <2>5. unfit(d) <=> d.type = "contract_call" /\ ~Fits(t.what, parameters)
    BY <2>2, <2>4, AbiAssumption DEF Fits
  <2>6. CASE unfit(d)
    <3>1. parsed = Invalid
      BY <2>1, <2>2, <2>5, <2>6 DEF serializeDecodedTransactionOperations
    <3> QED
      BY <2>1, <2>6, <3>1
  <2>7. CASE ~unfit(d)
    <3> DEFINE x == IF d.type = "contract_call" /\ parameters = NoAbi
                    THEN [d EXCEPT !.what.args = <<>>] ELSE d
    <3>1. \A e : retold(d, e) = x
      BY <2>1
    <3>2. parsed = <<fee>> \o <<x>>
      <4>1. CASE d.type = "contract_deploy"
        BY <1>1, <2>2, <2>3, <4>1 DEF serializeDecodedTransactionOperations, fee
      <4>2. CASE d.type = "contract_call"
        <5>1. Fits(t.what, parameters)
          BY <2>5, <2>7, <4>2
        <5>2. parsed = <<fee>> \o <<Op(t.type, t.signer, 0, NoMemo, Labelled(t.what, parameters))>>
          BY <1>1, <2>2, <4>2, <5>1 DEF serializeDecodedTransactionOperations, fee
        <5>3. Op(t.type, t.signer, 0, NoMemo, Labelled(t.what, parameters)) = x
          <6>1. CASE parameters # NoAbi
            BY <2>3, <6>1 DEF Labelled
          <6>2. CASE parameters = NoAbi
            <7>1. x = [d EXCEPT !.what = [d.what EXCEPT !.args = <<>>]]
              BY <4>2, <6>2
            <7> HIDE DEF x
            <7>2. x = Op(t.type, t.signer, 0, NoMemo, [t.what EXCEPT !.args = <<>>])
              BY <2>2, <2>3, <7>1 DEF Op
            <7> QED
              BY <6>2, <7>2 DEF Labelled
          <6> QED
            BY <6>1, <6>2
        <5> QED
          BY <5>2, <5>3
      <4> QED
        BY <2>1, <4>1, <4>2
    <3> HIDE DEF x
    <3>3. ToSet(parsed) = {fee, x}
      BY <3>2, ShortLists
    <3> HIDE DEF retold, parsed, unfit
    <3>4. {retold(op, e) : op \in legs, e \in others} = {x}
      BY <1>3, <2>1, <3>1
    <3>5. ~(\E op \in legs : unfit(op))
      BY <2>1, <2>7
    <3>6. {fee, x} = {fee} \cup {x}
      OBVIOUS
    <3> QED
      BY <1>1, <3>3, <3>4, <3>5, <3>6
  <2> QED
    BY <2>6, <2>7
<1>6. ASSUME NEW d, NEW c, IsPayment(r.ops, d, c),
             u = Capped(PaymentOf(d, c, NoMemo), NoFee, NoFee)
      PROVE  Goal
  <2>1. /\ d \in TransferOperations /\ c \in TransferOperations /\ Pays(d, c)
        /\ legs = {d, c} /\ u.opts = PaymentOf(d, c, NoMemo)
    BY <1>6 DEF IsPayment, Capped
  <2>2. u.opts.type = "token_transfer" /\ t.type = "token_transfer"
    BY <1>1, <2>1 DEF PaymentOf
  <2>3. \A op \in legs, e \in others : memo = shown(Meant(a, r, op, e))
    BY <1>4, <2>2, MemoAssumption DEF memo, parseTransactionMemo, Meant, FirstOf
  <2>4. \A op \in legs : op.type = "token_transfer" /\ ~IsContractLeg(op)
    BY <2>1 DEF TransferOperations, IsContractLeg
  <2>5. \A op \in legs, e \in others : retold(op, e) = [op EXCEPT !.memo = memo]
    BY <2>3, <2>4
  <2>6. ~(\E op \in legs : unfit(op))
    BY <2>4
  <2> DEFINE x == Transfer(t.signer, -t.amount, memo)
             y == Transfer(t.recipient, t.amount, memo)
  <2>7. [d EXCEPT !.memo = memo] = x /\ [c EXCEPT !.memo = memo] = y
    <3>1. t.amount = c.value /\ d.value \in Int /\ c.value \in Int /\ d.value + c.value = 0
          /\ t.signer = d.account /\ t.recipient = c.account
      BY <1>1, <2>1 DEF PaymentOf, Pays, TransferOperations
    <3>2. -t.amount = d.value
      BY <3>1
    <3>3. /\ [d EXCEPT !.memo = memo] = Op("token_transfer", d.account, d.value, memo, NoWhat)
          /\ [c EXCEPT !.memo = memo] = Op("token_transfer", c.account, c.value, memo, NoWhat)
      BY <2>1 DEF TransferOperations, Op
    <3> QED
      BY <3>1, <3>2, <3>3 DEF Transfer
  <2>8. parsed = <<fee>> \o <<x, y>>
    BY <1>1, <2>2 DEF serializeDecodedTransactionOperations, fee, memo
  <2> HIDE DEF x, y, parsed
  <2>9. ToSet(parsed) = {fee, x, y}
    BY <2>8, ShortLists
  <2> HIDE DEF retold, unfit
  <2>10. {retold(op, e) : op \in legs, e \in others} = {x, y}
    <3>1. \A e \in others : retold(d, e) = x /\ retold(c, e) = y
      BY <2>1, <2>5, <2>7
    <3> QED
      BY <1>3, <2>1, <3>1
  <2>11. {fee, x, y} = {fee} \cup {x, y}
    OBVIOUS
  <2> QED
    BY <1>1, <2>6, <2>9, <2>10, <2>11
<1>7. Goal
  <2> HIDE DEF Goal
  <2> QED
    BY <1>2, <1>5, <1>6 DEF Means
<1> QED
  BY <1>7 DEF others, Retells

\* Parse tells the operations that the wallet sent, but for arguments without an ABI.
THEOREM RequestsAreRetold == Spec => []ParseTellsTheRequest
<1>1. Inv => ParseTellsTheRequest
  <2> SUFFICES ASSUME Inv, NEW s \in Sessions, NEW parameters \in Parameters, HasTransaction(s)
               PROVE  Retells(ask[s], request[s], tx[s], parameters)
    BY DEF ParseTellsTheRequest
  <2>1. /\ Requested(ask[s], options[s], meta[s], request[s])
        /\ Built(stage[s], meta[s], request[s], tx[s], payload[s])
    BY DEF Inv, Session, SessionOK, HasTransaction
  <2> QED
    BY <2>1, ParsedIs
<1> QED
  BY <1>1, AlwaysInv, PTL

\* A signature is not nothing.
LEMMA SignatureIs ==
    ASSUME NEW a, NEW o, NEW m, NEW r, NEW st, NEW t, NEW p,
           Requested(a, o, m, r), Built(st, m, r, t, p), st # "unsigned"
    PROVE  t.signature \in Signatures
<1> DEFINE u == Understood(r)
           memo == FirstOf(ResolvedMemo(m, r, u), EmptyMemo)
<1>1. /\ r \in PayloadsRequests /\ FeeOperations(r) \in Seq(FeeTypeOperations) /\ m.options = o
      /\ o \in ConstructionOptions /\ m.nonce \in 0..MaxNonce
  BY RequestsAre DEF Requested, Described, Prepared
<1>2. u \in ConstructionOptions
  <2>1. u # Invalid
    BY DEF Built, PayloadsVerdict
  <2>2. r.ops \in Seq(ConstructionOperations)
    BY <1>1 DEF PayloadsRequests
  <2> QED
    BY <2>1, <2>2, OptionsAre DEF Understood
<1>3. u.opts \in [type : TxTypes, sender : Accounts, recipient : Accounts \cup {NoAccount},
                  amount : Nat, memo : Memos \cup {NoMemo}, what : Whats \cup {NoWhat}]
  BY <1>2 DEF ConstructionOptions
<1>4. memo \in Memos
  <2>1. r.memo \in Memos \cup {NoMemo} /\ m.options.opts.memo \in Memos \cup {NoMemo}
    BY <1>1 DEF PayloadsRequests, ConstructionOptions
  <2> QED
    BY <1>3, <2>1, MemoAssumption DEF ResolvedMemo, MetadataMemo, FirstOf
<1>5. r.key \in Accounts /\ u.opts.sender = r.key /\ FeeOf(r) \in Nat
  <2>1. /\ r.key = u.opts.sender /\ FeeOperations(r) # <<>>
        /\ ~(FeeOperations(r)[1].value >= 0)
    BY DEF Built, PayloadsVerdict, FeeIsWrong
  <2>2. FeeOperations(r)[1] \in FeeTypeOperations
    BY <1>1, <2>1
  <2>3. FeeOperations(r)[1].value \in Int
    BY <2>2 DEF FeeTypeOperations
  <2> QED
    BY <1>1, <2>1, <2>3 DEF PayloadsRequests, FeeOf, Abs
<1>6. PICK n \in UnsignedNonces(m, u.opts.type) :
        /\ p = PayloadOf(m, r, UnsignedOf(m, r, n))
        /\ t = IF st = "unsigned" THEN UnsignedOf(m, r, n)
               ELSE [UnsignedOf(m, r, n) EXCEPT !.signature = SignatureOf(p)]
  BY DEF Built
<1> DEFINE x == UnsignedOf(m, r, n)
<1>7. x = [signer |-> r.key, type |-> u.opts.type, recipient |-> u.opts.recipient,
           amount |-> u.opts.amount, memo |-> memo,
           what |-> u.opts.what, fee |-> FeeOf(r), nonce |-> n, signature |-> None]
  BY DEF UnsignedOf, Transaction
<1>8. t = [x EXCEPT !.signature = SignatureOf(p)]
  BY <1>6
<1>9. p = [address |-> r.key, hash |-> SigHash(x, FeeOf(r), m.nonce)]
  BY <1>5, <1>6 DEF PayloadOf
<1> HIDE DEF x, u, memo
<1>10. SigHash(x, FeeOf(r), m.nonce) \in
         [body : UnsignedTransactions, fee : Nat, nonce : Nat]
  <2>1. m.nonce \in Nat /\ n \in Nat
    BY <1>1, <1>6, FeeAssumption DEF UnsignedNonces
  <2>2. x \in UnsignedTransactions
    BY <1>3, <1>4, <1>5, <1>7, <2>1 DEF UnsignedTransactions
  <2>3. [x EXCEPT !.fee = 0, !.nonce = 0, !.signature = None] \in UnsignedTransactions
    BY <2>2 DEF UnsignedTransactions
  <2> QED
    BY <1>5, <2>1, <2>3 DEF SigHash
<1>11. t.signature = SignatureOf(p)
  BY <1>7, <1>8
<1> QED
  BY <1>5, <1>9, <1>10, <1>11 DEF SignatureOf, reorderSignatureToVrs, Signatures

\* What the variables hold at every stage.
THEOREM AlwaysTypeOK == Spec => []TypeOK
<1>1. Inv => TypeOK
  <2> SUFFICES ASSUME Inv PROVE TypeOK
    OBVIOUS
  <2>1. ASSUME NEW s \in Sessions
        PROVE  stage[s] = "idle" <=> ask[s] = None
    <3>1. None \notin Asks
      BY RequestAssumption
    <3> QED
      BY <3>1 DEF Inv, Session, SessionOK, Requested, Described, Prepared
  <2>2. ASSUME NEW s \in Sessions, stage[s] \in {"unsigned", "signed", "submitted"}
        PROVE  /\ tx[s].nonce \in 0..MaxNonce /\ tx[s].fee \in Nat \ {0}
               /\ (tx[s].signature = None) <=> (stage[s] = "unsigned")
    <3>1. /\ Requested(ask[s], options[s], meta[s], request[s])
          /\ Built(stage[s], meta[s], request[s], tx[s], payload[s])
      BY <2>2 DEF Inv, Session, SessionOK
    <3>2. stage[s] # "unsigned" => tx[s].signature \in Signatures
      BY <3>1, SignatureIs
    <3>3. None \notin Signatures
      BY RequestAssumption
    <3>4. /\ tx[s].nonce \in 0..MaxNonce /\ tx[s].fee \in Nat \ {0}
          /\ stage[s] = "unsigned" => tx[s].signature = None
      BY <3>1, BuiltIs
    <3> QED
      BY <3>2, <3>3, <3>4
  <2>3. ASSUME NEW s \in Sessions, stage[s] = "described" PROVE meta[s].nonce \in 0..MaxNonce
    <3>1. Described(ask[s], options[s], meta[s])
      BY <2>3 DEF Inv, Session, SessionOK
    <3> QED
      BY <3>1 DEF Described
  <2>4. /\ nonce \in [Accounts -> 0..MaxNonce]
        /\ stage \in [Sessions -> {"idle", "preprocessed", "described", "unsigned",
                                   "signed", "submitted", "refused"}]
        /\ ask \in [Sessions -> Asks \cup {None}]
    BY DEF Inv, Stages
  <2>5. \A s \in Sessions :
          /\ stage[s] = "idle" <=> ask[s] = None
          /\ stage[s] \in {"unsigned", "signed", "submitted"} =>
               /\ tx[s].nonce \in 0..MaxNonce /\ tx[s].fee \in Nat \ {0}
               /\ (tx[s].signature = None) <=> (stage[s] = "unsigned")
          /\ stage[s] = "described" => meta[s].nonce \in 0..MaxNonce
    BY <2>1, <2>2, <2>3
  <2> QED
    BY <2>4, <2>5 DEF TypeOK
<1> QED
  BY <1>1, AlwaysInv, PTL
=============================================================================
