----------------------------- MODULE Responses ------------------------------
(***************************************************************************)
(* What /block and /network/status make of the node's data, and what of it *)
(* reaches the client: the response schema decides.  An operation, a       *)
(* post-condition or the metadata of a transaction that has a field of     *)
(* another type, or lacks one, makes the whole answer an error; a field    *)
(* that its schema does not name is dropped.  What a serializer does not   *)
(* know makes it throw.  A contract call, the first operation of a block   *)
(* that has one, is written with the help of its contract's ABI, as the    *)
(* cache holds it.                                                         *)
(*                                                                         *)
(* External: the node with the contract of its branch and its neighbours,  *)
(* the codec with the fields that its events may lack, and lru-cache.      *)
(***************************************************************************)
EXTENDS Naturals, Sequences, Filters

CONSTANTS
    Functions,   \* names of functions of one contract
    ABIs,        \* what the contract of a branch may have: function -> parameters
    Calls,       \* contract calls in blocks: function, number of arguments
    NeighborEntries,  \* entries of the node's lists of neighbours: a key and an address
    Neighbors,   \* what the node may answer to GET /v2/neighbors: its four lists
    MaxItems,    \* bound on what a block has beside a contract call
    NoAbi, NoEntry, NoCall

ASSUME AbiAssumption ==
    /\ \A abi \in ABIs : DOMAIN abi \subseteq Functions /\ \A f \in DOMAIN abi : abi[f] \in Nat
    /\ Calls \subseteq [function : Functions, args : Nat]
    /\ NoAbi \notin ABIs /\ NoCall \notin Calls /\ MaxItems \in Nat
    /\ Neighbors \subseteq
         [{"bootstrap", "sample", "inbound", "outbound"} -> Seq(NeighborEntries)]

VARIABLES
    deployed,  \* the contract of the node's branch, or none
    entry,     \* the cache's entry of the contract: its ABI, whether it has expired
    stage,     \* "idle", "prefetch", "prefetching", "abi", "fetching", "events", "answered"
    wire,      \* the answers of the node under way, at most one
    call,      \* the contract call of the block, or none
    abi,       \* what the cache answered
    part,      \* the part of the block that was serialized last
    objects,   \* the operations, post-conditions and metadata that the handler has of it
    neighbors, \* what the node answered
    reply

block == <<call, abi, part, objects>>
vars  == <<deployed, entry, stage, wire, block, neighbors, reply>>

-----------------------------------------------------------------------------
(* What the serializers write: each field with its conversion.             *)

Fields(kind, names) == [field : names, kind : {kind}]

Account == Fields("account", {"account"})
Amount == Account \cup Fields("amount", {"amount"})
Cycles == Fields("parseIntOrNull", {"start_cycle_id", "end_cycle_id"})
Pox4(fields) ==
    Fields("same", {"locked", "balance"}) \cup Fields("parseInt", {"burnchain_unlock_height"})
    \cup fields
Pox5(parsed, fields) ==
    Amount \cup Fields("same", {"signer"}) \cup Fields("parseInt", parsed) \cup fields

makeSyntheticPox4Operation ==
    [delegate_stx |-> Pox4(Amount \cup Cycles \cup Fields("same", {"delegate_to"})
                           \cup Fields("parseIntOrNull", {"unlock_burn_height"})),
     delegate_stack_stx |-> Pox4(Amount \cup Cycles \cup Fields("same", {"delegator", "lock_period"})
                                 \cup Fields("parseIntOrNull", {"burnchain_start_height"})),
     delegate_stack_increase |-> Pox4(Amount \cup Cycles \cup Fields("same", {"delegator"})),
     revoke_delegate_stx |-> Pox4(Account \cup Cycles \cup Fields("same", {"delegate_to"})
                                  \cup Fields("sameOrAbsent", {"pox_addr", "pox_addr_raw"})),
     stack_aggregation_increase |-> Pox4(Amount \cup Cycles \cup Fields("parseInt", {"reward_cycle"})),
     stack_aggregation_commit |-> Pox4(Amount \cup Cycles \cup Fields("parseInt", {"reward_cycle"})
                                       \cup Fields("same", {"signer_key"})),
     stack_aggregation_commit_indexed |->
         Pox4(Amount \cup Cycles \cup Fields("parseInt", {"reward_cycle"})
              \cup Fields("same", {"signer_key"})),
     delegate_stack_extend |-> Pox4(Account \cup Cycles \cup Fields("same", {"delegator"})
                                    \cup Fields("parseInt", {"extend_count"})),
     handle_unlock |-> Pox4(Account \cup Fields("parseInt", {"first_cycle_locked",
                                                           "first_unlocked_cycle"})),
     stack_stx |-> Pox4(Amount \cup Cycles \cup Fields("same", {"signer_key"})
                        \cup Fields("parseInt", {"lock_period", "burnchain_start_height"})),
     stack_increase |-> Pox4(Amount \cup Cycles \cup Fields("same", {"signer_key"})),
     stack_extend |-> Pox4(Account \cup Cycles \cup Fields("parseInt", {"extend_count"}))]

makeSyntheticPox5Operation ==
    [stake |-> Pox5({"num_cycles", "first_reward_cycle", "unlock_burn_height", "unlock_cycle"},
                    {}),
     stake_update |-> Pox5({"num_cycles", "cycles_to_extend", "prev_unlock_height",
                            "unlock_burn_height", "unlock_cycle"},
                           Fields("same", {"old_signer", "amount_increase"})),
     unstake |-> Pox5({"first_reward_cycle", "unlock_cycle", "unlock_burn_height"}, {}),
     register_for_bond |-> Pox5({"bond_index", "first_reward_cycle", "unlock_burn_height",
                                 "unlock_cycle"},
                                Fields("same", {"sats_total"}) \cup Fields("boolean", {"is_l1_lock"}))]

\* Of payloads and of plain events; tokens is a transfer of other tokens than STX.
serializeStacksTransactionOperations ==
    [fee |-> Amount \cup Fields("boolean", {"sponsored"}),
     coinbase |-> Account \cup Fields("same", {"alt_recipient", "vrf_proof"}),
     token_transfer |-> Amount \cup Fields("same", {"memo"}),
     tokens |-> Amount,
     token_mint |-> Amount,
     token_burn |-> Amount,
     contract_deploy |-> Account \cup Fields("same", {"contract_identifier", "source_code"})
                         \cup Fields("integer", {"clarity_version"}),
     tenure_change |-> Fields("same", {"tenure_consensus_hash", "prev_tenure_consensus_hash",
                                       "burn_view_consensus_hash", "previous_tenure_end",
                                       "pubkey_hash"})
                       \cup Fields("integer", {"previous_tenure_blocks"})
                       \cup Fields("cause", {"cause"}),
     stx_lock |-> Amount \cup Fields("same", {"locked_address", "contract_name"})
                  \cup Fields("parseInt", {"unlock_height"}),
     contract_log |-> Fields("same", {"contract_identifier", "topic"})
                      \cup Fields("clarity", {"value"})]

Condition(code) == Fields(code, {"condition_code"}) \cup Fields("principal", {"principal"})
serializePostCondition ==
    [stx |-> Condition("fungible_code") \cup Fields("same", {"amount"}),
     fungible |-> Condition("fungible_code") \cup Fields("same", {"amount"})
                  \cup Fields("asset", {"asset"}),
     non_fungible |-> Condition("nonfungible_code") \cup Fields("asset", {"asset"})
                      \cup Fields("clarity_value", {"asset_value"}),
     staking |-> Condition("fungible_code") \cup Fields("same", {"amount"}),
     pox |-> Condition("pox_code")]

\* The metadata of a transaction; what its result decodes to is an object of its own.
serializeReplayedNakamotoTransaction ==
    [transaction |-> Fields("status", {"status"}) \cup Fields("tx_type", {"type"})
                     \cup Fields("boolean", {"sponsored", "canonical"})
                     \cup Fields("cost", {"execution_cost"}) \cup Fields("position", {"position"})
                     \cup Fields("parseInt", {"nonce"})
                     \cup Fields("same", {"fee_rate", "raw_tx", "sender_address",
                                         "sponsor_address", "vm_error", "result_hex",
                                         "result_repr", "result_type"})
                     \cup Fields("conditions", {"post_conditions"})]

Types == DOMAIN makeSyntheticPox4Operation \cup DOMAIN makeSyntheticPox5Operation
         \cup DOMAIN serializeStacksTransactionOperations \cup DOMAIN serializePostCondition
         \cup DOMAIN serializeReplayedNakamotoTransaction
Written(type) ==
    IF type \in DOMAIN makeSyntheticPox4Operation THEN makeSyntheticPox4Operation[type]
    ELSE IF type \in DOMAIN makeSyntheticPox5Operation THEN makeSyntheticPox5Operation[type]
    ELSE IF type \in DOMAIN serializePostCondition THEN serializePostCondition[type]
    ELSE IF type \in DOMAIN serializeReplayedNakamotoTransaction
         THEN serializeReplayedNakamotoTransaction[type]
    ELSE serializeStacksTransactionOperations[type]

\* The fields that the node or the codec may leave out or null.  Neither is part of the
\* repository: these are the fields that a serializer asks about (?? null, == null), and
\* those that it hands on to a schema with a null.
MayLack(w) ==
    \/ w.kind \in {"parseIntOrNull", "sameOrAbsent"}
    \/ w.field \in {"signer_key", "alt_recipient", "vrf_proof", "memo", "sponsor_address",
                    "vm_error"}
Lacking(type) == {w.field : w \in {v \in Written(type) : MayLack(v)}}
\* Parts of a block; a tenure change may have a cause, a transaction a payload or a
\* result, that no serializer knows.
Items ==
    UNION {[type : {type}, lacks : SUBSET Lacking(type),
            unknown : IF type \in {"tenure_change", "transaction"} THEN BOOLEAN ELSE {FALSE}] :
               type \in Types}
NoPart == [type |-> "none", lacks |-> {}, unknown |-> FALSE]

\* Mutant: a field is parsed without asking whether it is there.
ParsedUnasked(conversion, lacks) ==
    CASE conversion \in {"parseInt", "parseIntOrNull"} -> IF lacks THEN "NaN" ELSE "integer"
      [] conversion = "same" -> IF lacks THEN "null" ELSE "string"
      [] conversion = "sameOrAbsent" -> IF lacks THEN "absent" ELSE "string"
      [] OTHER -> conversion
\* What becomes of a field, and of one that is not there.
Converted(conversion, lacks) ==
    CASE conversion = "parseInt" -> IF lacks THEN "NaN" ELSE "integer"
      [] conversion = "parseIntOrNull" -> IF lacks THEN "null" ELSE "integer"
      [] conversion = "same" -> IF lacks THEN "null" ELSE "string"
      [] conversion = "sameOrAbsent" -> IF lacks THEN "absent" ELSE "string"
      [] OTHER -> conversion

TypeOf(item) == IF item.type = "tokens" THEN "token_transfer" ELSE item.type
\* An undefined field is no field of the JSON.
Has(item) ==
    {h \in {[field |-> w.field, kind |-> Converted(w.kind, w.field \in item.lacks)] :
                w \in Written(item.type)} :
        h.kind # "absent"}
Object(item) == [type |-> TypeOf(item), has |-> Has(item)]
ContractCall ==
    [type |-> "contract_call",
     has |-> Account \cup Fields("args", {"args"})
             \cup Fields("string", {"contract_identifier", "function_name"})]

-----------------------------------------------------------------------------
(* What the response schema takes: each field with its types.              *)

Takes(kinds, names) == [field : names, kinds : {kinds}]
Some(kind, names) == Takes({kind}, names)
Nullable(kind, names) == Takes({kind, "null"}, names)
Optional(kind, names) == Takes({kind, "absent"}, names)

BaseAccountOperation == Some("account", {"account"})
BaseAmountOperation == BaseAccountOperation \cup Some("amount", {"amount"})
NullableCycles == Nullable("integer", {"start_cycle_id", "end_cycle_id"})

\* Mutant: the PoX address is not part of the metadata.
MetadataWithoutPoxAddr ==
    Some("string", {"locked", "balance"}) \cup Some("integer", {"burnchain_unlock_height"})
BasePoxOperationMetadata ==
    Some("string", {"locked", "balance"}) \cup Some("integer", {"burnchain_unlock_height"})
    \cup Optional("string", {"pox_addr", "pox_addr_raw"})

PoxAmount == BaseAmountOperation \cup BasePoxOperationMetadata
PoxAccount == BaseAccountOperation \cup BasePoxOperationMetadata
Pox4OperationSchemas ==
    [delegate_stx |-> PoxAmount \cup NullableCycles \cup Some("string", {"delegate_to"})
                      \cup Nullable("integer", {"unlock_burn_height"}),
     delegate_stack_stx |-> PoxAmount \cup NullableCycles
                            \cup Some("string", {"lock_period", "delegator"})
                            \cup Nullable("integer", {"burnchain_start_height"}),
     revoke_delegate_stx |-> PoxAccount \cup NullableCycles \cup Some("string", {"delegate_to"}),
     delegate_stack_increase |-> PoxAmount \cup NullableCycles \cup Some("string", {"delegator"}),
     stack_aggregation_increase |-> PoxAmount \cup NullableCycles
                                    \cup Some("integer", {"reward_cycle"}),
     stack_aggregation_commit |-> PoxAmount \cup NullableCycles
                                  \cup Some("integer", {"reward_cycle"})
                                  \cup Nullable("string", {"signer_key"}),
     stack_aggregation_commit_indexed |-> PoxAmount \cup NullableCycles
                                          \cup Some("integer", {"reward_cycle"})
                                          \cup Nullable("string", {"signer_key"}),
     delegate_stack_extend |-> PoxAccount \cup NullableCycles \cup Some("integer", {"extend_count"})
                               \cup Some("string", {"delegator"}),
     handle_unlock |-> PoxAccount
                       \cup Some("integer", {"first_cycle_locked", "first_unlocked_cycle"}),
     stack_stx |-> PoxAmount \cup NullableCycles
                   \cup Some("integer", {"lock_period", "burnchain_start_height"})
                   \cup Nullable("string", {"signer_key"}),
     stack_increase |-> PoxAmount \cup NullableCycles \cup Nullable("string", {"signer_key"}),
     stack_extend |-> PoxAccount \cup NullableCycles \cup Some("integer", {"extend_count"})]

Pox5OperationSchemas ==
    [stake |-> BaseAmountOperation \cup Some("string", {"signer"})
               \cup Some("integer", {"num_cycles", "first_reward_cycle", "unlock_burn_height",
                                   "unlock_cycle"}),
     stake_update |-> BaseAmountOperation
                      \cup Some("string", {"signer", "old_signer", "amount_increase"})
                      \cup Some("integer", {"num_cycles", "cycles_to_extend",
                                          "prev_unlock_height", "unlock_burn_height",
                                          "unlock_cycle"}),
     unstake |-> BaseAmountOperation \cup Some("string", {"signer"})
                 \cup Some("integer", {"first_reward_cycle", "unlock_cycle", "unlock_burn_height"}),
     register_for_bond |-> BaseAmountOperation \cup Some("string", {"signer", "sats_total"})
                           \cup Some("integer", {"bond_index", "first_reward_cycle",
                                               "unlock_burn_height", "unlock_cycle"})
                           \cup Some("boolean", {"is_l1_lock"})]

TransactionOperationSchemas ==
    [coinbase |-> BaseAccountOperation \cup Nullable("string", {"alt_recipient", "vrf_proof"}),
     fee |-> BaseAmountOperation \cup Some("boolean", {"sponsored"}),
     token_transfer |-> BaseAmountOperation \cup Takes({"string", "null", "absent"}, {"memo"}),
     token_mint |-> BaseAmountOperation,
     token_burn |-> BaseAmountOperation,
     contract_call |-> BaseAccountOperation \cup Takes({"args", "string", "null"}, {"args"})
                       \cup Some("string", {"contract_identifier", "function_name"}),
     contract_deploy |-> BaseAccountOperation \cup Some("string", {"contract_identifier"})
                         \cup Nullable("integer", {"clarity_version"})
                         \cup Optional("string", {"source_code", "abi"}),
     tenure_change |-> Some("string", {"tenure_consensus_hash", "prev_tenure_consensus_hash",
                                       "burn_view_consensus_hash", "previous_tenure_end",
                                       "pubkey_hash"})
                       \cup Some("integer", {"previous_tenure_blocks"}) \cup Some("cause", {"cause"}),
     stx_lock |-> BaseAmountOperation \cup Some("integer", {"unlock_height"})
                  \cup Some("string", {"locked_address", "contract_name"}),
     contract_log |-> Some("string", {"contract_identifier", "topic"})
                      \cup Takes({"string", "clarity"}, {"value"})]

ConditionSchema(code) == Some(code, {"condition_code"}) \cup Some("principal", {"principal"})
PostConditionSchema ==
    [stx |-> ConditionSchema("fungible_code") \cup Some("string", {"amount"}),
     fungible |-> ConditionSchema("fungible_code") \cup Some("string", {"amount"})
                  \cup Some("asset", {"asset"}),
     non_fungible |-> ConditionSchema("nonfungible_code") \cup Some("asset", {"asset"})
                      \cup Some("clarity_value", {"asset_value"}),
     staking |-> ConditionSchema("fungible_code") \cup Some("string", {"amount"}),
     pox |-> ConditionSchema("pox_code")]

\* A result is a string, or the object of these two.
TransactionMetadataSchema ==
    [transaction |-> Some("boolean", {"canonical", "sponsored"})
                     \cup Optional("boolean", {"microblock_canonical"})
                     \cup Some("cost", {"execution_cost"}) \cup Some("position", {"position"})
                     \cup Some("string", {"fee_rate", "sender_address", "result_hex",
                                         "result_repr"})
                     \cup Optional("string", {"raw_tx"})
                     \cup Nullable("string", {"sponsor_address", "vm_error"})
                     \cup Some("integer", {"nonce"}) \cup Some("tx_type", {"type"})
                     \cup Some("status", {"status"})
                     \cup Optional("conditions", {"post_conditions"})]

\* A union: the branch of an object is that of its type literal.
SchemaTypes == DOMAIN Pox4OperationSchemas \cup DOMAIN Pox5OperationSchemas
               \cup DOMAIN TransactionOperationSchemas \cup DOMAIN PostConditionSchema
               \cup DOMAIN TransactionMetadataSchema
Schema(type) ==
    IF type \in DOMAIN Pox4OperationSchemas THEN Pox4OperationSchemas[type]
    ELSE IF type \in DOMAIN Pox5OperationSchemas THEN Pox5OperationSchemas[type]
    ELSE IF type \in DOMAIN PostConditionSchema THEN PostConditionSchema[type]
    ELSE IF type \in DOMAIN TransactionMetadataSchema THEN TransactionMetadataSchema[type]
    ELSE TransactionOperationSchemas[type]

FitsSchema(o) ==
    /\ o.type \in SchemaTypes
    /\ \A s \in Schema(o.type) :
          /\ \A h \in o.has : h.field = s.field => h.kind \in s.kinds
          /\ "absent" \in s.kinds \/ \E h \in o.has : h.field = s.field
\* What is written of it: the fields that the branch names.
Shown(o) == {h \in o.has : \E s \in Schema(o.type) : s.field = h.field}

Error == [ok |-> FALSE, shown |-> <<>>, peers |-> <<>>]
BlockAnswer ==
    IF \A i \in DOMAIN objects : FitsSchema(objects[i])
    THEN [ok |-> TRUE, shown |-> [i \in DOMAIN objects |-> Shown(objects[i])], peers |-> <<>>]
    ELSE Error

-----------------------------------------------------------------------------
(* /network/status: the neighbours, each once.                             *)

NoNeighbors == <<>>
Listed(lists, group) == [k \in DOMAIN lists[group] |-> [peer |-> lists[group][k], type |-> group]]
\* The entries of neighborGroups, in the order of the two loops.
Entries(lists) ==
    Listed(lists, "bootstrap") \o Listed(lists, "sample")
    \o Listed(lists, "inbound") \o Listed(lists, "outbound")
NewPeer(e) == [peer_id |-> e.peer.key, ip |-> e.peer.ip, type |-> <<e.type>>]

\* Mutant: a neighbour of several lists is shown with the last of them.
LastListWins(peers, e) ==
    SelectSeq(peers, LAMBDA p : p.peer_id # e.peer.key) \o <<NewPeer(e)>>
AddPeer(peers, e) ==
    IF \E i \in DOMAIN peers : peers[i].peer_id = e.peer.key
    THEN [i \in DOMAIN peers |-> IF peers[i].peer_id = e.peer.key
                                 THEN [peers[i] EXCEPT !.type = Append(@, e.type)]
                                 ELSE peers[i]]
    ELSE Append(peers, NewPeer(e))
Peers(lists) ==
    LET entries == Entries(lists)
        shown[n \in 0..Len(entries)] ==
            IF n = 0 THEN <<>> ELSE AddPeer(shown[n - 1], entries[n])
    IN  shown[Len(entries)]

Status ==
    /\ stage = "idle"
    /\ neighbors' \in Neighbors
    /\ stage' = "answered"
    /\ reply' = [ok |-> TRUE, shown |-> <<>>, peers |-> Peers(neighbors')]
    /\ UNCHANGED <<deployed, entry, wire, block>>

-----------------------------------------------------------------------------
(* /block: the ABI is looked up twice, to warm the cache and to be used.   *)

AskBlock(c) ==
    /\ stage = "idle"
    /\ call' = c /\ abi' = NoAbi /\ part' = NoPart /\ objects' = <<>>
    /\ stage' = IF c = NoCall THEN "events" ELSE "prefetch"
    /\ UNCHANGED <<deployed, entry, wire, neighbors, reply>>

Waiting == [prefetch |-> "prefetching", abi |-> "fetching"]
\* What follows a lookup that answered found.
Found(found) ==
    IF stage \in {"prefetch", "prefetching"}
    THEN stage' = "abi" /\ UNCHANGED <<abi, objects, reply>>
    ELSE /\ abi' = found
         /\ IF found = NoAbi \/ (call.function \in DOMAIN found
                                  /\ call.args <= found[call.function])
            THEN stage' = "events" /\ objects' = <<ContractCall>> /\ UNCHANGED reply
            ELSE stage' = "answered" /\ reply' = Error /\ UNCHANGED objects

\* Mutant: an expired entry stays where it is.
StaleStays ==
    /\ stage \in {"prefetch", "abi"}
    /\ IF entry # NoEntry THEN Found(entry.abi)
       ELSE stage' = Waiting[stage] /\ UNCHANGED <<abi, objects, reply>>
    /\ UNCHANGED <<deployed, entry, wire, call, part, neighbors>>
\* contractAbiCache.get: an expired entry is answered once more and deleted.
Lookup ==
    /\ stage \in {"prefetch", "abi"}
    /\ IF entry # NoEntry
       THEN Found(entry.abi) /\ entry' = IF entry.expired THEN NoEntry ELSE entry
       ELSE stage' = Waiting[stage] /\ UNCHANGED <<entry, abi, objects, reply>>
    /\ UNCHANGED <<deployed, wire, call, part, neighbors>>

\* GET /v2/contracts/interface, as of now.
NodeAnswers ==
    /\ stage \in {"prefetching", "fetching"} /\ wire = <<>> /\ deployed # NoAbi
    /\ wire' = <<deployed>>
    /\ UNCHANGED <<deployed, entry, stage, block, neighbors, reply>>

Fetched ==
    /\ stage \in {"prefetching", "fetching"} /\ wire # <<>>
    /\ entry' = [abi |-> wire[1], expired |-> FALSE] /\ wire' = <<>>
    /\ Found(wire[1])
    /\ UNCHANGED <<deployed, call, part, neighbors>>

\* The node is down, or has no such contract: null.
FetchFails ==
    /\ stage \in {"prefetching", "fetching"}
    /\ wire' = <<>>
    /\ Found(NoAbi)
    /\ UNCHANGED <<deployed, entry, call, part, neighbors>>

Serialize(item) ==
    /\ stage = "events"
    /\ Len(objects) < MaxItems + (IF call = NoCall THEN 0 ELSE 1)
    /\ part' = item
    /\ IF item.unknown
       THEN stage' = "answered" /\ reply' = Error /\ UNCHANGED objects
       ELSE objects' = Append(objects, Object(item)) /\ UNCHANGED <<stage, reply>>
    /\ UNCHANGED <<deployed, entry, wire, call, abi, neighbors>>

Answer ==
    /\ stage = "events"
    /\ stage' = "answered" /\ reply' = BlockAnswer
    /\ UNCHANGED <<deployed, entry, wire, block, neighbors>>

Leave ==
    /\ stage = "answered"
    /\ stage' = "idle" /\ reply' = Error
    /\ call' = NoCall /\ abi' = NoAbi /\ part' = NoPart /\ objects' = <<>>
    /\ neighbors' = NoNeighbors
    /\ UNCHANGED <<deployed, entry, wire>>

-----------------------------------------------------------------------------
(* The node and the cache.                                                 *)

\* A block deploys the contract, or a reorganisation puts another or none in its place.
Deployed ==
    /\ deployed' \in (ABIs \cup {NoAbi}) \ {deployed}
    /\ UNCHANGED <<entry, stage, wire, block, neighbors, reply>>

Expires ==
    /\ entry # NoEntry /\ ~entry.expired
    /\ entry' = [entry EXCEPT !.expired = TRUE]
    /\ UNCHANGED <<deployed, stage, wire, block, neighbors, reply>>

\* By the entries of other contracts.
Evicted ==
    /\ entry # NoEntry /\ entry' = NoEntry
    /\ UNCHANGED <<deployed, stage, wire, block, neighbors, reply>>

Settle == Lookup \/ Fetched \/ FetchFails \/ Answer

Init ==
    /\ deployed \in ABIs \cup {NoAbi} /\ entry = NoEntry /\ stage = "idle" /\ wire = <<>>
    /\ call = NoCall /\ abi = NoAbi /\ part = NoPart /\ objects = <<>>
    /\ neighbors = NoNeighbors /\ reply = Error

Next ==
    \/ Status
    \/ \E c \in Calls \cup {NoCall} : AskBlock(c)
    \/ \E item \in Items : Serialize(item)
    \/ Settle \/ NodeAnswers \/ Leave
    \/ Deployed \/ Expires \/ Evicted

Spec == Init /\ [][Next]_vars

\* Awaited lookups settle, a serialized block is answered, and the TTL, which is not 0,
\* passes.
FairSpec == Spec /\ WF_vars(Settle) /\ WF_vars(Expires)

-----------------------------------------------------------------------------
(* Properties.                                                             *)

\* Whatever a block contains, it is refused for nothing but a contract call that the ABI
\* at hand cannot describe (transactions.ts:325), or a tenure change cause, a result or a
\* payload that no serializer knows (397, 175, 198): no other part of it, whichever of its
\* fields are null, becomes an object that the response schema refuses.
Indescribable ==
    /\ call # NoCall /\ abi # NoAbi
    /\ call.function \notin DOMAIN abi \/ call.args > abi[call.function]
RefusedOnlyForTheUnknown ==
    stage = "answered" /\ ~reply.ok => Indescribable \/ part.unknown

\* Of what the serializers write one field does not reach the client: the type of a
\* transaction's result, which transactions.ts:39 of the schemas does not name.
OnlyResultTypesAreLost ==
    stage = "answered" /\ reply.ok =>
        \A i \in DOMAIN reply.shown :
            reply.shown[i] = {h \in objects[i].has : h.field # "result_type"}

\* Every neighbour is shown once: with the address it is first listed with, and with the
\* list of each of its entries, in their order.
EntriesOf(entries, id) ==
    OnlyIn(entries, {entries[k] : k \in {j \in DOMAIN entries : entries[j].peer.key = id}})
PeerOf(mine) ==
    [peer_id |-> mine[1].peer.key, ip |-> mine[1].peer.ip,
     type |-> [n \in DOMAIN mine |-> mine[n].type]]
NeighborsShownOnce ==
    stage = "answered" /\ neighbors # NoNeighbors =>
        /\ \A i, j \in DOMAIN reply.peers :
              reply.peers[i].peer_id = reply.peers[j].peer_id => i = j
        /\ \A i \in DOMAIN reply.peers :
              LET mine == EntriesOf(Entries(neighbors), reply.peers[i].peer_id)
              IN  mine # <<>> /\ reply.peers[i] = PeerOf(mine)
        /\ \A k \in DOMAIN Entries(neighbors) :
              \E i \in DOMAIN reply.peers :
                  reply.peers[i].peer_id = Entries(neighbors)[k].peer.key

Asked(c) == stage = "prefetch" /\ call = c
Describes(d, c) ==
    \/ d = NoAbi
    \/ c.function \in DOMAIN d /\ c.args <= d[c.function]

\* A block that an outdated ABI makes unanswerable does not stay so: once the contract of
\* the branch has what the block calls, and if the block, of which nothing is unknown, is
\* asked for again and again, it is answered again and again.
OutdatedAbiHeals ==
    \A c \in Calls :
        <>[](Describes(deployed, c) /\ ~part.unknown) /\ []<>Asked(c)
            => []<>(stage = "answered" /\ call = c /\ reply.ok)
=============================================================================
