# A verification project for stacks-mesh-api

TLA+ specifications of the Stacks Mesh API server (`packages/api`), checked with
TLC; every safety property and every refinement that a run checks is proved with
TLAPS as well. The server is a Rosetta/Mesh facade of a Stacks node: it keeps no
database, reads everything from the node over RPC and keeps two caches in memory.
What is hard about it is not any single handler but what happens *between* its
awaits and *between* its calls: the node reorganises its chain while a handler
waits, two requests share a cache, a wallet carries the answer of one call into
the next.

## The system

| Part | Code (`packages/api/src`) | State | Interacts with |
|---|---|---|---|
| Data API reads | `api/routes/{block,account,network}.ts`, `stacks-rpc/helpers.ts`, `serializers/index.ts`, `utils/block-hash.ts` | the locals of each running handler | the node: 1 to 3 awaited RPCs per request |
| Validation and errors | `api/middleware/*`, `utils/errors.ts` | none | every handler |
| Caches and block prefetch | `cache/*`, `serializers/transactions.ts:74-112` | two LRU caches with TTLs | the node's read-only calls; shared by all requests |
| Operation serializer | `serializers/{transactions,pox-operations,pox5-operations}.ts` | the operations so far | the caches; `/block`, `/block/transaction`, `/construction/parse` |
| Construction API | `api/routes/construction.ts`, `utils/construction.ts` | none: wallets carry it | wallets, `@stacks/transactions`, the node's nonces |
| Boot, modes, routes | `index.ts`, `api/index.ts`, `api/routes/index.ts`, `env.ts` | mode, network | the node, once |
| `/call`, `/mempool` | `api/routes/{call,mempool}.ts` | none | the node |
| Response schemas, post-conditions | `packages/schemas`, `serializers/post-conditions.ts` | none | every answer |

What makes each part correct, in the order of what would hurt most:

1. *Data API reads.* A balance belongs to the block it is reported for; an answer is
   about the block that was asked; the parent link of a block is right; a refusal
   has a cause; every request is answered -- whatever the chain does meanwhile. In one
   sentence: a request that names a block is answered as by a single look at the node,
   one about the tip as by two.
2. *Construction.* A transaction does what the wallet asked and nothing else; its
   signature covers it; parse shows what it is, as far as the ABI at hand lets it;
   nothing sensible is refused.
3. *Serializer.* Operations reconcile with the ledger; both sides of a transfer
   belong together; indexes count without gaps; what is written reaches the client, and
   no block is refused for a field that is null, only for what the serializer does not know.
4. *Caches.* A block is serialized whatever fails; the prefetch is worth its calls;
   a failure is neither kept too long nor for ever; stale values do not spread.
5. *Server.* A request is served by a node of the network it names; the transactions
   built are for that chain; a server that can serve does, and one told to stop answers
   first; errors are those announced.

## The modules

| Module | Models | Checked by |
|---|---|---|
| `MeshErrors` | the error codes with their retriable flags, the mapping of exceptions, the list of `/network/options` | through `Server` and `ChainReads` |
| `ChainData` | blocks, hashes as strings, identifiers and requests | through `ChainReads` |
| `ChainNode` | the Stacks node: its branch, its store, whether it is in sync (external) | through `ChainReads` and `ConsistentReads` |
| `ChainReads` | the four read handlers, one action per awaited RPC | `MCChain`, `MCChainEcho` |
| `ConsistentReads` | abstract: a read is one look at the node between request and answer, a read of the tip two | as `ReadsAreConsistent` |
| `ChainReadsConsistent` | `ChainReads` with the history that maps it to `ConsistentReads` | `MCChain` |
| `ChainReads_proofs`, `ChainReadsConsistent_proofs` | the inductive invariant of `ChainReads`, its theorems; the refinement | TLAPS |
| `Filters` | `Array.prototype.filter` (external), as a recursive function | through its users |
| `SequenceLemmas` | lemmas: induction up to a number, recursions have a solution, what a filter keeps | TLAPS |
| `LruCache` | the `lru-cache` package as it is used (external), as operators | through `MetadataCache` |
| `MetadataCache` | both caches, the prefetch and the serial loop of concurrent requests | `MCMetadataCache` (two cfgs) |
| `MetadataTable` | abstract: one table of metadata, shared by all requests | as `KeepsTheTable` |
| `MetadataCacheTable` | the mapping of `MetadataCache` to `MetadataTable` | `MCMetadataCache` |
| `MetadataCache_proofs` | the inductive invariant of `MetadataCache`, its theorems; the refinement | TLAPS |
| `Construction` | the Construction API and the wallets that walk through it | `MCConstruction` (three cfgs) |
| `Construction_proofs` | the inductive invariant of `Construction`, and its theorems | TLAPS |
| `Operations` | from one transaction to its operations | `MCOperations` (two cfgs) |
| `Operations_proofs` | the inductive invariant of `Operations`, and its theorems | TLAPS |
| `Server` | the process: boot, modes, routes, the screen of requests, the errors of each handler, shutdown | `MCServer` (two cfgs) |
| `Server_proofs` | the inductive invariant of `Server`, and its theorems | TLAPS |
| `Responses` | what of a block's operations, post-conditions and transaction metadata, and of the node's neighbours, reaches the client; the ABI of contract calls | `MCResponses` |
| `Responses_proofs` | the inductive invariant of `Responses`, and its theorems | TLAPS |

The models meet where the code does. `ChainReads` answers with the block in hand and
leaves its transactions to `Operations`; `Operations` lets a cache lookup answer
anything that `MetadataCache` allows between two lookups (metadata, a fallback, an
ABI or none); `Construction` uses of the serializer only what a payload becomes.
`Responses` takes the fields of the operations, which `Operations` leaves out, and
composes the ABI cache with the call it describes; there the key of the cache is one
contract, and other keys only evict it. `Server` screens what the others handle, and
lets a handler of another module await one reply that may be an answer or any of the
errors that its code has, as `MeshErrors` maps them.

### ChainReads

*State.* The node: the branch it follows (`chain`, `tip`), all it has stored
(`stored`), over a constant tree of blocks, and whether it takes itself to be in sync
(`synced`). Per client, the locals of its handler:
`stage` is the RPC being awaited, `got` the block in hand, `nodeInfo` the height and
the sync status from `/v2/info`, `peers` whether the other half of `Promise.all` has settled,
`answer` the HTTP answer. `was` and `left` are history: blocks that were on, or off,
the branch at some time since the request. They are in no guard.

*Actions.* `Ask` is a request up to its first await (or its rejection); each of
`ByHeight`, `ById`, `Replay`, `ParentHash`, `Info`, `TipBlock`, `Neighbors`, `Account`
is an RPC's reply with all the synchronous code that follows it; `RpcFails` is any
other failure. `NodeMoves` is the node's: `Store` takes in a block of any branch, `Follow`
makes the branch of a stored block the node's, whatever its length, at once: of a
branch adopted so only the last block ever is the tip. `Sync` changes the sync status.
`/block/transaction` answers the transaction alone; in the model its answer holds the
block it was read from (`state`), for the properties. The node serves a block by height only on its branch, and by index block hash if it
stores it, an orphan too.

*Strings.* A hash string is a record: which hash, of which block, with or without
`0x`. `AddHexPrefix`, `RemoveHexPrefix` and the node's parsing act on it, since the
node ignores a `tip` with a prefix without saying so.

### ConsistentReads and ChainReadsConsistent

`ConsistentReads` is the promise: `may` collects, from the request on, the answers that
looks at the node would give (`Answers`), and a reply is one of them, or an internal
error. For a request that names a block it is one look (`NamedAnswers`). For
`/network/status`, and `/account/balance` without a block, it is two (`TipAnswers`): the
first finds the height of the tip and the sync status (`looks` collects them), the second
the block of the branch at that height. One look would be too much to promise: if the
node takes up a longer branch between the two RPCs, the block at the old height was never
the tip. `ChainReadsConsistent` adds `looks` and `may` to `ChainReads` as history and
gives the mapping: a handler that waits is "pending", whichever RPC it awaits. The
abstract module reads a block from the node's state at once; it knows nothing of
stages, tip heights or second RPCs.

### MetadataCache and LruCache

A cached value is abstracted to the set of getters that failed when it was fetched:
`{}` is complete metadata. `BeginBlock` is everything up to the first await of the
prefetch: `get` on each key, once, contracts first. `PrefetchSettles` is one such get
getting its answer, `SerialHit`, `SerialMiss` and `SerialFetched` are the serial loop.
`Tick` lets entries age; `NodeHealth` makes read-only calls fail or work.
`quiet` and `staleServed` are history. The lookups of a prefetch are a recursion over
its keys (`AllLookedUp`), and so is the insertion order of a JavaScript `Set` (`Unique`).

`MetadataTable` is what those who serialize blocks may rely on: of a key they are told
what was fetched for it, as long as that value deserves and once more, in the order of
their block and nothing left out; a failed ABI is not learnt; learning one key may
forget others. It has no sizes, no order of use, no list of pending gets. In
`MetadataCacheTable` its table is the entries of both caches, and a request is busy in
every phase but "idle"; `PrefetchDone` and `SerialMiss` are stutters.

### Construction

One action per HTTP call, each with the whole handler. The API keeps nothing; what a
wallet holds is the state. A wallet errs: it sends operations that mean nothing; to
payloads the operations of any other request than that of preprocess; fee operations
missing, positive, of another account or more than one; another key; memos in each of
three places; signatures too many or too short. It carries the metadata over as it got
them: options of its own making are left out. `Confirm` moves nonces of accounts on. A
signature names who signed what and in which byte order.

Contract calls have arguments. What parse tells of one depends on the ABI that the cache
answers, here on how many parameters it gives the function (`Fits`, `Labelled`): without
an ABI, which is always so offline, none are told; a call that the ABI does not describe
makes parse refuse.

### Operations

`Begin` is the serializer up to its first await or event, `makeContractCallOperation`
the answer of the ABI cache, `SerializeEvent` one event. The node's ledger `moved` is
history: what the events did to each account, by which the operations are judged;
`Total` adds up what the operations tell. Post-conditions may abort a transaction
whatever its result (`Executed`): the events that the replay then has are serialized, but
move nothing. What a block gives its miner has no event and no operation, and is not in
`moved`.

### Server

*State.* `env` is what the process was started with, `phase` where `initApp` is,
`config` what it made of `env` and of `/v2/info`. Outside: whether the node is up, its
chain id (an operator may put a node of another chain in its place). A client has a
stage, a request and a reply. `seen` is history: the chain ids of nodes since the process
configured itself.

*Actions.* `Start`, `NodeReady`, `NodeNotReady`, `Retry`, `Fail`, `Listen`, `Signal`
and `Close` are `initApp`; `Restart` starts another process. `Post` is a request up to
its handler's first await: route of the mode, schema, network, block identifier, in
the order of the code (`Screened`), and then what the handler refuses or answers before it
awaits anything (`RefusedAtOnce`, `AtOnce`). `NodeReplies` and `NodeFails` continue it:
the handlers of the other modules await one reply here, and fail with what their calls
throw (`Exceptions`), as they catch it or not (`Caught`).

### Responses

*Fields.* An operation or post-condition is a set of fields, each with what stands
there, and so is the metadata of a transaction: `Written` has the conversion of each field
in the serializers, `Items` are the types with every set of their nullable fields missing,
or with what no serializer knows (`unknown`): the cause of a tenure change, the result or
payload type of a transaction. That throws. `Schema` has the kinds that the
response schema takes for each field. `FitsSchema` is the branch of a union; `Shown`
what is written of it, which is only what the branch names.

*Calls.* `Lookup`, `Fetched` and `FetchFails` are `ContractAbiCache.get`, first from the
prefetch, then from the serializer; `Found` is what follows: a call without an ABI has
no arguments, one that the ABI does not describe throws. `Deployed` is a block or a
reorganisation, `Expires` and `Evicted` are the cache's.

*Peers.* `Status` makes one list of four: `Entries` are the entries of the four in the
order of the two loops, and `AddPeer` is the body of the inner one. A neighbour may be
in a list twice, with two addresses too: the node answers what it likes.

## The runs

| Run | Instance | Shows |
|---|---|---|
| `chain` | five blocks on two branches that part above height 1, one transaction at different heights of both; one client; every combination of index, hash and sub-account, in both display modes | the safety properties, that the handlers implement `ConsistentReads`, and that every request is answered |
| `cache` | two tokens (one without `get-decimals`), one contract, one-entry caches, two requests | size, warmth, TTLs and stale returns under interleaving; that the caches implement `MetadataTable` |
| `cache_live` | one token, one contract, two requests | progress and healing |
| `construction` | two accounts, one wallet, all kinds of requests; for parse no ABI, one without the function, and functions of none, one and two parameters | the five properties of the API and its types |
| `operations` | two accounts, three tokens, all transaction types and results, up to two events of every kind | reconciliation, indexes and relations |
| `server` | mainnet, the testnet with a name and one without; environments of both modes, complete or not; two clients, requests of every kind, some for the wrong network | networks, chain ids, errors, boot and shutdown |
| `responses` | every event, payload, post-condition and transaction metadata with every set of missing fields, or with what is unknown; one contract in three forms, two calls; two neighbours in any of four lists, one of them with two addresses and twice in one list | what is refused, what is dropped, peers shown once, recovery from an outdated ABI |
| the five runs with `expect: violation` | as above, each with one property | the findings below |

*Bounds and why they are enough.* In `ChainReads` handlers share nothing but the node,
which none of them changes: one client stands for any number, and the theorems hold
for any set. Two competing branches with two blocks each allow a reorganisation at the
height in question, one below it, a shorter branch in between and a return, a block at a
time or all at once.
Each handler makes at most three RPCs, so more forks add no new order.
Two constraints keep the run small and lose nothing: the node is in sync only while there
is no request or one for the sync status (`SyncedForStatus`; no other answer depends on
it), and it stands still while an answer lies with the client, who does nothing with it but
leave (`StillWhileAnswered`).
`MetadataCache` overflows with two keys on a cache of one; two requests cover all
races of a pair of gets; TTLs of 1 and 2 ticks are the least that tell `errorTtl` from
`ttl`. In `Construction` wallets are independent
but for nonces, and `Confirm` stands for other wallets' transactions. `Operations`
treats events one by one and remembers only the length of its list; two events allow
each kind to follow each other kind. In `Server` requests share the configuration,
and the shutdown, which waits for all of them: two clients, one request per kind of handler
(those that can only do the same are left out of `Asked`). In `Responses` an object is judged on its own, so `MaxItems` is 1
beside a contract call; one block at a time is enough for the cache, since a call of
another block only does to the entry what `Evicted`, `Expires` and `Fetched` do.

*Fairness.* Every awaited call settles, at the latest by the HTTP client's timeout, and
the event loop runs its continuation: weak fairness of each handler (`FairSpec` of
`ChainReads` and `MetadataCache`, `Settle` in `Server` and `Responses`), and of the
clock (`Tick`, `Expires`; a TTL of 0, which never passes, is excluded). `Boot` is fair
because its loop sleeps and tries again for ever (`index.ts:13-31`), `Close` because
Fastify closes once requests are answered. Nothing is assumed of the chain, of clients,
of wallets or of the node's health: `EventuallyServes` and `OutdatedAbiHeals` ask for a
node that stays up, or a contract that stays deployed, in their own premises.

*Deadlock* is checked in all runs.

### Findings

Where the code and what is said of it disagree, a run shows how:

- `echo`: an identifier echoed after a reorganisation is refused (README: "always works").
- `construction_echo`: a wallet that sets `max_fee` or a multiplier can never get
  payloads. `construction_calls`: contract transactions get a nonce of their own.
- `offline`: offline mode makes no outbound calls (README:73, `api/index.ts:36`,
  `env.ts:12`, `tests/api/offline-mode.test.ts:10-12`), but the builder of a contract
  payload looks the nonce up (`construction.ts:326-345`).
- `operations_statuses`: `/network/options` announces the abort statuses as unsuccessful
  (`constants.ts:15-21`), but the fee operation of an aborted transaction, which was paid,
  has one. `OperationsTellBalances` therefore counts fees under any status.

Smaller disagreements that the models keep as the code has them, without a run:

- `getChainTipNakamotoBlock` is documented to return the chain tip (`helpers.ts:115-117`);
  the block it returns may never have been the tip: the two looks of `ConsistentReads`.
- PoX operations have types that `/network/options` does not list (README:11-12;
  `constants.ts:45-69` has hyphens and no PoX-5 types).
- Without an ABI the arguments of a parsed contract call are an empty list
  (`transactions.ts:315`), not the "raw args" of README:82: `ParseTellsTheRequest` says
  that they are missing.
- A call that a known ABI does not describe cannot be parsed (`transactions.ts:325`), and a
  block that has one cannot be served: `Indescribable` in `RefusedOnlyForTheUnknown`, the
  premise `Describes` of `OutdatedAbiHeals`.
- A transaction that a post-condition aborts is told as a success if its result is ok
  (`transactions.ts:171` looks at the flag of error results only): the premise
  `ErrsWhenAborted` of `OperationsTellBalances`. Whether nodes answer so is not in the
  repository; its one fixture of such an abort has an error.
- The schema of a transaction's `metadata.result` drops its `type`
  (`transactions.ts:156` against `entities/transactions.ts:39-45`): the exception in
  `OnlyResultTypesAreLost`.
- The prefetch that finds a stale entry deletes it (`allowStale: true` without
  `noDeleteOnStaleGet`), so the serial loop misses it, although the comment says that
  its gets "all hit warm caches" (`transactions.ts:80`).
- An expired fallback is served once more before it is retried
  (`token-metadata-cache.ts:31-32` says the retry comes when it expires).
- A TTL of 0 is allowed and means no expiry: with `TOKEN_METADATA_ERROR_CACHE_TTL_MS=0`
  a fallback is permanent (`env.ts:49-53`: "so a transient failure recovers"), with
  `CONTRACT_ABI_CACHE_TTL_MS=0` so is an outdated ABI, unless it is evicted.
- The default fee is a fallback but not a floor (README:69, `env.ts:59-63`).
- Two different memos in `metadata` and `metadata.options` do not conflict, the first
  wins (`construction.ts:247-253`).
- After the node is replaced by one of another chain, the label that screens requests
  and the chain id that is signed for stay the old ones until a restart
  (`index.ts:86`): the premise `SameNode` of two properties of `Server`.
- `/call` calls three methods idempotent whose answers a reorganisation that redeploys the
  contract changes (`call.ts:61, 80, 100`).
- `STACKS_CORE_RPC_TIMEOUT_MS` (README:61) is not among the variables of `env.ts`.
- The response schemas of `/call` for data variables and map entries name other fields
  (`okay`, `result`) than the code answers with (`responses/call.ts`).

## The proofs

`ChainReads_proofs` proves for every tree of blocks, every set of clients and both
display modes:

| Theorem | Property |
|---|---|
| `TypeCorrect` | `TypeOK` |
| `BalanceCoherence` | `BalanceIsOfReportedBlock` |
| `AnswerIdentity` | `AnswersTheBlockAsked` |
| `ParentLinkage` | `ParentIsLinked` |
| `RefusalCause` | `RefusalsHaveCause` |
| `TransactionTruth` | `TransactionFollowsBlock` |
| `TipMiss` | `TipMissNeedsReorg` |

*Assumptions* are those of `ChainReads`: the blocks form a tree rooted in `Root` with
heights that grow by one, and the absent values are no values. Nothing bounds the
number of blocks, clients or reorganisations.

*The argument.* The properties speak of answers, and an answer is made from locals that
were filled some RPCs earlier. The inductive invariant therefore says of each stage
what its locals are worth *now*: a block in hand is the one the request names and was
on the branch since the request if it was looked up by height; a height from
`/v2/info` is the height of a block that was on the branch since; what was on the
branch since the request and is not now has left it. It also needs two facts about the
node: its branch has one block per height, and it stores parents before their
children. `Invariance` proves it, one step per action, and each theorem
follows from it. TLC checked the invariant on the instance of the run before it was proved.

`Operations_proofs` proves for any accounts, tokens, amounts and fees, and for any
number of events:

| Theorem | Property |
|---|---|
| `TypeCorrect` | `TypeOK` |
| `IndexesAreCounted` | `IndexesCount` |
| `SidesTogether` | `SidesBelongTogether` |

*Assumptions* are those of `Operations`: amounts are positive, fees natural, and the
absent values are no values. What the events look like is part of the model of the
node (`Events`, `MayEmit`): any event of any kind, in any order.

*The argument.* The code appends operations in portions: the fee, the payload's, those
of one event. `SidesBelongTogether` is not inductive as it stands, since it says nothing
of the index the next portion starts from and looks for the credit anywhere. `Chunk(s, n)`
says of a portion that its operations count from `n`, that a related operation follows
its debit directly and a debit is directly followed by its credit. Each maker of
operations is shown to return a chunk that starts at the index it is given, whatever the
metadata lookup answers; `Concatenation` says that chunks numbered one after the other
are a chunk; the invariant is `Chunk(ops, 0)`. The theorems are read off it: the
counting gives the uniqueness of the credit. TLC checked the invariant on the
instance of the run.

`ChainReadsConsistent_proofs` proves `Consistency`, `RememberSpec => ReadsAreConsistent`,
under the assumptions of `ChainReads`: the handlers implement `ConsistentReads`, for every tree of
blocks, any clients and either display mode.

*The argument.* Initial states map to initial states; a step of the node maps to
`NodeMoves`, `Ask` to `Ask`, `Leave` to `Leave`; an RPC that is followed by another maps
to a stutter, one followed by the answer to `Reply`. For the last, the answer must be in
`may`, and it may be that of a look which is long past when it is given. The invariant
`RInv` therefore adds to that of `ChainReads`: the answer about every block that was a
target since the request is in `may` (`RememberedStays`, `MemoryStays`), and the reply of
`/v2/info` that a handler holds is one of `looks`. What each stage
holds is such a block by the invariant of `ChainReads`, and the lemmas `...Mapped`, one
per RPC, compute that the code's answer is the abstract one. The node's orphans make the
difference between the ways to name a block: by height its target changes with the
branch, by hash alone it never does (`HashAlone`).

`Server_proofs` proves for any clients, chain ids, environments and requests:

| Theorem | Property |
|---|---|
| `TypeCorrect` | `TypeOK` |
| `NetworkServed` | `ServesTheNetworkNamed` |
| `ChainSigned` | `SignedForTheRightChain` |
| `ErrorsAnnounced` | `EveryErrorIsListed` |

*Assumptions*: the two chain ids with names are different, an environment has a mode
and may lack what it needs, requests have the shape that their schema allows, and
absent values are no values.

*The argument.* A property of a reply depends on what its request met some steps
earlier. `Inv` is the conjunction of `TypeOK`; `Configured`, which says that the
configuration was made of the environment and of a node that is still in `seen`;
`Admitted`, which says that a request that awaits a reply passed every check of the
screen under this configuration; and `Answered`, which says the same of served replies
and that errors are announced ones. That a handler's own errors are announced is computed
handler by handler (`RefusalsListed`, `ExceptionsListed`). One lemma per group of actions
preserves it.

`MetadataCache_proofs` proves for any tokens, contracts, blocks and requests, and any
sizes and TTLs:

| Theorem | Property |
|---|---|
| `AlwaysTypeOK` | `TypeOK`, with it that both caches keep within their bounds |
| `SerializationIsWarm` | `WarmWhenQuiet` |
| `EntriesLiveAsDeserved` | `KeptAsLongAsDeserved` |
| `StaleValuesAreServedOnce` | `StaleAtMostOnce` |
| `CachesKeepTheTable` | `KeepsTheTable`, the refinement of `MetadataTable` |

*Assumptions*: tokens are no contracts, a cache has a size or a TTL (`lru-cache`
insists on one), blocks are sequences of keys, and absent values are no values.

*The argument.* `WarmWhenQuiet` is the hard one: a get of the prefetch stores its key
while others still wait, and a full cache evicts something at that moment. The
invariant says of a quiet request that every key of its block is pending or cached,
and that the cached ones are the *latest* of the recency list (`Latest`). If storing a
key evicts the head of the list and that were a key of the block, then all of the list
would be, and with the key being stored the block would have more keys than fit.
`SetIs`, `GetIs` and their kin say what the cache's operations do to entries and order;
`PrefetchKeysAre` that the prefetch asks for every key of the block once. Stale entries
that are returned are deleted at once, so that no key with `staleServed[k] = 1` is in
the cache (`ServedOnce`).

For the refinement each action has a lemma `...Mapped`. Whatever a store evicts from its
cache is, in the table, what was forgotten for the new key (`LearnMapped`); the lookups
of a prefetch delete exactly the outdated keys of the block, although they go key by key
and each moves the order of use. A request is shown to tell the keys of *its* block: a
pending get, and the key at `pos`, are of it by the invariant.

`Construction_proofs` proves for any accounts, memos, amounts, fees and wallets:

| Theorem | Property |
|---|---|
| `AlwaysTypeOK` | `TypeOK` |
| `AskedIsExecuted` | `ExecutesWhatWasAsked` |
| `TransfersAreSigned` | `SignatureCoversTransfer` |
| `RequestsAreRetold` | `ParseTellsTheRequest` |
| `RefusalsHaveACause` | `RefusedOnlyForCause` |
| `FeesAreCapped` | `SuggestedFeeWithinCap` |

*Assumptions*: the empty memo is a memo and not a long one, fees and transaction sizes
are natural numbers, requests are those that the request schema lets through (`Asks`),
and absent values are no values.

*The argument.* The API keeps nothing, so the invariant is one formula per wallet
(`Session`): its options are those of what it sent to preprocess, its metadata those of
its options, its request to payloads one that it may make with that metadata, its
transaction the one that payloads and combine make of that. A step of one wallet
preserves that of the others (`StepOfOne`). What is left is about the handlers as
functions: which options and which transaction a list of operations means. A list that
means anything has fee operations and two legs in any order; that filtering the fees
out leaves these legs is `FeesBeforeLegs`; `Meaning` and `RequestsAre` say which options
the requests mean, `ParsedIs` what parse makes of the transaction, ABI by ABI.

Of balances, `Operations_proofs` proves `BalancesAreTold` (`OperationsTellBalances`) with a
second invariant, `Balanced`: what the operations tell so far is what the events did so
far, but for a token transfer that succeeded, which the payload tells before its event
comes (`Due`). The total of two lists is the sum of theirs (`TotalOfBoth`), so each
portion is computed on its own. Both sides are 0, but for the fee, if the transaction
failed.

`Responses_proofs` proves for any ABIs, calls and lists of neighbours, and any number of
operations and post-conditions:

| Theorem | Property |
|---|---|
| `OnlyTheUnknownIsRefused` | `RefusedOnlyForTheUnknown` |
| `AllButResultTypesIsShown` | `OnlyResultTypesAreLost` |
| `NeighborsAreShownOnce` | `NeighborsShownOnce` |

*Assumptions*: an ABI gives its functions numbers of parameters, a call names a function,
the node's lists are sequences of entries, and absent values are no values.

*The argument.* `Agrees(W, S)` compares what a serializer writes with what a schema takes:
every conversion of a field, of a missing one too if it may be missing, is of a kind
the schema takes, nothing that the schema requires is missing, and nothing is written
that it does not name, the type of a result aside. It is proved table by table
(`Pox4Agrees`, `Pox5Agrees`, `OperationsAgree`, `ConditionsAgree`, `TransactionsAgree`); so
every object of a block fits and is shown but for that (`ItemFits`).
The invariant adds what a reply was made of (`Replied`). For the neighbours, `Shows` says
that a peer is made of the entries of one key so far; it goes from entry to entry.

*Recursion.* The operators that recurse are recursive functions. The proofs about them
do without the library's induction theorems, whose operator parameters the provers
cannot instantiate: `UpTo` is induction over a *set* of numbers, by its least
counterexample; `Solution` says that a recursion over the natural numbers up to `N`
has a solution, so that the function which a `LET` defines with `CHOOSE` is known to
satisfy its equation. Both are in `SequenceLemmas`.

*Only model-checked:* liveness (`EveryRequestIsAnswered`, `EveryBlockIsSerialized`,
`FailuresHeal`, `EventuallyServes`, `ShutdownIsGraceful`, `OutdatedAbiHeals`), which
needs `ENABLED`; and the disagreements that the runs with `expect: violation` show.

## Not modelled

- The decoding of Clarity values and of transactions, patterns of strings in schemas,
  execution costs and results of transactions: data that no property tells apart.
- What `/call` answers, and whether it deserves its idempotent flag: the flag is a
  constant per method, the rest the node's data. Its route, screen and errors are in
  `Server`.
- In `Responses` the fields that the codec and the node may leave out or null are taken
  from the serializers, who ask about them, and from the schemas, which have a null for
  them (`MayLack`). Neither codec nor node is part of the repository, so a field that is
  null although nobody expects it cannot be found here.
- `/construction/derive` and `/construction/hash`: pure calls into a library; their
  routes, screens and errors are in `Server`.
- A wallet that alters the options that preprocess answered: payloads compares them with
  its own, and the model leaves the comparison to options of the API's making.
- The rewards of miners: no event or operation speaks of them.
- The signals of the process beyond one shutdown, the log, the OpenAPI generator.
- The libraries (`lru-cache`, `@stacks/transactions`, `@stacks/codec`, Fastify and its
  serializer, the RPC client) and the node: modelled only as the code uses them, and
  marked external.

## The plan

1. Done: all components that keep state or pass it on, with a model each; the
   refinements of `ConsistentReads` and `MetadataTable`; theorems for every safety property
   of the runs and for both refinements.
2. Next: `MetadataTable` composed with `Operations`, so that the currencies of a block
   come from the table's own steps and no longer from any answer of a lookup; since
   `MetadataCache` implements the table, what is proved of the composition holds of both.
