--------------------------- MODULE MetadataCache ---------------------------
(***************************************************************************)
(* The token-metadata cache and the contract-ABI cache, shared by all the  *)
(* requests that serialize blocks.  /block first prefetches the metadata of *)
(* the whole block concurrently and then serializes its transactions one   *)
(* get after the other; /block/transaction does without the prefetch.      *)
(*                                                                         *)
(* A get looks the key up at once, and if that misses it awaits the node   *)
(* and stores what came back.  Gets of several requests, the clock and the *)
(* node's health interleave between those two moments.                     *)
(*                                                                         *)
(* A cached value is represented by the set of getters that failed when it *)
(* was fetched: {} is complete metadata, or an ABI.                        *)
(***************************************************************************)
EXTENDS Naturals, Sequences, SequencesExt, FiniteSetsExt, Filters

CONSTANTS
    Tokens,     \* fungible-token asset identifiers
    Contracts,  \* contract identifiers
    Getters,    \* the SIP-010 getters of a token
    Broken,     \* Broken[k]: the getters of k that never work
    Ttl, ErrorTtl, TokenCacheSize, \* configuration of the token cache
    AbiTtl, AbiCacheSize,          \* and of the ABI cache
    Blocks,     \* the blocks: sequences of the keys their operations look up
    Requests,   \* concurrent HTTP requests
    NoEntry, NoItem

Keys == Tokens \cup Contracts
FetchesOf(k) == IF k \in Tokens THEN Getters ELSE {"interface"}
Values == SUBSET (Getters \cup {"interface"})

ASSUME CacheAssumption ==
    /\ Tokens \cap Contracts = {}
    /\ \A k \in Keys : Broken[k] \subseteq FetchesOf(k)
    /\ {Ttl, ErrorTtl, TokenCacheSize, AbiTtl, AbiCacheSize} \subseteq Nat
    \* lru-cache refuses to be constructed without any limit.
    /\ (Ttl # 0 \/ TokenCacheSize # 0) /\ (AbiTtl # 0 \/ AbiCacheSize # 0)

Lru == INSTANCE LruCache WITH MaxTtl <- Max({Ttl, ErrorTtl, AbiTtl})

\* Blocks look up keys, and the signs for nothing are nothing else.
ASSUME BlockAssumption ==
    /\ Blocks \subseteq Seq(Keys)
    /\ NoEntry \notin Lru!Entries

VARIABLES
    cache,     \* cache.token and cache.abi
    healthy,   \* does the node answer read-only calls?
    phase,     \* of a request: "idle", "prefetch", "serial", "fetching"
    items,     \* the keys its serialization looks up, in order
    pending,   \* the prefetch's gets that still await the node
    pos,       \* the next item to serialize
    served,    \* the last item serialized: its key, its value, was it stale?
    \* history, for the properties only
    quiet,     \* nothing disturbed the caches since the request's prefetch
    staleServed \* staleServed[k]: stale returns of k since it was last set

vars == <<cache, healthy, phase, items, pending, pos, served, quiet, staleServed>>

-----------------------------------------------------------------------------
(* The two caches.                                                         *)

KindOf(k)  == IF k \in Tokens THEN "token" ELSE "abi"
\* Mutant: a cache size that is never passed on.
Unbounded(k) == 0
SizeOf(k)  == IF k \in Tokens THEN TokenCacheSize ELSE AbiCacheSize
Cached(k)  == Lru!Has(cache[KindOf(k)], k)
IsStale(k) == Cached(k) /\ Lru!Stale(cache[KindOf(k)], k)
ValueOf(k) == cache[KindOf(k)].entry[k].value

\* Mutant: the caches are read with peek, which neither touches nor deletes.
LookedUpByPeek(c, k) == c
LookedUp(c, k) == [c EXCEPT ![KindOf(k)] = Lru!Get(@, k)]

SetIn(c, k, v, ttl) == [c EXCEPT ![KindOf(k)] = Lru!Set(@, k, v, ttl, SizeOf(k))]

\* Mutant: incomplete metadata is kept as long as complete metadata.
TokenStoredForTtl(c, k, failed) == SetIn(c, k, failed, Ttl)
\* Mutant: incomplete metadata is cached without a TTL.
TokenStoredForever(c, k, failed) == SetIn(c, k, failed, IF failed = {} THEN Ttl ELSE 0)
TokenStored(c, k, failed) == SetIn(c, k, failed, IF failed = {} THEN Ttl ELSE ErrorTtl)

\* Mutant: a contract whose ABI could not be fetched is taken for one without.
AbiStoredAnyway(c, k, failed) == SetIn(c, k, failed, AbiTtl)
\* A failed ABI fetch is not cached.
AbiStored(c, k, failed) == IF failed = {} THEN SetIn(c, k, failed, AbiTtl) ELSE c

Stored(c, k, failed) ==
    IF k \in Tokens THEN TokenStored(c, k, failed) ELSE AbiStored(c, k, failed)

\* What a fetch may come back with: each getter settles on its own.
Outcomes(k) ==
    IF healthy THEN {Broken[k]} ELSE {f \in SUBSET FetchesOf(k) : Broken[k] \subseteq f}

\* History of stale returns: looking k up, and storing it.
AfterLookUps(ks) ==
    [k \in Keys |-> IF k \in ks /\ IsStale(k) THEN staleServed[k] + 1 ELSE staleServed[k]]
AfterStore(k) == [staleServed EXCEPT ![k] = 0]

\* Request r changed the caches: the others are disturbed; r stays quiet if
\* stays is true.
Disturb(r, stays) ==
    quiet' = [x \in Requests |-> IF x = r THEN quiet[x] /\ stays ELSE FALSE]

-----------------------------------------------------------------------------
(* /block: prefetchBlockMetadata.  All lookups happen before the first      *)
(* await, contracts first, each key once.                                  *)

\* The keys of a Set, in the order they were added.
Unique(b) ==
    LET seen[n \in 0..Len(b)] ==
            IF n = 0 THEN <<>>
            ELSE IF Contains(seen[n - 1], b[n]) THEN seen[n - 1] ELSE Append(seen[n - 1], b[n])
    IN  seen[Len(b)]

\* Mutant: the contracts are left out of the prefetch.
PrefetchTokensOnly(b) == Unique(OnlyIn(b, Tokens))
PrefetchKeys(b) == Unique(OnlyIn(b, Contracts) \o OnlyIn(b, Tokens))

AllLookedUp(c, keys) ==
    LET after[n \in 0..Len(keys)] ==
            IF n = 0 THEN c ELSE LookedUp(after[n - 1], keys[n])
    IN  after[Len(keys)]

BeginBlock(r, b) ==
    /\ phase[r] = "idle"
    /\ LET keys == PrefetchKeys(b)
       IN  /\ cache' = AllLookedUp(cache, keys)
           /\ pending' = [pending EXCEPT ![r] = {k \in ToSet(keys) : ~Cached(k)}]
           /\ staleServed' = AfterLookUps(ToSet(keys))
           /\ quiet' = [x \in Requests |->
                         IF x # r THEN FALSE ELSE \A k \in ToSet(b) : ~IsStale(k)]
    /\ phase' = [phase EXCEPT ![r] = "prefetch"]
    /\ items' = [items EXCEPT ![r] = b]
    /\ pos' = [pos EXCEPT ![r] = 1]
    /\ UNCHANGED <<healthy, served>>

\* Mutant: a get of the prefetch that fails is awaited for ever.
PrefetchSettlesOnSuccess(r, k, failed) ==
    /\ phase[r] = "prefetch" /\ k \in pending[r] /\ failed = {}
    /\ cache' = Stored(cache, k, failed)
    /\ staleServed' = AfterStore(k)
    /\ Disturb(r, TRUE)
    /\ pending' = [pending EXCEPT ![r] = @ \ {k}]
    /\ UNCHANGED <<healthy, phase, items, pos, served>>
\* One get of the prefetch has its answer; a failed one is no obstacle.
PrefetchSettles(r, k, failed) ==
    /\ phase[r] = "prefetch" /\ k \in pending[r]
    /\ cache' = Stored(cache, k, failed)
    /\ staleServed' = AfterStore(k)
    /\ Disturb(r, k \in Tokens \/ failed = {})
    /\ pending' = [pending EXCEPT ![r] = @ \ {k}]
    /\ UNCHANGED <<healthy, phase, items, pos, served>>

\* Promise.allSettled resolves once every get of the prefetch has settled.
PrefetchDone(r) ==
    /\ phase[r] = "prefetch" /\ pending[r] = {}
    /\ phase' = [phase EXCEPT ![r] = "serial"]
    /\ UNCHANGED <<cache, healthy, items, pending, pos, served, quiet, staleServed>>

\* /block/transaction: straight to the serialization.
BeginTransaction(r, b) ==
    /\ phase[r] = "idle"
    /\ phase' = [phase EXCEPT ![r] = "serial"]
    /\ items' = [items EXCEPT ![r] = b]
    /\ pos' = [pos EXCEPT ![r] = 1]
    /\ UNCHANGED <<cache, healthy, pending, served, quiet, staleServed>>

-----------------------------------------------------------------------------
(* The serial loop: contractAbiCache.get and tokenMetadataCache.get of one  *)
(* operation after the other.                                              *)

Item(r) == items[r][pos[r]]

\* A hit, stale or fresh, is used at once.
SerialHit(r) ==
    /\ phase[r] = "serial" /\ pos[r] <= Len(items[r]) /\ Cached(Item(r))
    /\ cache' = LookedUp(cache, Item(r))
    /\ staleServed' = AfterLookUps({Item(r)})
    /\ served' = [served EXCEPT ![r] =
                    [key |-> Item(r), value |-> ValueOf(Item(r)), stale |-> IsStale(Item(r))]]
    /\ Disturb(r, ~IsStale(Item(r)))
    /\ pos' = [pos EXCEPT ![r] = @ + 1]
    /\ UNCHANGED <<healthy, phase, items, pending>>

SerialMiss(r) ==
    /\ phase[r] = "serial" /\ pos[r] <= Len(items[r]) /\ ~Cached(Item(r))
    /\ phase' = [phase EXCEPT ![r] = "fetching"]
    /\ UNCHANGED <<cache, healthy, items, pending, pos, served, quiet, staleServed>>

SerialFetched(r, failed) ==
    /\ phase[r] = "fetching"
    /\ cache' = Stored(cache, Item(r), failed)
    /\ staleServed' = AfterStore(Item(r))
    /\ served' = [served EXCEPT ![r] =
                    [key |-> Item(r), value |-> failed, stale |-> FALSE]]
    /\ Disturb(r, FALSE)
    /\ phase' = [phase EXCEPT ![r] = "serial"]
    /\ pos' = [pos EXCEPT ![r] = @ + 1]
    /\ UNCHANGED <<healthy, items, pending>>

\* The answer is sent; the slot is free for the next request.
Reply(r) ==
    /\ phase[r] = "serial" /\ pos[r] > Len(items[r])
    /\ phase' = [phase EXCEPT ![r] = "idle"]
    /\ items' = [items EXCEPT ![r] = <<>>]
    /\ pos' = [pos EXCEPT ![r] = 1]
    /\ served' = [served EXCEPT ![r] = NoItem]
    /\ quiet' = [quiet EXCEPT ![r] = FALSE]
    /\ UNCHANGED <<cache, healthy, pending, staleServed>>

-----------------------------------------------------------------------------
Tick ==
    /\ cache' = [kind \in {"token", "abi"} |-> Lru!Aged(cache[kind])]
    /\ cache' # cache
    /\ quiet' = [r \in Requests |-> FALSE]
    /\ UNCHANGED <<healthy, phase, items, pending, pos, served, staleServed>>

NodeHealth ==
    /\ healthy' = ~healthy
    /\ UNCHANGED <<cache, phase, items, pending, pos, served, quiet, staleServed>>

Step(r) ==
    \/ \E k \in Keys : \E failed \in Outcomes(k) : PrefetchSettles(r, k, failed)
    \/ PrefetchDone(r)
    \/ SerialHit(r) \/ SerialMiss(r)
    \/ phase[r] = "fetching" /\ \E failed \in Outcomes(Item(r)) : SerialFetched(r, failed)
    \/ Reply(r)

Init ==
    /\ cache = [kind \in {"token", "abi"} |-> Lru!Empty]
    /\ healthy = TRUE
    /\ phase = [r \in Requests |-> "idle"]
    /\ items = [r \in Requests |-> <<>>]
    /\ pending = [r \in Requests |-> {}]
    /\ pos = [r \in Requests |-> 1]
    /\ served = [r \in Requests |-> NoItem]
    /\ quiet = [r \in Requests |-> FALSE]
    /\ staleServed = [k \in Keys |-> 0]

Next ==
    \/ \E r \in Requests, b \in Blocks : BeginBlock(r, b) \/ BeginTransaction(r, b)
    \/ \E r \in Requests : Step(r)
    \/ Tick \/ NodeHealth

Spec == Init /\ [][Next]_vars

\* Awaited calls settle and the event loop runs every continuation; time passes.
\* Nobody has to send requests, and the node may change its health for ever.
FairSpec == Spec /\ WF_vars(Tick) /\ \A r \in Requests : WF_vars(Step(r))

-----------------------------------------------------------------------------
(* Properties.                                                             *)

TypeOK ==
    /\ DOMAIN cache = {"token", "abi"}
    /\ Lru!WellFormedCache(cache.token, TokenCacheSize)
    /\ Lru!WellFormedCache(cache.abi, AbiCacheSize)
    /\ \A k \in Keys : cache[IF k \in Tokens THEN "abi" ELSE "token"].entry[k] = NoEntry
    /\ healthy \in BOOLEAN
    /\ phase \in [Requests -> {"idle", "prefetch", "serial", "fetching"}]
    /\ \A r \in Requests :
          /\ items[r] \in Blocks \cup {<<>>}
          /\ pending[r] \in SUBSET Keys
          /\ pos[r] \in 1..(Len(items[r]) + 1)
    /\ quiet \in [Requests -> BOOLEAN]

\* The prefetch does what it is for: if nothing disturbed the caches since it
\* began (no entry was or went stale, no other request changed them, every ABI
\* fetch succeeded) and the block's keys fit in the caches, the serialization
\* never waits for the node, however often a key occurs.
WarmWhenQuiet ==
    \A r \in Requests :
        LET used == ToSet(items[r])
            fits(keys, size) == size = 0 \/ Cardinality(used \cap keys) <= size
        IN  quiet[r] /\ fits(Tokens, TokenCacheSize) /\ fits(Contracts, AbiCacheSize)
              => phase[r] # "fetching" /\ (phase[r] = "serial" => \A k \in used : Cached(k))

\* What is cached stays no longer than it deserves: metadata with a failed getter
\* expires by the error TTL, complete metadata and ABIs by the TTL, and a failed
\* ABI fetch is not kept at all -- whichever of two concurrent gets came last.
KeptAsLongAsDeserved ==
    \A k \in Keys : Cached(k) =>
        /\ k \in Contracts => ValueOf(k) = {}
        /\ cache[KindOf(k)].entry[k].ttl =
             IF k \in Contracts THEN AbiTtl ELSE IF ValueOf(k) = {} THEN Ttl ELSE ErrorTtl

\* An outdated value is returned at most once, to one of all the concurrent gets,
\* before the key is fetched again.
StaleAtMostOnce == \A k \in Keys : staleServed[k] <= 1

\* Every request to serialize a block comes to its end, whatever the node's health.
EveryBlockIsSerialized == \A r \in Requests : phase[r] # "idle" ~> phase[r] = "idle"

\* A transient failure heals: once the node stays healthy, no request is for ever
\* again served metadata that misses a getter which works.
FailuresHeal ==
    <>[]healthy =>
        <>[](\A r \in Requests : served[r] # NoItem => served[r].value = Broken[served[r].key])
=============================================================================
