--------------------------- MODULE MetadataTable ---------------------------
(***************************************************************************)
(* What the serialization of blocks may rely on: one table of metadata,    *)
(* shared by all requests.  What was fetched for a key is told for as long *)
(* as its value deserves, and once more after that; it may be forgotten    *)
(* earlier for another key, and is then fetched again.  How the table      *)
(* makes room, in which order it was used, and what is prefetched, is none *)
(* of the business of those who rely on it.                                *)
(***************************************************************************)
EXTENDS Naturals, Sequences

CONSTANTS
    Tokens, Contracts,     \* the keys
    Getters, Broken,       \* what is fetched for a token, and what never works
    Ttl, ErrorTtl, AbiTtl, \* 0 is for ever
    Blocks, Requests,
    Unknown, NoItem

VARIABLES
    known,   \* known[k]: value, TTL and age of k, or Unknown
    healthy, \* does the node answer?
    stage,   \* of a request: "idle", "busy"
    block,   \* the keys it looks up, in order
    next,    \* the next of them
    told     \* the last one told: the key, its value, was that outdated?

table == <<known, healthy, stage, block, next, told>>

-----------------------------------------------------------------------------
Keys == Tokens \cup Contracts
LifetimeOf(k, failed) ==
    IF k \in Contracts THEN AbiTtl ELSE IF failed = {} THEN Ttl ELSE ErrorTtl
Outdated(k) == known[k] # Unknown /\ known[k].ttl # 0 /\ known[k].age >= known[k].ttl

\* What fails of a fetch: what never works, and anything else while the node is ill.
Outcomes(k) ==
    IF healthy THEN {Broken[k]}
    ELSE {f \in SUBSET (IF k \in Tokens THEN Getters ELSE {"interface"}) : Broken[k] \subseteq f}

Forget(keys) == [k \in Keys |-> IF k \in keys THEN Unknown ELSE known[k]]

\* A failed ABI is not learnt; to learn anything else, other keys may be forgotten.
Learn(k, failed) ==
    IF k \in Contracts /\ failed # {} THEN known' = known
    ELSE \E forgotten \in SUBSET (Keys \ {k}) :
            known' = [Forget(forgotten) EXCEPT
                        ![k] = [value |-> failed, ttl |-> LifetimeOf(k, failed), age |-> 0]]

-----------------------------------------------------------------------------
\* A request comes; for a whole block, what is outdated of it is forgotten.
Begin(r, b) ==
    /\ stage[r] = "idle"
    /\ stage' = [stage EXCEPT ![r] = "busy"]
    /\ block' = [block EXCEPT ![r] = b]
    /\ next' = [next EXCEPT ![r] = 1]
    /\ known' \in {known, Forget({k \in Keys : Outdated(k) /\ \E i \in DOMAIN b : b[i] = k})}
    /\ UNCHANGED <<healthy, told>>

\* Something of a request's block is fetched ahead.
FetchAhead(r, k, failed) ==
    /\ stage[r] = "busy" /\ \E i \in DOMAIN block[r] : block[r][i] = k
    /\ UNCHANGED <<healthy, stage, block, next, told>>
    /\ Learn(k, failed)

Tell(r, k, failed, outdated) ==
    /\ stage[r] = "busy" /\ next[r] <= Len(block[r]) /\ block[r][next[r]] = k
    /\ told' = [told EXCEPT ![r] = [key |-> k, value |-> failed, stale |-> outdated]]
    /\ next' = [next EXCEPT ![r] = @ + 1]
    /\ UNCHANGED <<healthy, stage, block>>

\* What is known is told; if it is outdated, for the last time.
TellKnown(r, k) ==
    /\ known[k] # Unknown
    /\ Tell(r, k, known[k].value, Outdated(k))
    /\ known' = IF Outdated(k) THEN Forget({k}) ELSE known

TellFetched(r, k, failed) == Tell(r, k, failed, FALSE) /\ Learn(k, failed)

\* Nothing is answered before all of the block was told.
Finish(r) ==
    /\ stage[r] = "busy" /\ next[r] > Len(block[r])
    /\ stage' = [stage EXCEPT ![r] = "idle"]
    /\ block' = [block EXCEPT ![r] = <<>>]
    /\ next' = [next EXCEPT ![r] = 1]
    /\ told' = [told EXCEPT ![r] = NoItem]
    /\ UNCHANGED <<known, healthy>>

\* What is outdated ages no more, and neither does what is known for ever.
Tick ==
    /\ UNCHANGED <<healthy, stage, block, next, told>>
    /\ known' = [k \in Keys |->
                    IF known[k] = Unknown \/ Outdated(k) \/ known[k].ttl = 0 THEN known[k]
                    ELSE [known[k] EXCEPT !.age = @ + 1]]

NodeHealth == healthy' = ~healthy /\ UNCHANGED <<known, stage, block, next, told>>

Init ==
    /\ known = [k \in Keys |-> Unknown]
    /\ healthy = TRUE
    /\ stage = [r \in Requests |-> "idle"]
    /\ block = [r \in Requests |-> <<>>]
    /\ next = [r \in Requests |-> 1]
    /\ told = [r \in Requests |-> NoItem]

Next ==
    \/ \E r \in Requests, b \in Blocks : Begin(r, b)
    \/ \E r \in Requests, k \in Keys :
          \/ TellKnown(r, k)
          \/ \E failed \in Outcomes(k) : FetchAhead(r, k, failed) \/ TellFetched(r, k, failed)
    \/ \E r \in Requests : Finish(r)
    \/ Tick \/ NodeHealth

Spec == Init /\ [][Next]_table
=============================================================================
