----------------------------- MODULE LruCache -----------------------------
(***************************************************************************)
(* The lru-cache package as the two metadata caches use it (external): a   *)
(* map of at most `max` keys that evicts the least recently used one, whose *)
(* entries go stale when they outlive their TTL, opened with allowStale.   *)
(*                                                                         *)
(* A cache is a record: entry[k] is what it holds under k, recency lists   *)
(* its keys from the least to the most recently used.  Ages and TTLs count *)
(* ticks of a clock; an entry set with TTL 0 never goes stale.             *)
(***************************************************************************)
EXTENDS Naturals, Sequences, Filters

CONSTANTS Keys, Values, NoEntry, MaxTtl

Entries == [value : Values, ttl : 0..MaxTtl, age : 0..MaxTtl]

Empty == [entry |-> [k \in Keys |-> NoEntry], recency |-> <<>>]

Has(c, k)   == c.entry[k] # NoEntry
Stale(c, k) == c.entry[k].ttl # 0 /\ c.entry[k].age >= c.entry[k].ttl
Without(seq, k) == OnlyIn(seq, {seq[i] : i \in DOMAIN seq} \ {k})

Delete(c, k) ==
    [entry |-> [c.entry EXCEPT ![k] = NoEntry], recency |-> Without(c.recency, k)]
Touch(c, k) == [c EXCEPT !.recency = Append(Without(c.recency, k), k)]

\* get(k): a fresh entry is touched; a stale one is returned once, and deleted.
Get(c, k) ==
    IF ~Has(c, k) THEN c ELSE IF Stale(c, k) THEN Delete(c, k) ELSE Touch(c, k)

\* A full cache makes room for a new key; max 0 is no bound.
Evict(c, k, max) ==
    IF Has(c, k) \/ max = 0 \/ Len(c.recency) < max THEN c
    ELSE Delete(c, Head(c.recency))

\* set(k, v, {ttl}): also of a key already held, whose value, TTL and age it resets.
Set(c, k, v, ttl, max) ==
    LET room == Evict(c, k, max)
    IN  [entry |-> [room.entry EXCEPT ![k] = [value |-> v, ttl |-> ttl, age |-> 0]],
         recency |-> Append(Without(room.recency, k), k)]

\* A tick of the clock.  Ages beyond the TTL are all alike.
Aged(c) ==
    [c EXCEPT !.entry =
        [k \in Keys |->
            IF ~Has(c, k) \/ Stale(c, k) \/ c.entry[k].ttl = 0 THEN c.entry[k]
            ELSE [c.entry[k] EXCEPT !.age = @ + 1]]]

\* A cache of the right shape: recency lists exactly the keys held, each once, and
\* no more than max of them.
WellFormedCache(c, max) ==
    /\ c.entry \in [Keys -> Entries \cup {NoEntry}]
    /\ {c.recency[i] : i \in DOMAIN c.recency} = {k \in Keys : Has(c, k)}
    /\ \A i, j \in DOMAIN c.recency : c.recency[i] = c.recency[j] => i = j
    /\ max # 0 => Len(c.recency) <= max
=============================================================================
