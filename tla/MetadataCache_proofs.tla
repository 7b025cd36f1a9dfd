----------------------- MODULE MetadataCache_proofs -----------------------
(***************************************************************************)
(* Proofs of the safety properties of MetadataCache, and that it           *)
(* implements MetadataTable. That a prefetched block is served warm rests  *)
(* on how the least recently used key is found: while nothing disturbs the *)
(* caches, the keys of the block are the last ones used, so that a full    *)
(* cache finds another key to evict, for if it held only keys of the block *)
(* it would hold fewer than it has room for. The first two parts show that *)
(* of one cache, and what lookups and stores do to both; then come the     *)
(* invariant and its preservation, and the mapping to the table, one lemma *)
(* per action.                                                             *)
(***************************************************************************)
EXTENDS MetadataCacheTable, SequenceLemmas, FiniteSetTheorems

-----------------------------------------------------------------------------
(* The recency list of a cache.                                            *)

Elements(seq) == {seq[i] : i \in DOMAIN seq}
Distinct(seq) == \A i, j \in DOMAIN seq : seq[i] = seq[j] => i = j

\* The elements of U come after all the others.
Latest(seq, U) == \A i, j \in 1..Len(seq) : i < j /\ seq[i] \in U => seq[j] \in U

\* Taking an element out.
LEMMA WithoutIs ==
    ASSUME NEW X, NEW seq \in Seq(X), NEW k, Distinct(seq)
    PROVE  LET w == Lru!Without(seq, k)
           IN  /\ w \in Seq(X) /\ Distinct(w) /\ Elements(w) = Elements(seq) \ {k}
               /\ Len(w) <= Len(seq)
               /\ k \in Elements(seq) => Len(w) < Len(seq)
               /\ \A U : Latest(seq, U) => Latest(w, U) /\ Latest(w, U \cup {k})
<1> DEFINE S == Elements(seq) \ {k}
           w == OnlyIn(seq, S)
<1>1. Lru!Without(seq, k) = w
  BY Zenon DEF Lru!Without, Lru!OnlyIn, OnlyIn, Elements
<1>2. DOMAIN seq = 1..Len(seq) /\ Len(seq) \in Nat /\ \A i \in 1..Len(seq) : seq[i] \in Elements(seq)
  BY DEF Elements
<1> HIDE DEF S
<1>3. /\ w \in Seq(X) /\ DOMAIN w = 1..Len(w) /\ Len(w) \in Nat
      /\ \A i \in 1..Len(w) : w[i] \in S /\ \E j \in 1..Len(seq) : w[i] = seq[j]
  <2>1. w \in Seq(X) /\ \A i \in 1..Len(w) : w[i] \in S /\ \E j \in 1..Len(seq) : w[i] = seq[j]
    BY OnlyInType
  <2> QED
    BY <2>1
<1>4. \A i, j \in 1..Len(seq) : seq[i] = seq[j] => i = j
  BY <1>2 DEF Distinct
<1>5. \A i, j \in 1..Len(w) : w[i] = w[j] => i = j
  BY <1>4, OnlyInInjective
<1>6. \A j \in 1..Len(seq) : seq[j] \in S => \E i \in 1..Len(w) : w[i] = seq[j]
  BY OnlyInKeeps
<1>7. /\ Len(w) <= Len(seq)
      /\ (\E i \in 1..Len(seq) : seq[i] \notin S) => Len(w) < Len(seq)
  BY OnlyInLen
<1>8. \A i, j \in 1..Len(w) : i < j =>
        \E p, q \in 1..Len(seq) : p < q /\ w[i] = seq[p] /\ w[j] = seq[q]
  BY OnlyInOrder
<1> HIDE DEF w
<1>9. Elements(w) = Elements(seq) \ {k}
  <2>1. \A x \in Elements(w) : x \in S
    BY <1>3 DEF Elements
  <2>2. ASSUME NEW x \in S PROVE x \in Elements(w)
    <3>1. PICK j \in 1..Len(seq) : x = seq[j]
      BY <1>2 DEF Elements, S
    <3>2. PICK i \in 1..Len(w) : w[i] = seq[j]
      BY <1>6, <3>1
    <3> QED
      BY <1>3, <3>1, <3>2 DEF Elements
  <2> QED
    BY <2>1, <2>2 DEF S
<1>10. k \in Elements(seq) => Len(w) < Len(seq)
  BY <1>2, <1>7 DEF Elements, S
<1>11. ASSUME NEW U, Latest(seq, U) PROVE Latest(w, U) /\ Latest(w, U \cup {k})
  <2>1. \A i \in 1..Len(w) : w[i] # k
    BY <1>3 DEF S
  <2>2. \A i, j \in 1..Len(w) : i < j /\ w[i] \in U => w[j] \in U
    BY <1>8, <1>11 DEF Latest
  <2> QED
    BY <2>1, <2>2 DEF Latest
<1> QED
  BY <1>1, <1>3, <1>5, <1>7, <1>9, <1>10, <1>11 DEF Distinct

\* Putting an element at the end.
LEMMA AppendIs ==
    ASSUME NEW X, NEW seq \in Seq(X), NEW k \in X, Distinct(seq), k \notin Elements(seq)
    PROVE  LET a == Append(seq, k)
           IN  /\ a \in Seq(X) /\ Distinct(a) /\ Elements(a) = Elements(seq) \cup {k}
               /\ Len(a) = Len(seq) + 1
               /\ \A U : k \in U /\ Latest(seq, U) => Latest(a, U)
<1> DEFINE a == Append(seq, k)
           L == Len(seq)
<1>1. /\ a \in Seq(X) /\ L \in Nat /\ Len(a) = L + 1 /\ a[L + 1] = k
      /\ \A i \in 1..L : a[i] = seq[i]
      /\ DOMAIN a = 1..(L + 1) /\ DOMAIN seq = 1..L
  BY AppendProperties
<1>2. \A i \in 1..L : seq[i] # k
  BY <1>1 DEF Elements
<1> HIDE DEF a
<1>3. Distinct(a)
  BY <1>1, <1>2 DEF Distinct
<1>4. Elements(a) = Elements(seq) \cup {k}
  <2>1. \A i \in 1..(L + 1) : i \in 1..L \/ i = L + 1
    BY <1>1
  <2>2. \A i \in 1..L : i \in 1..(L + 1) /\ L + 1 \in 1..(L + 1)
    BY <1>1
  <2>3. L + 1 \in 1..(L + 1)
    BY <1>1
  <2> HIDE DEF L
  <2> QED
    BY <1>1, <2>1, <2>2, <2>3 DEF Elements
<1>5. ASSUME NEW U, k \in U, Latest(seq, U) PROVE Latest(a, U)
  BY <1>1, <1>5 DEF Latest
<1> QED
  BY <1>1, <1>3, <1>4, <1>5 DEF a

\* A list without repetitions of elements of a finite set is no longer than the set.
LEMMA LenIsCardinality ==
    ASSUME NEW X, NEW seq \in Seq(X), Distinct(seq), NEW U, IsFiniteSet(U), Elements(seq) \subseteq U
    PROVE  Len(seq) <= Cardinality(U)
<1>1. /\ Len(seq) \in Nat /\ DOMAIN seq = 1..Len(seq)
      /\ \A i \in 1..Len(seq) : seq[i] \in U
  BY DEF Elements
<1>2. seq \in [1..Len(seq) -> U]
  BY <1>1
<1>3. seq \in Injection(1..Len(seq), U)
  BY <1>1, <1>2 DEF Injection, IsInjective, Distinct
<1>4. Cardinality(1..Len(seq)) = Len(seq)
  BY <1>1, FS_Interval
<1> QED
  BY <1>3, <1>4, FS_Injection

\* The elements of a list are finitely many.
LEMMA ElementsAreFinite ==
    ASSUME NEW X, NEW seq \in Seq(X)
    PROVE  IsFiniteSet(Elements(seq))
<1>1. Len(seq) \in Nat /\ DOMAIN seq = 1..Len(seq) /\ seq \in [1..Len(seq) -> Elements(seq)]
  BY DEF Elements
<1>2. seq \in Surjection(1..Len(seq), Elements(seq))
  BY <1>1 DEF Surjection, Elements
<1>3. IsFiniteSet(1..Len(seq))
  BY <1>1, FS_Interval
<1> QED
  BY <1>2, <1>3, FS_Surjection

-----------------------------------------------------------------------------
(* The operations of one cache.                                            *)

CacheStates == [entry : [Keys -> Lru!Entries \cup {NoEntry}], recency : Seq(Keys)]

\* Recency lists exactly the keys held, each once.
ListsHeld(c) ==
    /\ c \in CacheStates /\ Distinct(c.recency)
    /\ Elements(c.recency) = {k \in Keys : Lru!Has(c, k)}
Bounded(c, max) == max # 0 => Len(c.recency) <= max

\* Deleting a key: the list loses it, the rest keep their order.
LEMMA DeleteIs ==
    ASSUME NEW c, ListsHeld(c), NEW k \in Keys
    PROVE  LET d == Lru!Delete(c, k)
           IN  /\ ListsHeld(d) /\ d.entry = [c.entry EXCEPT ![k] = NoEntry]
               /\ Len(d.recency) <= Len(c.recency)
               /\ Lru!Has(c, k) => Len(d.recency) < Len(c.recency)
               /\ \A U : Latest(c.recency, U) =>
                      Latest(d.recency, U) /\ Latest(d.recency, U \cup {k})
<1> DEFINE w == Lru!Without(c.recency, k)
           e == [c.entry EXCEPT ![k] = NoEntry]
           d == [entry |-> e, recency |-> w]
<1>1. Lru!Delete(c, k) = d
  BY DEF Lru!Delete
<1>2. /\ c.recency \in Seq(Keys) /\ Distinct(c.recency)
      /\ c.entry \in [Keys -> Lru!Entries \cup {NoEntry}]
      /\ Elements(c.recency) = {x \in Keys : c.entry[x] # NoEntry}
  BY DEF ListsHeld, CacheStates, Lru!Has
<1>3. /\ w \in Seq(Keys) /\ Distinct(w) /\ Elements(w) = Elements(c.recency) \ {k}
      /\ Len(w) <= Len(c.recency)
      /\ k \in Elements(c.recency) => Len(w) < Len(c.recency)
      /\ \A U : Latest(c.recency, U) => Latest(w, U) /\ Latest(w, U \cup {k})
  <2> DEFINE q == c.recency
  <2>1. q \in Seq(Keys) /\ Distinct(q)
    BY <1>2
  <2> HIDE DEF q
  <2>2. LET v == Lru!Without(q, k)
        IN  /\ v \in Seq(Keys) /\ Distinct(v) /\ Elements(v) = Elements(q) \ {k}
            /\ Len(v) <= Len(q)
            /\ k \in Elements(q) => Len(v) < Len(q)
            /\ \A U : Latest(q, U) => Latest(v, U) /\ Latest(v, U \cup {k})
    BY <2>1, WithoutIs
  <2> QED
    BY <2>2 DEF q
<1>4. e \in [Keys -> Lru!Entries \cup {NoEntry}]
  BY <1>2
<1>5. {x \in Keys : e[x] # NoEntry} = {x \in Keys : c.entry[x] # NoEntry} \ {k}
  BY <1>2
<1> HIDE DEF w, e
<1>6. d \in CacheStates
  BY <1>3, <1>4 DEF CacheStates
<1>7. ListsHeld(d)
  BY <1>2, <1>3, <1>5, <1>6 DEF ListsHeld, Lru!Has
<1>8. Lru!Has(c, k) => k \in Elements(c.recency)
  BY <1>2 DEF Lru!Has
<1> QED
  BY <1>1, <1>3, <1>7, <1>8 DEF e

\* Touching a key makes it the last one used, and changes no entry.
LEMMA TouchIs ==
    ASSUME NEW c, ListsHeld(c), NEW k \in Keys, Lru!Has(c, k)
    PROVE  LET t == Lru!Touch(c, k)
           IN  /\ ListsHeld(t) /\ t.entry = c.entry /\ Len(t.recency) <= Len(c.recency)
               /\ \A U : Latest(c.recency, U) => Latest(t.recency, U \cup {k})
<1> DEFINE w == Lru!Without(c.recency, k)
           m == Append(w, k)
           t == [entry |-> c.entry, recency |-> m]
<1>1. Lru!Touch(c, k) = t
  <2>1. c = [entry |-> c.entry, recency |-> c.recency]
    BY DEF ListsHeld, CacheStates
  <2>2. Lru!Touch(c, k) = [c EXCEPT !.recency = m]
    BY DEF Lru!Touch
  <2> HIDE DEF m
  <2> QED
    BY <2>1, <2>2
<1>2. /\ c.recency \in Seq(Keys) /\ Distinct(c.recency)
      /\ c.entry \in [Keys -> Lru!Entries \cup {NoEntry}]
      /\ Elements(c.recency) = {x \in Keys : c.entry[x] # NoEntry}
      /\ k \in Elements(c.recency)
  BY DEF ListsHeld, CacheStates, Lru!Has
<1>3. /\ w \in Seq(Keys) /\ Distinct(w) /\ Elements(w) = Elements(c.recency) \ {k}
      /\ Len(w) < Len(c.recency)
      /\ \A U : Latest(c.recency, U) => Latest(w, U \cup {k})
  <2> DEFINE q == c.recency
  <2>1. q \in Seq(Keys) /\ Distinct(q) /\ k \in Elements(q)
    BY <1>2
  <2> HIDE DEF q
  <2>2. LET v == Lru!Without(q, k)
        IN  /\ v \in Seq(Keys) /\ Distinct(v) /\ Elements(v) = Elements(q) \ {k}
            /\ Len(v) < Len(q)
            /\ \A U : Latest(q, U) => Latest(v, U \cup {k})
    BY <2>1, WithoutIs
  <2> QED
    BY <2>2 DEF q
<1> HIDE DEF w
<1>4. /\ m \in Seq(Keys) /\ Distinct(m) /\ Elements(m) = Elements(w) \cup {k}
      /\ Len(m) = Len(w) + 1
      /\ \A U : k \in U /\ Latest(w, U) => Latest(m, U)
  BY <1>3, AppendIs
<1> HIDE DEF m
<1>5. t \in CacheStates
  BY <1>2, <1>4 DEF CacheStates
<1>6. Elements(m) = Elements(c.recency)
  BY <1>2, <1>3, <1>4
<1>7. ListsHeld(t)
  BY <1>2, <1>4, <1>5, <1>6 DEF ListsHeld, Lru!Has
<1>8. Len(m) <= Len(c.recency)
  BY <1>2, <1>3, <1>4
<1>9. \A U : Latest(c.recency, U) => Latest(m, U \cup {k})
  BY <1>3, <1>4
<1> QED
  BY <1>1, <1>7, <1>8, <1>9

\* A get deletes the entry if it is stale; otherwise k is the last key used.
LEMMA GetIs ==
    ASSUME NEW c, ListsHeld(c), NEW k \in Keys
    PROVE  LET g == Lru!Get(c, k)
           IN  /\ ListsHeld(g) /\ Len(g.recency) <= Len(c.recency)
               /\ g.entry = IF Lru!Has(c, k) /\ Lru!Stale(c, k)
                            THEN [c.entry EXCEPT ![k] = NoEntry] ELSE c.entry
               /\ \A U : Latest(c.recency, U) => Latest(g.recency, U \cup {k})
<1>1. CASE ~Lru!Has(c, k)
  <2>1. Lru!Get(c, k) = c
    BY <1>1 DEF Lru!Get
  <2>2. k \notin Elements(c.recency) /\ c.recency \in Seq(Keys)
    BY <1>1 DEF ListsHeld, CacheStates
  <2>3. \A i \in 1..Len(c.recency) : c.recency[i] # k
    BY <2>2 DEF Elements
  <2>4. \A U : Latest(c.recency, U) => Latest(c.recency, U \cup {k})
    BY <2>3 DEF Latest
  <2> QED
    BY <1>1, <2>1, <2>2, <2>4
<1>2. CASE Lru!Has(c, k) /\ Lru!Stale(c, k)
  <2>1. Lru!Get(c, k) = Lru!Delete(c, k)
    BY <1>2 DEF Lru!Get
  <2> DEFINE d == Lru!Delete(c, k)
  <2>2. /\ ListsHeld(d) /\ d.entry = [c.entry EXCEPT ![k] = NoEntry]
        /\ Len(d.recency) <= Len(c.recency)
        /\ \A U : Latest(c.recency, U) => Latest(d.recency, U \cup {k})
    BY DeleteIs
  <2> HIDE DEF d
  <2> QED
    BY <1>2, <2>1, <2>2 DEF d
<1>3. CASE Lru!Has(c, k) /\ ~Lru!Stale(c, k)
  <2>1. Lru!Get(c, k) = Lru!Touch(c, k)
    BY <1>3 DEF Lru!Get
  <2> QED
    BY <1>3, <2>1, TouchIs
<1> QED
  BY <1>1, <1>2, <1>3

\* A cache that fits the keys in use never evicts one of them for another.
LEMMA EvictIs ==
    ASSUME NEW c, ListsHeld(c), NEW k \in Keys, NEW max \in Nat, Bounded(c, max)
    PROVE  LET e == Lru!Evict(c, k, max)
           IN  /\ ListsHeld(e) /\ Bounded(e, max)
               /\ max # 0 /\ ~Lru!Has(c, k) => Len(e.recency) < max
               /\ \A x \in Keys : e.entry[x] \in {c.entry[x], NoEntry}
               /\ Lru!Has(c, k) => e = c
               /\ \A U : Latest(c.recency, U) =>
                     /\ Latest(e.recency, U)
                     /\ k \in U /\ IsFiniteSet(U) /\ (max = 0 \/ Cardinality(U) <= max) =>
                          \A x \in U \cap Keys : e.entry[x] = c.entry[x]
<1>0. c.recency \in Seq(Keys) /\ Len(c.recency) \in Nat /\ Distinct(c.recency)
      /\ c.entry \in [Keys -> Lru!Entries \cup {NoEntry}]
  BY DEF ListsHeld, CacheStates
<1>1. CASE Lru!Has(c, k) \/ max = 0 \/ Len(c.recency) < max
  <2>1. Lru!Evict(c, k, max) = c
    BY <1>1 DEF Lru!Evict
  <2> QED
    BY <1>1, <2>1
<1>2. CASE ~(Lru!Has(c, k) \/ max = 0 \/ Len(c.recency) < max)
  <2> DEFINE h == Head(c.recency)
             e == Lru!Delete(c, h)
  <2>1. Lru!Evict(c, k, max) = e
    BY <1>2 DEF Lru!Evict
  <2>2. Len(c.recency) = max /\ max >= 1
    BY <1>0, <1>2 DEF Bounded
  <2>3. h = c.recency[1] /\ h \in Keys /\ 1 \in DOMAIN c.recency
    BY <1>0, <2>2
  <2>4. h \in Elements(c.recency)
    BY <2>3 DEF Elements
  <2>5. Lru!Has(c, h)
    BY <2>4 DEF ListsHeld
  <2> HIDE DEF h
  <2>6. /\ ListsHeld(e) /\ e.entry = [c.entry EXCEPT ![h] = NoEntry]
        /\ Len(e.recency) < Len(c.recency)
        /\ \A U : Latest(c.recency, U) => Latest(e.recency, U)
    BY <2>3, <2>5, DeleteIs
  <2>7. Len(e.recency) < max
    BY <2>2, <2>6
  <2>8. \A x \in Keys : e.entry[x] \in {c.entry[x], NoEntry} /\ (x # h => e.entry[x] = c.entry[x])
    BY <1>0, <2>6
  <2>9. ASSUME NEW U, Latest(c.recency, U), k \in U, IsFiniteSet(U), Cardinality(U) <= max
        PROVE  h \notin U
    <3> SUFFICES ASSUME h \in U PROVE FALSE
      OBVIOUS
    <3>1. \A i \in 1..Len(c.recency) : c.recency[i] \in U
      BY <1>0, <2>3, <2>9 DEF Latest
    <3>2. k \notin Elements(c.recency)
      BY <1>2 DEF ListsHeld
    <3>3. Elements(c.recency) \subseteq U \ {k}
      BY <1>0, <3>1, <3>2 DEF Elements
    <3>4. IsFiniteSet(U \ {k}) /\ Cardinality(U \ {k}) = Cardinality(U) - 1
      BY <2>9, FS_RemoveElement
    <3>5. Len(c.recency) <= Cardinality(U \ {k})
      BY <1>0, <3>3, <3>4, LenIsCardinality
    <3>6. Cardinality(U) \in Nat
      BY <2>9, FS_CardinalityType
    <3> QED
      BY <2>2, <2>9, <3>4, <3>5, <3>6
  <2>10. \A U : Latest(c.recency, U) /\ k \in U /\ IsFiniteSet(U)
               /\ (max = 0 \/ Cardinality(U) <= max) =>
                  \A x \in U \cap Keys : e.entry[x] = c.entry[x]
    BY <1>2, <2>8, <2>9
  <2> HIDE DEF e
  <2>11. Bounded(e, max)
    <3>1. Len(e.recency) \in Nat
      BY <2>6 DEF ListsHeld, CacheStates
    <3> QED
      BY <2>7, <3>1 DEF Bounded
  <2> QED
    BY <1>2, <2>1, <2>6, <2>7, <2>8, <2>10, <2>11
<1> QED
  BY <1>1, <1>2

\* The greatest TTL.
LEMMA TtlsAre ==
    /\ Max({Ttl, ErrorTtl, AbiTtl}) \in Nat
    /\ {Ttl, ErrorTtl, AbiTtl, 0} \subseteq 0..Max({Ttl, ErrorTtl, AbiTtl})
<1>1. Ttl \in Nat /\ ErrorTtl \in Nat /\ AbiTtl \in Nat
  BY CacheAssumption
<1>2. \E x \in {Ttl, ErrorTtl, AbiTtl} : \A y \in {Ttl, ErrorTtl, AbiTtl} : x >= y
  BY <1>1
<1>3. /\ Max({Ttl, ErrorTtl, AbiTtl}) \in {Ttl, ErrorTtl, AbiTtl}
      /\ \A y \in {Ttl, ErrorTtl, AbiTtl} : Max({Ttl, ErrorTtl, AbiTtl}) >= y
  BY <1>2 DEF Max
<1> QED
  BY <1>1, <1>3

\* The cache s is c after k was set: another may have been evicted, but none in use
\* if they all fit.
IsSet(s, c, k, v, ttl, max) ==
    /\ ListsHeld(s) /\ Bounded(s, max)
    /\ s.entry[k] = [value |-> v, ttl |-> ttl, age |-> 0]
    /\ \A x \in Keys \ {k} : s.entry[x] \in {c.entry[x], NoEntry}
    /\ \A U : Latest(c.recency, U) /\ k \in U =>
          /\ Latest(s.recency, U)
          /\ IsFiniteSet(U) /\ (max = 0 \/ Cardinality(U) <= max) =>
               \A x \in (U \cap Keys) \ {k} : s.entry[x] = c.entry[x]

\* Setting a key keeps the cache within its bound.
LEMMA SetIs ==
    ASSUME NEW c, ListsHeld(c), NEW k \in Keys, NEW max \in Nat, Bounded(c, max),
           NEW v \in Values, NEW ttl \in {Ttl, ErrorTtl, AbiTtl}
    PROVE  IsSet(Lru!Set(c, k, v, ttl, max), c, k, v, ttl, max)
<1> DEFINE room == Lru!Evict(c, k, max)
           new == [value |-> v, ttl |-> ttl, age |-> 0]
           r == room.recency
           w == Lru!Without(r, k)
           m == Append(w, k)
           e == [room.entry EXCEPT ![k] = new]
           s == [entry |-> e, recency |-> m]
<1>1. Lru!Set(c, k, v, ttl, max) = s
  BY DEF Lru!Set
<1>2. /\ ListsHeld(room) /\ Bounded(room, max)
      /\ max # 0 /\ ~Lru!Has(c, k) => Len(r) < max
      /\ \A x \in Keys : room.entry[x] \in {c.entry[x], NoEntry}
      /\ Lru!Has(c, k) => room = c
      /\ \A U : Latest(c.recency, U) =>
            /\ Latest(r, U)
            /\ k \in U /\ IsFiniteSet(U) /\ (max = 0 \/ Cardinality(U) <= max) =>
                 \A x \in U \cap Keys : room.entry[x] = c.entry[x]
  BY EvictIs
<1> HIDE DEF room
<1>3. /\ r \in Seq(Keys) /\ Len(r) \in Nat /\ Distinct(r)
      /\ room.entry \in [Keys -> Lru!Entries \cup {NoEntry}]
      /\ Elements(r) = {x \in Keys : room.entry[x] # NoEntry}
  BY <1>2 DEF ListsHeld, CacheStates, Lru!Has
<1>4. new \in Lru!Entries /\ new # NoEntry
  <2>1. new \in Lru!Entries
    BY TtlsAre DEF Lru!Entries
  <2> QED
    BY <2>1, BlockAssumption
<1> HIDE DEF r, new
<1>5. /\ w \in Seq(Keys) /\ Len(w) \in Nat /\ Distinct(w) /\ Elements(w) = Elements(r) \ {k}
      /\ Len(w) <= Len(r)
      /\ k \in Elements(r) => Len(w) < Len(r)
      /\ \A U : Latest(r, U) => Latest(w, U)
  <2>1. /\ w \in Seq(Keys) /\ Distinct(w) /\ Elements(w) = Elements(r) \ {k}
        /\ Len(w) <= Len(r)
        /\ k \in Elements(r) => Len(w) < Len(r)
        /\ \A U : Latest(r, U) => Latest(w, U)
    BY <1>3, WithoutIs
  <2> HIDE DEF w
  <2> QED
    BY <2>1
<1> HIDE DEF w
<1>6. /\ m \in Seq(Keys) /\ Distinct(m) /\ Elements(m) = Elements(w) \cup {k}
      /\ Len(m) = Len(w) + 1
      /\ \A U : k \in U /\ Latest(w, U) => Latest(m, U)
  BY <1>5, AppendIs
<1>7. /\ e \in [Keys -> Lru!Entries \cup {NoEntry}] /\ e[k] = new
      /\ \A x \in Keys \ {k} : e[x] = room.entry[x]
  BY <1>3, <1>4
<1> HIDE DEF m, e
<1>8. ListsHeld(s)
  <2>1. s \in CacheStates
    BY <1>6, <1>7 DEF CacheStates
  <2>2. Elements(m) = {x \in Keys : e[x] # NoEntry}
    BY <1>3, <1>4, <1>5, <1>6, <1>7
  <2> QED
    BY <1>6, <2>1, <2>2 DEF ListsHeld, Lru!Has
<1>9. Bounded(s, max)
  <2>1. CASE Lru!Has(c, k)
    <3>1. room.entry[k] # NoEntry /\ Bounded(room, max)
      BY <1>2, <2>1 DEF Lru!Has
    <3>2. k \in Elements(r)
      BY <1>3, <3>1
    <3> QED
      BY <1>3, <1>5, <1>6, <3>1, <3>2 DEF Bounded, r
  <2>2. CASE ~Lru!Has(c, k)
    BY <1>2, <1>3, <1>5, <1>6, <2>2 DEF Bounded
  <2> QED
    BY <2>1, <2>2
<1>10. \A x \in Keys \ {k} : e[x] \in {c.entry[x], NoEntry}
  BY <1>2, <1>7
<1>11. ASSUME NEW U, Latest(c.recency, U), k \in U
       PROVE  /\ Latest(m, U)
              /\ IsFiniteSet(U) /\ (max = 0 \/ Cardinality(U) <= max) =>
                   \A x \in (U \cap Keys) \ {k} : e[x] = c.entry[x]
  <2>1. Latest(m, U)
    BY <1>2, <1>5, <1>6, <1>11
  <2>2. ASSUME IsFiniteSet(U), max = 0 \/ Cardinality(U) <= max, NEW x \in (U \cap Keys) \ {k}
        PROVE  e[x] = c.entry[x]
    BY <1>2, <1>7, <1>11, <2>2
  <2> QED
    BY <2>1, <2>2
<1> QED
  BY <1>1, <1>7, <1>8, <1>9, <1>10, <1>11 DEF new, IsSet

\* The clock changes nothing but ages.
LEMMA AgedIs ==
    ASSUME NEW c, ListsHeld(c)
    PROVE  LET a == Lru!Aged(c)
           IN  /\ ListsHeld(a) /\ a.recency = c.recency
               /\ \A x \in Keys : /\ Lru!Has(a, x) <=> Lru!Has(c, x)
                                  /\ Lru!Has(a, x) => /\ a.entry[x].value = c.entry[x].value
                                                     /\ a.entry[x].ttl = c.entry[x].ttl
<1> DEFINE e == [x \in Keys |->
                   IF ~Lru!Has(c, x) \/ Lru!Stale(c, x) \/ c.entry[x].ttl = 0 THEN c.entry[x]
                   ELSE [c.entry[x] EXCEPT !.age = @ + 1]]
           a == [entry |-> e, recency |-> c.recency]
<1>1. /\ c.recency \in Seq(Keys) /\ Distinct(c.recency)
      /\ c.entry \in [Keys -> Lru!Entries \cup {NoEntry}]
      /\ Elements(c.recency) = {x \in Keys : c.entry[x] # NoEntry}
      /\ c = [entry |-> c.entry, recency |-> c.recency]
  BY DEF ListsHeld, CacheStates, Lru!Has
<1>2. Lru!Aged(c) = a
  <2>1. Lru!Aged(c) = [c EXCEPT !.entry = e]
    BY DEF Lru!Aged
  <2> HIDE DEF e
  <2> QED
    BY <1>1, <2>1
<1>3. ASSUME NEW x \in Keys
      PROVE  /\ e[x] \in Lru!Entries \cup {NoEntry}
             /\ e[x] = NoEntry <=> c.entry[x] = NoEntry
             /\ c.entry[x] # NoEntry => /\ e[x].value = c.entry[x].value
                                        /\ e[x].ttl = c.entry[x].ttl
  <2>1. CASE ~Lru!Has(c, x) \/ Lru!Stale(c, x) \/ c.entry[x].ttl = 0
    <3>1. e[x] = c.entry[x]
      BY <2>1
    <3> HIDE DEF e
    <3> QED
      BY <1>1, <3>1
  <2>2. CASE ~(~Lru!Has(c, x) \/ Lru!Stale(c, x) \/ c.entry[x].ttl = 0)
    <3> DEFINE old == c.entry[x]
    <3>1. e[x] = [old EXCEPT !.age = @ + 1]
      BY <2>2
    <3>2. old \in Lru!Entries /\ old # NoEntry /\ old.ttl # 0 /\ ~(old.age >= old.ttl)
      BY <1>1, <2>2 DEF Lru!Has, Lru!Stale
    <3> HIDE DEF e, old
    <3>3. /\ old.ttl \in 0..Max({Ttl, ErrorTtl, AbiTtl}) /\ old.age + 1 \in 0..Max({Ttl, ErrorTtl, AbiTtl})
          /\ old.value \in Values
          /\ old = [value |-> old.value, ttl |-> old.ttl, age |-> old.age]
      BY <3>2, TtlsAre DEF Lru!Entries
    <3>4. e[x] = [value |-> old.value, ttl |-> old.ttl, age |-> old.age + 1]
      BY <3>1, <3>3
    <3>5. e[x] \in Lru!Entries
      BY <3>3, <3>4 DEF Lru!Entries
    <3> QED
      BY <3>2, <3>4, <3>5, BlockAssumption DEF old
  <2> QED
    BY <2>1, <2>2
<1>4. e \in [Keys -> Lru!Entries \cup {NoEntry}]
  <2>1. \A x \in Keys : e[x] \in Lru!Entries \cup {NoEntry}
    BY <1>3
  <2>2. e = [x \in Keys |-> e[x]]
    OBVIOUS
  <2> HIDE DEF e
  <2> QED
    BY <2>1, <2>2
<1> HIDE DEF e
<1>5. ListsHeld(a)
  <2>1. a \in CacheStates
    BY <1>1, <1>4 DEF CacheStates
  <2>2. Elements(c.recency) = {x \in Keys : e[x] # NoEntry}
    BY <1>1, <1>3
  <2> QED
    BY <1>1, <2>1, <2>2 DEF ListsHeld, Lru!Has
<1> QED
  BY <1>2, <1>3, <1>5 DEF Lru!Has

-----------------------------------------------------------------------------
(* The operations of the two caches.                                       *)

Kinds == {"token", "abi"}
KeysOf(kind) == {k \in Keys : KindOf(k) = kind}
SizeFor(kind) == IF kind = "token" THEN TokenCacheSize ELSE AbiCacheSize
EntryIn(c, k) == c[KindOf(k)].entry[k]
HasIn(c, k) == EntryIn(c, k) # NoEntry
Outdated(entry) == entry # NoEntry /\ entry.ttl # 0 /\ entry.age >= entry.ttl

\* Both caches have the right shape, and hold keys of their kind.
CachesOK(c) ==
    /\ c \in [Kinds -> CacheStates]
    /\ \A kind \in Kinds :
         /\ ListsHeld(c[kind]) /\ Bounded(c[kind], SizeFor(kind))
         /\ \A k \in Keys : Lru!Has(c[kind], k) => KindOf(k) = kind

\* The keys of U are the most recently used of each cache, and there is room for them.
InUse(c, U) == \A kind \in Kinds : Latest(c[kind].recency, U \cap KeysOf(kind))
Fits(U) ==
    \A kind \in Kinds :
        SizeFor(kind) = 0 \/ Cardinality(U \cap KeysOf(kind)) <= SizeFor(kind)

\* Every key belongs to one of the caches, and each has its size.
LEMMA KindsAre ==
    /\ \A k \in Keys : KindOf(k) \in Kinds /\ SizeOf(k) = SizeFor(KindOf(k)) /\ k \in KeysOf(KindOf(k))
    /\ \A kind \in Kinds : SizeFor(kind) \in Nat
    /\ KeysOf("token") = Tokens /\ KeysOf("abi") = Contracts
<1>1. TokenCacheSize \in Nat /\ AbiCacheSize \in Nat /\ Tokens \cap Contracts = {}
  BY CacheAssumption
<1> QED
  BY <1>1 DEF KindOf, Kinds, SizeOf, SizeFor, KeysOf, Keys

\* Changing one cache.
LEMMA OneCache ==
    ASSUME NEW c, CachesOK(c), NEW k \in Keys, NEW g,
           ListsHeld(g), Bounded(g, SizeFor(KindOf(k))),
           \A x \in Keys \ {k} : g.entry[x] \in {c[KindOf(k)].entry[x], NoEntry}
    PROVE  LET d == [c EXCEPT ![KindOf(k)] = g]
           IN  /\ CachesOK(d) /\ d[KindOf(k)] = g
               /\ EntryIn(d, k) = g.entry[k]
               /\ \A x \in Keys : EntryIn(d, x) =
                    IF KindOf(x) = KindOf(k) THEN g.entry[x] ELSE EntryIn(c, x)
               /\ \A U, V : /\ InUse(c, U) /\ V \ {k} = U \ {k}
                          /\ Latest(g.recency, V \cap KeysOf(KindOf(k)))
                          => InUse(d, V)
<1> DEFINE kd == KindOf(k)
           d == [c EXCEPT ![kd] = g]
<1>1. /\ c \in [Kinds -> CacheStates] /\ kd \in Kinds /\ g \in CacheStates
      /\ \A kind \in Kinds :
           /\ ListsHeld(c[kind]) /\ Bounded(c[kind], SizeFor(kind))
           /\ \A x \in Keys : Lru!Has(c[kind], x) => KindOf(x) = kind
  BY KindsAre DEF CachesOK, ListsHeld
<1>2. d[kd] = g /\ d \in [Kinds -> CacheStates] /\ \A kind \in Kinds \ {kd} : d[kind] = c[kind]
  BY <1>1
<1>3. ASSUME NEW x \in Keys, Lru!Has(g, x) PROVE KindOf(x) = kd
  <2>1. CASE x = k
    BY <2>1
  <2>2. CASE x # k
    <3>1. c[kd].entry[x] # NoEntry
      BY <1>3, <2>2 DEF Lru!Has
    <3> QED
      BY <1>1, <3>1 DEF Lru!Has
  <2> QED
    BY <2>1, <2>2
<1> HIDE DEF d
<1>4. CachesOK(d)
  <2>1. ASSUME NEW kind \in Kinds
        PROVE  /\ ListsHeld(d[kind]) /\ Bounded(d[kind], SizeFor(kind))
               /\ \A x \in Keys : Lru!Has(d[kind], x) => KindOf(x) = kind
    <3>1. CASE kind = kd
      BY <1>2, <1>3, <3>1
    <3>2. CASE kind # kd
      BY <1>1, <1>2, <3>2
    <3> QED
      BY <3>1, <3>2
  <2> QED
    BY <1>2, <2>1 DEF CachesOK
<1>5. \A x \in Keys : EntryIn(d, x) = IF KindOf(x) = kd THEN g.entry[x] ELSE EntryIn(c, x)
  BY <1>2, KindsAre DEF EntryIn
<1>6. ASSUME NEW U, NEW V, InUse(c, U), V \ {k} = U \ {k}, Latest(g.recency, V \cap KeysOf(kd))
      PROVE  InUse(d, V)
  <2>1. ASSUME NEW kind \in Kinds PROVE Latest(d[kind].recency, V \cap KeysOf(kind))
    <3>1. CASE kind = kd
      BY <1>2, <1>6, <3>1
    <3>2. CASE kind # kd
      <4>1. k \notin KeysOf(kind)
        BY <3>2 DEF KeysOf
      <4>2. V \cap KeysOf(kind) = U \cap KeysOf(kind)
        BY <1>6, <4>1
      <4> QED
        BY <1>2, <1>6, <3>2, <4>2 DEF InUse
    <3> QED
      BY <3>1, <3>2
  <2> QED
    BY <2>1 DEF InUse
<1> QED
  BY <1>2, <1>4, <1>5, <1>6 DEF d

\* Looking up one key.
LEMMA LookedUpIs ==
    ASSUME NEW c, CachesOK(c), NEW k \in Keys
    PROVE  LET l == LookedUp(c, k)
           IN  /\ CachesOK(l)
               /\ \A x \in Keys : EntryIn(l, x) =
                    IF x = k /\ Outdated(EntryIn(c, x)) THEN NoEntry ELSE EntryIn(c, x)
               /\ \A U : InUse(c, U) => InUse(l, U \cup {k})
<1> DEFINE kd == KindOf(k)
           b == c[kd]
           g == Lru!Get(b, k)
           l == [c EXCEPT ![kd] = g]
<1>1. LookedUp(c, k) = l
  BY DEF LookedUp
<1>2. /\ kd \in Kinds /\ ListsHeld(b) /\ Bounded(b, SizeFor(kd)) /\ k \in KeysOf(kd)
      /\ b.entry \in [Keys -> Lru!Entries \cup {NoEntry}] /\ b.recency \in Seq(Keys)
  BY KindsAre DEF CachesOK, ListsHeld, CacheStates
<1> HIDE DEF kd, b
<1>3. /\ ListsHeld(g) /\ Len(g.recency) <= Len(b.recency)
      /\ g.entry = IF Lru!Has(b, k) /\ Lru!Stale(b, k)
                   THEN [b.entry EXCEPT ![k] = NoEntry] ELSE b.entry
      /\ \A U : Latest(b.recency, U) => Latest(g.recency, U \cup {k})
  BY <1>2, GetIs
<1> HIDE DEF g
<1>4. \A x \in Keys : g.entry[x] = IF x = k /\ Outdated(b.entry[x]) THEN NoEntry ELSE b.entry[x]
  BY <1>2, <1>3 DEF Outdated, Lru!Has, Lru!Stale
<1>5. Bounded(g, SizeFor(kd))
  <2>1. Len(g.recency) \in Nat /\ Len(b.recency) \in Nat /\ SizeFor(kd) \in Nat
    BY <1>2, <1>3, KindsAre DEF ListsHeld, CacheStates
  <2> QED
    BY <1>2, <1>3, <2>1 DEF Bounded
<1>6. \A x \in Keys \ {k} : g.entry[x] \in {c[KindOf(k)].entry[x], NoEntry}
  BY <1>4 DEF b, kd
<1>7. /\ CachesOK(l)
      /\ \A x \in Keys : EntryIn(l, x) = IF KindOf(x) = kd THEN g.entry[x] ELSE EntryIn(c, x)
      /\ \A U, V : InUse(c, U) /\ V \ {k} = U \ {k} /\ Latest(g.recency, V \cap KeysOf(kd))
               => InUse(l, V)
  <2>1. Bounded(g, SizeFor(KindOf(k)))
    BY <1>5 DEF kd
  <2>2. LET d == [c EXCEPT ![KindOf(k)] = g]
        IN  /\ CachesOK(d) /\ d[KindOf(k)] = g
            /\ EntryIn(d, k) = g.entry[k]
            /\ \A x \in Keys : EntryIn(d, x) =
                 IF KindOf(x) = KindOf(k) THEN g.entry[x] ELSE EntryIn(c, x)
            /\ \A U, V : /\ InUse(c, U) /\ V \ {k} = U \ {k}
                       /\ Latest(g.recency, V \cap KeysOf(KindOf(k)))
                       => InUse(d, V)
    BY <1>3, <1>6, <2>1, OneCache
  <2> QED
    BY <2>2 DEF kd
<1> HIDE DEF l
<1>8. \A x \in Keys : EntryIn(l, x) =
        IF x = k /\ Outdated(EntryIn(c, x)) THEN NoEntry ELSE EntryIn(c, x)
  BY <1>4, <1>7 DEF EntryIn, b, kd
<1>9. ASSUME NEW U, InUse(c, U) PROVE InUse(l, U \cup {k})
  <2>1. Latest(b.recency, U \cap KeysOf(kd))
    BY <1>2, <1>9 DEF InUse, b
  <2>2. Latest(g.recency, (U \cap KeysOf(kd)) \cup {k})
    BY <1>3, <2>1
  <2>3. (U \cap KeysOf(kd)) \cup {k} = (U \cup {k}) \cap KeysOf(kd)
    BY <1>2
  <2>4. (U \cup {k}) \ {k} = U \ {k}
    OBVIOUS
  <2> QED
    BY <1>7, <1>9, <2>2, <2>3, <2>4
<1> QED
  BY <1>1, <1>7, <1>8, <1>9

\* The caches after the first n lookups, n by n.
LookUps(c, keys) ==
    {g \in [0..Len(keys) -> {d \in [Kinds -> CacheStates] : CachesOK(d)}] :
        /\ AllLookedUp(c, keys) = g[Len(keys)]
        /\ g[0] = c /\ \A n \in 1..Len(keys) : g[n] = LookedUp(g[n - 1], keys[n])}

\* The lookups of a list of keys are such a function: the recursion has a solution.
LEMMA LookUpsExist ==
    ASSUME NEW c, CachesOK(c), NEW keys \in Seq(Keys)
    PROVE  \E g \in LookUps(c, keys) : TRUE
<1> DEFINE N == Len(keys)
           X == {d \in [Kinds -> CacheStates] : CachesOK(d)}
           next == [p \in X \X (1..N) |-> LookedUp(p[1], keys[p[2]])]
<1>1. N \in Nat /\ c \in X /\ \A n \in 1..N : keys[n] \in Keys
  BY DEF CachesOK
<1>2. \A d \in X, n \in 1..N : next[<<d, n>>] = LookedUp(d, keys[n])
  OBVIOUS
<1>3. ASSUME NEW d \in X, NEW n \in 1..N PROVE next[<<d, n>>] \in X
  <2>1. next[<<d, n>>] = LookedUp(d, keys[n]) /\ CachesOK(d) /\ keys[n] \in Keys
    BY <1>1, <1>2
  <2>2. CachesOK(LookedUp(d, keys[n]))
    BY <2>1, LookedUpIs
  <2> QED
    BY <2>1, <2>2 DEF CachesOK
<1> HIDE DEF X, next, N
<1>4. PICK g \in Solutions(X, c, N, next) : TRUE
  BY <1>1, <1>3, Solution
<1>5. g \in [0..N -> X] /\ g[0] = c /\ \A n \in 1..N : g[n] = next[<<g[n - 1], n>>]
  BY <1>4 DEF Solutions
<1>6. ASSUME NEW n \in 1..N PROVE g[n] = LookedUp(g[n - 1], keys[n])
  <2>1. g[n] = next[<<g[n - 1], n>>] /\ g[n - 1] \in X
    BY <1>1, <1>5
  <2> QED
    BY <2>1, <1>2
<1>7. AllLookedUp(c, keys) = g[N]
  <2> DEFINE Follows(f) ==
               f = [n \in 0..N |-> IF n = 0 THEN c ELSE LookedUp(f[n - 1], keys[n])]
             after == CHOOSE f : Follows(f)
  <2>1. Follows(g)
    <3>1. ASSUME NEW n \in 0..N PROVE g[n] = IF n = 0 THEN c ELSE LookedUp(g[n - 1], keys[n])
      <4>1. n # 0 => n \in 1..N
        BY <1>1
      <4> QED
        BY <1>5, <1>6, <4>1
    <3>2. g = [n \in 0..N |-> g[n]]
      BY <1>5
    <3>3. [n \in 0..N |-> g[n]]
            = [n \in 0..N |-> IF n = 0 THEN c ELSE LookedUp(g[n - 1], keys[n])]
      BY <3>1, Zenon
    <3> QED
      BY <3>2, <3>3, Zenon
  <2>2. Follows(after)
    BY <2>1
  <2>3. AllLookedUp(c, keys) = after[N]
    BY Zenon DEF AllLookedUp, N
  <2> HIDE DEF after
  <2>4. after[0] = c /\ \A n \in 1..N : after[n] = LookedUp(after[n - 1], keys[n])
    <3>1. \A n \in 1..N : n \in 0..N /\ n # 0
      BY <1>1
    <3>2. 0 \in 0..N
      BY <1>1
    <3> QED
      BY <2>2, <3>1, <3>2
  <2>5. ASSUME NEW n \in 1..N, after[n - 1] = g[n - 1] PROVE after[n] = g[n]
    BY <1>6, <2>4, <2>5
  <2>6. N \in Nat /\ after[0] = g[0]
    BY <1>1, <1>5, <2>4
  <2> HIDE DEF Follows
  <2>7. \A n \in 0..N : after[n] = g[n]
    BY <2>5, <2>6, SameRecursion, Zenon
  <2> QED
    BY <1>1, <2>3, <2>7
<1> QED
  BY <1>5, <1>6, <1>7 DEF LookUps, X, N

\* Looking up a list of keys drops those that are outdated, and the rest of them are
\* the last ones used.
LEMMA AllLookedUpIs ==
    ASSUME NEW c, CachesOK(c), NEW keys \in Seq(Keys)
    PROVE  LET l == AllLookedUp(c, keys)
           IN  /\ CachesOK(l) /\ InUse(l, Elements(keys))
               /\ \A x \in Keys : EntryIn(l, x) =
                    IF x \in Elements(keys) /\ Outdated(EntryIn(c, x)) THEN NoEntry
                    ELSE EntryIn(c, x)
<1> DEFINE N == Len(keys)
           First(n) == {keys[i] : i \in 1..n}
<1>0. N \in Nat /\ (\A n \in 1..N : keys[n] \in Keys) /\ Elements(keys) = First(N)
  BY DEF Elements
<1>1. PICK g \in LookUps(c, keys) : TRUE
  BY LookUpsExist
<1>2. /\ AllLookedUp(c, keys) = g[N] /\ g[0] = c
      /\ \A n \in 0..N : CachesOK(g[n])
      /\ \A n \in 1..N : g[n] = LookedUp(g[n - 1], keys[n])
  BY <1>1 DEF LookUps
<1> DEFINE P == {n \in 0..N :
                   /\ InUse(g[n], First(n))
                   /\ \A x \in Keys : EntryIn(g[n], x) =
                        IF x \in First(n) /\ Outdated(EntryIn(c, x)) THEN NoEntry
                        ELSE EntryIn(c, x)}
<1> HIDE DEF N
<1>3. 0 \in P
  <2>1. First(0) = {}
    OBVIOUS
  <2>2. InUse(g[0], {})
    BY DEF InUse, Latest
  <2>0. 0 \in 0..N
    BY <1>0
  <2> HIDE DEF First
  <2>3. InUse(g[0], First(0))
    BY <2>1, <2>2
  <2>4. \A x \in Keys : EntryIn(g[0], x) =
          IF x \in First(0) /\ Outdated(EntryIn(c, x)) THEN NoEntry ELSE EntryIn(c, x)
    BY <1>2, <2>1
  <2> QED
    BY <2>0, <2>3, <2>4
<1>4. ASSUME NEW n \in 1..N, n - 1 \in P PROVE n \in P
  <2>1. n \in 0..N /\ n - 1 \in 0..N /\ keys[n] \in Keys
    BY <1>0
  <2>2. First(n) = First(n - 1) \cup {keys[n]}
    <3>1. \A i \in 1..n : i \in 1..(n - 1) \/ i = n
      BY <1>0
    <3>2. \A i \in 1..(n - 1) : i \in 1..n
      BY <1>0
    <3>3. n \in 1..n
      BY <1>0
    <3> QED
      BY <3>1, <3>2, <3>3
  <2> HIDE DEF First
  <2>3. /\ InUse(g[n - 1], First(n - 1))
        /\ \A x \in Keys : EntryIn(g[n - 1], x) =
             IF x \in First(n - 1) /\ Outdated(EntryIn(c, x)) THEN NoEntry ELSE EntryIn(c, x)
    BY <1>4
  <2>4. CachesOK(g[n - 1]) /\ g[n] = LookedUp(g[n - 1], keys[n])
    BY <1>2, <2>1
  <2>5. /\ \A x \in Keys : EntryIn(g[n], x) =
             IF x = keys[n] /\ Outdated(EntryIn(g[n - 1], x)) THEN NoEntry
             ELSE EntryIn(g[n - 1], x)
        /\ InUse(g[n], First(n - 1) \cup {keys[n]})
    BY <2>1, <2>3, <2>4, LookedUpIs
  <2>6. ~Outdated(NoEntry)
    BY DEF Outdated
  <2>7. \A x \in Keys : EntryIn(g[n], x) =
          IF x \in First(n) /\ Outdated(EntryIn(c, x)) THEN NoEntry ELSE EntryIn(c, x)
    BY <2>2, <2>3, <2>5, <2>6
  <2> QED
    BY <2>1, <2>2, <2>5, <2>7
<1> HIDE DEF First
<1>5. \A n \in 0..N : n \in P
  <2> HIDE DEF P
  <2> QED
    BY <1>0, <1>3, <1>4, UpTo
<1>6. N \in P /\ N \in 0..N
  BY <1>0, <1>5
<1> QED
  BY <1>0, <1>2, <1>6

\* How long a value deserves to be kept.
LifetimeOf(k, failed) ==
    IF k \in Contracts THEN AbiTtl ELSE IF failed = {} THEN Ttl ELSE ErrorTtl

\* Storing what came back for a key: no other key gets anything new, and none in use
\* is evicted if they all fit.
LEMMA StoredIs ==
    ASSUME NEW c, CachesOK(c), NEW k \in Keys, NEW failed \in SUBSET FetchesOf(k)
    PROVE  LET s == Stored(c, k, failed)
           IN  /\ CachesOK(s)
               /\ IF k \in Tokens \/ failed = {}
                  THEN EntryIn(s, k) = [value |-> failed, ttl |-> LifetimeOf(k, failed), age |-> 0]
                  ELSE s = c
               /\ \A x \in Keys \ {k} : EntryIn(s, x) \in {EntryIn(c, x), NoEntry}
               /\ \A U : InUse(c, U) /\ k \in U =>
                     /\ InUse(s, U)
                     /\ IsFiniteSet(U) /\ Fits(U) =>
                          \A x \in (U \cap Keys) \ {k} : EntryIn(s, x) = EntryIn(c, x)
<1>1. CASE k \notin Tokens /\ failed # {}
  <2>1. Stored(c, k, failed) = c
    BY <1>1 DEF Stored, AbiStored
  <2> QED
    BY <1>1, <2>1
<1>2. CASE k \in Tokens \/ failed = {}
  <2> DEFINE kd == KindOf(k)
             b == c[kd]
             ttl == LifetimeOf(k, failed)
             g == Lru!Set(b, k, failed, ttl, SizeFor(kd))
             s == [c EXCEPT ![kd] = g]
  <2>1. Stored(c, k, failed) = s
    <3>1. Stored(c, k, failed) = SetIn(c, k, failed, ttl)
      BY <1>2, CacheAssumption DEF Stored, TokenStored, AbiStored, LifetimeOf, Keys
    <3> QED
      BY <3>1, KindsAre DEF SetIn
  <2>2. /\ kd \in Kinds /\ ListsHeld(b) /\ SizeFor(kd) \in Nat /\ Bounded(b, SizeFor(kd))
        /\ k \in KeysOf(kd)
    BY KindsAre DEF CachesOK
  <2>3. failed \in Values /\ ttl \in {Ttl, ErrorTtl, AbiTtl}
    BY DEF Values, FetchesOf, LifetimeOf
  <2> HIDE DEF kd, b, ttl
  <2>4. /\ ListsHeld(g) /\ Bounded(g, SizeFor(kd))
        /\ g.entry[k] = [value |-> failed, ttl |-> ttl, age |-> 0]
        /\ \A x \in Keys \ {k} : g.entry[x] \in {b.entry[x], NoEntry}
        /\ \A U : Latest(b.recency, U) /\ k \in U =>
              /\ Latest(g.recency, U)
              /\ IsFiniteSet(U) /\ (SizeFor(kd) = 0 \/ Cardinality(U) <= SizeFor(kd)) =>
                   \A x \in (U \cap Keys) \ {k} : g.entry[x] = b.entry[x]
    <3>1. IsSet(g, b, k, failed, ttl, SizeFor(kd))
      BY <2>2, <2>3, SetIs
    <3> HIDE DEF g
    <3> QED
      BY <3>1 DEF IsSet
  <2> HIDE DEF g
  <2>5. /\ CachesOK(s) /\ EntryIn(s, k) = g.entry[k]
        /\ \A x \in Keys : EntryIn(s, x) = IF KindOf(x) = kd THEN g.entry[x] ELSE EntryIn(c, x)
        /\ \A U, V : InUse(c, U) /\ V \ {k} = U \ {k} /\ Latest(g.recency, V \cap KeysOf(kd))
                 => InUse(s, V)
    <3>1. /\ Bounded(g, SizeFor(KindOf(k)))
          /\ \A x \in Keys \ {k} : g.entry[x] \in {c[KindOf(k)].entry[x], NoEntry}
      BY <2>4 DEF kd, b
    <3>2. LET d == [c EXCEPT ![KindOf(k)] = g]
          IN  /\ CachesOK(d) /\ d[KindOf(k)] = g
              /\ EntryIn(d, k) = g.entry[k]
              /\ \A x \in Keys : EntryIn(d, x) =
                   IF KindOf(x) = KindOf(k) THEN g.entry[x] ELSE EntryIn(c, x)
              /\ \A U, V : /\ InUse(c, U) /\ V \ {k} = U \ {k}
                         /\ Latest(g.recency, V \cap KeysOf(KindOf(k)))
                         => InUse(d, V)
      BY <2>4, <3>1, OneCache
    <3> QED
      BY <3>2 DEF kd
  <2> HIDE DEF s
  <2>6. \A x \in Keys \ {k} : EntryIn(s, x) \in {EntryIn(c, x), NoEntry}
    BY <2>4, <2>5 DEF EntryIn, b, kd
  <2>7. ASSUME NEW U, InUse(c, U), k \in U
        PROVE  /\ InUse(s, U)
               /\ IsFiniteSet(U) /\ Fits(U) =>
                    \A x \in (U \cap Keys) \ {k} : EntryIn(s, x) = EntryIn(c, x)
    <3> DEFINE V == U \cap KeysOf(kd)
    <3>1. Latest(b.recency, V) /\ k \in V
      BY <2>2, <2>7 DEF InUse, b
    <3> HIDE DEF V
    <3>2. Latest(g.recency, V)
      BY <2>4, <3>1
    <3>3. InUse(s, U)
      BY <2>5, <2>7, <3>2 DEF V
    <3>4. ASSUME IsFiniteSet(U), Fits(U), NEW x \in (U \cap Keys) \ {k}
          PROVE  EntryIn(s, x) = EntryIn(c, x)
      <4>1. IsFiniteSet(V)
        BY <3>4, FS_Subset DEF V
      <4>2. SizeFor(kd) = 0 \/ Cardinality(V) <= SizeFor(kd)
        BY <2>2, <3>4 DEF Fits, V
      <4>3. CASE KindOf(x) = kd
        <5>1. x \in (V \cap Keys) \ {k}
          BY <3>4, <4>3 DEF V, KeysOf
        <5>2. g.entry[x] = b.entry[x]
          BY <2>4, <3>1, <4>1, <4>2, <5>1
        <5> QED
          BY <2>5, <4>3, <5>2 DEF EntryIn, b
      <4>4. CASE KindOf(x) # kd
        BY <2>5, <3>4, <4>4
      <4> QED
        BY <4>3, <4>4
    <3> QED
      BY <3>3, <3>4
  <2> QED
    BY <1>2, <2>1, <2>4, <2>5, <2>6, <2>7 DEF ttl
<1> QED
  BY <1>1, <1>2

-----------------------------------------------------------------------------
(* What a block prefetches.                                                *)

\* The different elements of the first n of b, n by n.
FirstsOf(b) ==
    {g \in [0..Len(b) -> Seq(Keys)] :
        /\ Unique(b) = g[Len(b)]
        /\ g[0] = <<>>
        /\ \A n \in 1..Len(b) :
             g[n] = IF Contains(g[n - 1], b[n]) THEN g[n - 1] ELSE Append(g[n - 1], b[n])}

\* Collecting the elements of a list in a Set is such a function.
LEMMA FirstsExist ==
    ASSUME NEW b \in Seq(Keys)
    PROVE  \E g \in FirstsOf(b) : TRUE
<1> DEFINE N == Len(b)
           Add(s, n) == IF Contains(s, b[n]) THEN s ELSE Append(s, b[n])
           next == [p \in Seq(Keys) \X (1..N) |-> Add(p[1], p[2])]
<1>1. N \in Nat /\ <<>> \in Seq(Keys) /\ \A n \in 1..N : b[n] \in Keys
  OBVIOUS
<1>2. \A s \in Seq(Keys), n \in 1..N : Add(s, n) \in Seq(Keys)
  BY <1>1
<1> HIDE DEF Add
<1>3. \A s \in Seq(Keys), n \in 1..N : next[<<s, n>>] = Add(s, n)
  OBVIOUS
<1>4. \A s \in Seq(Keys), n \in 1..N : next[<<s, n>>] \in Seq(Keys)
  BY <1>2, <1>3
<1> HIDE DEF next, N
<1>5. PICK g \in Solutions(Seq(Keys), <<>>, N, next) : TRUE
  BY <1>1, <1>4, Solution
<1>6. g \in [0..N -> Seq(Keys)] /\ g[0] = <<>> /\ \A n \in 1..N : g[n] = next[<<g[n - 1], n>>]
  BY <1>5 DEF Solutions
<1>7. ASSUME NEW n \in 1..N PROVE g[n] = Add(g[n - 1], n)
  <2>1. n - 1 \in 0..N
    BY <1>1
  <2> QED
    BY <1>3, <1>6, <2>1
<1>8. Unique(b) = g[N]
  <2> DEFINE Follows(f) ==
               f = [n \in 0..N |-> IF n = 0 THEN <<>>
                                   ELSE IF Contains(f[n - 1], b[n]) THEN f[n - 1]
                                   ELSE Append(f[n - 1], b[n])]
             seen == CHOOSE f : Follows(f)
  <2>1. Follows(g)
    <3>1. ASSUME NEW n \in 0..N
          PROVE  g[n] = IF n = 0 THEN <<>>
                        ELSE IF Contains(g[n - 1], b[n]) THEN g[n - 1]
                        ELSE Append(g[n - 1], b[n])
      <4>1. n # 0 => n \in 1..N
        BY <1>1
      <4> QED
        BY <1>6, <1>7, <4>1 DEF Add
    <3>2. g = [n \in 0..N |-> g[n]]
      BY <1>6
    <3>3. [n \in 0..N |-> g[n]]
            = [n \in 0..N |-> IF n = 0 THEN <<>>
                              ELSE IF Contains(g[n - 1], b[n]) THEN g[n - 1]
                              ELSE Append(g[n - 1], b[n])]
      BY <3>1, Zenon
    <3> QED
      BY <3>2, <3>3, Zenon
  <2>2. Follows(seen)
    BY <2>1
  <2>3. Unique(b) = seen[N]
    BY Zenon DEF Unique, N
  <2> HIDE DEF seen
  <2>4. seen[0] = <<>> /\ \A n \in 1..N : seen[n] = Add(seen[n - 1], n)
    <3>1. \A n \in 1..N : n \in 0..N /\ n # 0
      BY <1>1
    <3>2. 0 \in 0..N
      BY <1>1
    <3> QED
      BY <2>2, <3>1, <3>2 DEF Add
  <2>5. ASSUME NEW n \in 1..N, seen[n - 1] = g[n - 1] PROVE seen[n] = g[n]
    BY <1>7, <2>4, <2>5
  <2>6. N \in Nat /\ seen[0] = g[0]
    BY <1>1, <1>6, <2>4
  <2> HIDE DEF Follows
  <2>7. \A n \in 0..N : seen[n] = g[n]
    BY <2>5, <2>6, SameRecursion, Zenon
  <2> QED
    BY <1>1, <2>3, <2>7
<1> QED
  BY <1>6, <1>7, <1>8 DEF FirstsOf, Add, N

\* A Set has the elements that were added to it.
LEMMA UniqueIs ==
    ASSUME NEW b \in Seq(Keys)
    PROVE  Unique(b) \in Seq(Keys) /\ Elements(Unique(b)) = Elements(b)
<1> DEFINE N == Len(b)
           First(n) == {b[i] : i \in 1..n}
<1>0. N \in Nat /\ (\A n \in 1..N : b[n] \in Keys) /\ Elements(b) = First(N)
  BY DEF Elements
<1>1. PICK g \in FirstsOf(b) : TRUE
  BY FirstsExist
<1>2. /\ Unique(b) = g[N] /\ g[0] = <<>> /\ \A n \in 0..N : g[n] \in Seq(Keys)
      /\ \A n \in 1..N :
           g[n] = IF Contains(g[n - 1], b[n]) THEN g[n - 1] ELSE Append(g[n - 1], b[n])
  BY <1>1 DEF FirstsOf
<1> DEFINE P == {n \in 0..N : Elements(g[n]) = First(n)}
<1> HIDE DEF N
<1>3. 0 \in P
  <2>1. First(0) = {} /\ Elements(<<>>) = {} /\ 0 \in 0..N
    BY <1>0 DEF Elements
  <2> QED
    BY <1>2, <2>1
<1>4. ASSUME NEW n \in 1..N, n - 1 \in P PROVE n \in P
  <2>1. n \in 0..N /\ n - 1 \in 0..N /\ b[n] \in Keys
    BY <1>0
  <2>2. First(n) = First(n - 1) \cup {b[n]}
    <3>1. \A i \in 1..n : i \in 1..(n - 1) \/ i = n
      BY <1>0
    <3>2. \A i \in 1..(n - 1) : i \in 1..n
      BY <1>0
    <3>3. n \in 1..n
      BY <1>0
    <3> QED
      BY <3>1, <3>2, <3>3
  <2> HIDE DEF First
  <2> DEFINE s == g[n - 1]
  <2>3. s \in Seq(Keys) /\ Elements(s) = First(n - 1)
    BY <1>2, <1>4, <2>1
  <2>4. g[n] = IF Contains(s, b[n]) THEN s ELSE Append(s, b[n])
    BY <1>2
  <2> HIDE DEF s
  <2>5. DOMAIN s = 1..Len(s) /\ Len(s) \in Nat
    BY <2>3
  <2>6. Contains(s, b[n]) <=> b[n] \in Elements(s)
    BY <2>5 DEF Contains, Elements
  <2>7. Elements(Append(s, b[n])) = Elements(s) \cup {b[n]}
    <3> DEFINE a == Append(s, b[n])
    <3>1. /\ DOMAIN a = 1..(Len(s) + 1) /\ a[Len(s) + 1] = b[n]
          /\ \A i \in 1..Len(s) : a[i] = s[i]
      BY <2>1, <2>3, AppendProperties
    <3> HIDE DEF a
    <3>2. \A i \in 1..(Len(s) + 1) : i \in 1..Len(s) \/ i = Len(s) + 1
      BY <2>5
    <3>3. \A i \in 1..Len(s) : i \in 1..(Len(s) + 1)
      BY <2>5
    <3>4. Len(s) + 1 \in 1..(Len(s) + 1)
      BY <2>5
    <3>5. Elements(a) = Elements(s) \cup {b[n]}
      BY <2>5, <3>1, <3>2, <3>3, <3>4 DEF Elements
    <3> QED
      BY <3>5 DEF a
  <2>8. Elements(g[n]) = First(n)
    BY <2>2, <2>3, <2>4, <2>6, <2>7
  <2> QED
    BY <2>1, <2>8
<1> HIDE DEF First
<1>5. \A n \in 0..N : n \in P
  <2> HIDE DEF P
  <2> QED
    BY <1>0, <1>3, <1>4, UpTo
<1>6. N \in P /\ N \in 0..N
  BY <1>0, <1>5
<1> QED
  BY <1>0, <1>2, <1>6

\* The elements of a filter.
LEMMA OnlyInElements ==
    ASSUME NEW X, NEW seq \in Seq(X), NEW S
    PROVE  OnlyIn(seq, S) \in Seq(X) /\ Elements(OnlyIn(seq, S)) = Elements(seq) \cap S
<1> DEFINE w == OnlyIn(seq, S)
<1>1. /\ w \in Seq(X)
      /\ \A i \in 1..Len(w) : w[i] \in S /\ \E j \in 1..Len(seq) : w[i] = seq[j]
  BY OnlyInType
<1>2. \A j \in 1..Len(seq) : seq[j] \in S => \E i \in 1..Len(w) : w[i] = seq[j]
  BY OnlyInKeeps
<1> HIDE DEF w
<1>3. DOMAIN w = 1..Len(w) /\ DOMAIN seq = 1..Len(seq)
  BY <1>1
<1>4. ASSUME NEW x \in Elements(w) PROVE x \in Elements(seq) /\ x \in S
  <2>1. PICK i \in 1..Len(w) : x = w[i]
    BY <1>3 DEF Elements
  <2>2. PICK j \in 1..Len(seq) : w[i] = seq[j]
    BY <1>1
  <2> QED
    BY <1>1, <1>3, <2>1, <2>2 DEF Elements
<1>5. ASSUME NEW x \in Elements(seq), x \in S PROVE x \in Elements(w)
  <2>1. PICK j \in 1..Len(seq) : x = seq[j]
    BY <1>3 DEF Elements
  <2>2. PICK i \in 1..Len(w) : w[i] = seq[j]
    BY <1>2, <1>5, <2>1
  <2> QED
    BY <1>3, <2>1, <2>2 DEF Elements
<1>6. Elements(w) = Elements(seq) \cap S
  BY <1>4, <1>5
<1> QED
  BY <1>1, <1>6 DEF w

\* The prefetch looks up the keys of the block, all of them and no others.
LEMMA PrefetchKeysAre ==
    ASSUME NEW b \in Seq(Keys)
    PROVE  PrefetchKeys(b) \in Seq(Keys) /\ Elements(PrefetchKeys(b)) = Elements(b)
<1> DEFINE c == OnlyIn(b, Contracts)
           t == OnlyIn(b, Tokens)
<1>1. /\ c \in Seq(Keys) /\ Elements(c) = Elements(b) \cap Contracts
      /\ t \in Seq(Keys) /\ Elements(t) = Elements(b) \cap Tokens
  BY OnlyInElements
<1>2. Elements(b) \subseteq Tokens \cup Contracts
  BY DEF Elements, Keys
<1>3. PrefetchKeys(b) = Unique(c \o t)
  BY DEF PrefetchKeys
<1> HIDE DEF c, t
<1>4. c \o t \in Seq(Keys) /\ Elements(c \o t) = Elements(c) \cup Elements(t)
  <2> DEFINE s == c \o t
  <2>1. /\ s \in Seq(Keys) /\ Len(s) = Len(c) + Len(t) /\ DOMAIN s = 1..Len(s)
        /\ DOMAIN c = 1..Len(c) /\ DOMAIN t = 1..Len(t) /\ Len(c) \in Nat /\ Len(t) \in Nat
        /\ \A i \in 1..Len(s) : s[i] = IF i <= Len(c) THEN c[i] ELSE t[i - Len(c)]
    BY <1>1, ConcatProperties
  <2> HIDE DEF s
  <2>2. ASSUME NEW x \in Elements(s) PROVE x \in Elements(c) \cup Elements(t)
    <3>1. PICK i \in 1..Len(s) : x = s[i]
      BY <2>1 DEF Elements
    <3>2. CASE i <= Len(c)
      <4>1. i \in 1..Len(c) /\ x = c[i]
        BY <2>1, <3>1, <3>2
      <4> QED
        BY <2>1, <4>1 DEF Elements
    <3>3. CASE ~(i <= Len(c))
      <4>1. i - Len(c) \in 1..Len(t) /\ x = t[i - Len(c)]
        BY <2>1, <3>1, <3>3
      <4> QED
        BY <2>1, <4>1 DEF Elements
    <3> QED
      BY <3>2, <3>3
  <2>3. ASSUME NEW i \in 1..Len(c) PROVE c[i] \in Elements(s)
    <3>1. i \in 1..Len(s) /\ s[i] = c[i]
      BY <2>1
    <3> QED
      BY <2>1, <3>1 DEF Elements
  <2>4. ASSUME NEW i \in 1..Len(t) PROVE t[i] \in Elements(s)
    <3>1. Len(c) + i \in 1..Len(s) /\ s[Len(c) + i] = t[i]
      BY <2>1
    <3> QED
      BY <2>1, <3>1 DEF Elements
  <2>5. Elements(s) = Elements(c) \cup Elements(t)
    BY <2>1, <2>2, <2>3, <2>4 DEF Elements
  <2> QED
    BY <2>1, <2>5 DEF s
<1>5. Elements(c \o t) = Elements(b)
  BY <1>1, <1>2, <1>4
<1> QED
  BY <1>3, <1>4, <1>5, UniqueIs

-----------------------------------------------------------------------------
(* The inductive invariant.                                                *)

\* Every entry has the TTL its value deserves, and no failed ABI is kept.
Deserved(c) ==
    \A k \in Keys : HasIn(c, k) =>
        /\ k \in Contracts => EntryIn(c, k).value = {}
        /\ EntryIn(c, k).ttl = LifetimeOf(k, EntryIn(c, k).value)

\* A request: what it serializes, how far it is, what its prefetch waits for.
Shape(its, pend, p, ph, q) ==
    /\ its \in Blocks \cup {<<>>} /\ p \in 1..(Len(its) + 1) /\ pend \subseteq Elements(its)
    /\ ph # "prefetch" => pend = {}
    /\ ph = "fetching" => p <= Len(its)
    /\ ph = "idle" => ~q

\* If the keys U of a request fit, they are the last ones used, and each is cached or
\* awaited by the request's prefetch: none was evicted for another.
WarmFor(c, U, pend, ph) ==
    Fits(U) =>
        /\ ph \in {"prefetch", "serial"} /\ InUse(c, U)
        /\ \A k \in U : k \in pend \/ HasIn(c, k)

RequestOK(r) ==
    /\ Shape(items[r], pending[r], pos[r], phase[r], quiet[r])
    /\ quiet[r] => WarmFor(cache, Elements(items[r]), pending[r], phase[r])

Phases == {"idle", "prefetch", "serial", "fetching"}
FunctionsOK ==
    /\ healthy \in BOOLEAN /\ phase \in [Requests -> Phases] /\ quiet \in [Requests -> BOOLEAN]
    /\ DOMAIN items = Requests /\ DOMAIN pending = Requests /\ DOMAIN pos = Requests

\* A key whose outdated value was returned is not cached any more.
ServedOnce(stale, c) ==
    /\ stale \in [Keys -> {0, 1}]
    /\ \A k \in Keys : stale[k] = 1 => ~HasIn(c, k)

Inv ==
    /\ FunctionsOK
    /\ CachesOK(cache) /\ Deserved(cache)
    /\ ServedOnce(staleServed, cache)
    /\ \A r \in Requests : RequestOK(r)

\* The names of the cache's operators.
LEMMA CachedIs ==
    \A k \in Keys : /\ Cached(k) <=> HasIn(cache, k)
                    /\ IsStale(k) <=> Outdated(EntryIn(cache, k))
                    /\ ValueOf(k) = EntryIn(cache, k).value
  BY DEF Cached, IsStale, ValueOf, HasIn, EntryIn, Outdated, Lru!Has, Lru!Stale

\* Looking keys up neither adds nor changes an entry.
LEMMA LookUpsKeep ==
    ASSUME Inv, NEW K, NEW d,
           \A x \in Keys : EntryIn(d, x) =
             IF x \in K /\ Outdated(EntryIn(cache, x)) THEN NoEntry ELSE EntryIn(cache, x)
    PROVE  Deserved(d) /\ ServedOnce(AfterLookUps(K), d)
<1>1. Deserved(d)
  BY DEF Inv, Deserved, HasIn
<1>2. staleServed \in [Keys -> {0, 1}] /\ \A k \in Keys : staleServed[k] = 1 => ~HasIn(cache, k)
  BY DEF Inv, ServedOnce
<1>3. ASSUME NEW k \in Keys
      PROVE  /\ AfterLookUps(K)[k] \in {0, 1}
             /\ AfterLookUps(K)[k] = 1 => ~HasIn(d, k)
  <2>1. AfterLookUps(K)[k] = IF k \in K /\ IsStale(k) THEN staleServed[k] + 1 ELSE staleServed[k]
    BY DEF AfterLookUps
  <2>2. CASE k \in K /\ IsStale(k)
    <3>1. Outdated(EntryIn(cache, k))
      BY <2>2, CachedIs
    <3>2. staleServed[k] = 0 /\ EntryIn(d, k) = NoEntry
      BY <1>2, <2>2, <3>1 DEF HasIn, Outdated
    <3> QED
      BY <2>1, <2>2, <3>2 DEF HasIn
  <2>3. CASE ~(k \in K /\ IsStale(k))
    BY <1>2, <2>1, <2>3 DEF HasIn
  <2> QED
    BY <2>2, <2>3
<1>4. AfterLookUps(K) = [k \in Keys |-> AfterLookUps(K)[k]]
  BY DEF AfterLookUps
<1>5. AfterLookUps(K) \in [Keys -> {0, 1}]
  BY <1>3, <1>4
<1> QED
  BY <1>1, <1>3, <1>5 DEF ServedOnce

\* Storing a key keeps the invariant of the caches.
LEMMA StoringKeeps ==
    ASSUME Inv, NEW k \in Keys, NEW failed \in SUBSET FetchesOf(k)
    PROVE  LET d == Stored(cache, k, failed)
           IN  CachesOK(d) /\ Deserved(d) /\ ServedOnce(AfterStore(k), d)
<1> DEFINE d == Stored(cache, k, failed)
<1>0. CachesOK(cache)
  BY DEF Inv
<1>1. /\ CachesOK(d)
      /\ IF k \in Tokens \/ failed = {}
         THEN EntryIn(d, k) = [value |-> failed, ttl |-> LifetimeOf(k, failed), age |-> 0]
         ELSE d = cache
      /\ \A x \in Keys \ {k} : EntryIn(d, x) \in {EntryIn(cache, x), NoEntry}
  BY <1>0, StoredIs
<1> HIDE DEF d
<1>2. Deserved(cache) /\ ServedOnce(staleServed, cache)
  BY DEF Inv
<1>3. Deserved(d)
  <2>1. ASSUME NEW x \in Keys, HasIn(d, x)
        PROVE  /\ x \in Contracts => EntryIn(d, x).value = {}
               /\ EntryIn(d, x).ttl = LifetimeOf(x, EntryIn(d, x).value)
    <3>1. CASE x # k \/ d = cache
      <4>1. EntryIn(d, x) = EntryIn(cache, x) /\ HasIn(cache, x)
        BY <1>1, <2>1, <3>1 DEF HasIn
      <4> QED
        BY <1>2, <4>1 DEF Deserved
    <3>2. CASE x = k /\ d # cache
      <4>1. /\ k \in Tokens \/ failed = {}
            /\ EntryIn(d, k) = [value |-> failed, ttl |-> LifetimeOf(k, failed), age |-> 0]
        BY <1>1, <3>2
      <4>2. EntryIn(d, k).value = failed /\ EntryIn(d, k).ttl = LifetimeOf(k, failed)
        BY <4>1
      <4>3. k \in Contracts => failed = {}
        BY <4>1, CacheAssumption
      <4> QED
        BY <3>2, <4>2, <4>3
    <3> QED
      BY <3>1, <3>2
  <2> QED
    BY <2>1 DEF Deserved
<1>4. ServedOnce(AfterStore(k), d)
  BY <1>1, <1>2 DEF ServedOnce, AfterStore, HasIn
<1> QED
  BY <1>1, <1>3, <1>4 DEF d

\* What a fetch comes back with is a set of getters of the key.
LEMMA OutcomesAre ==
    ASSUME NEW k \in Keys
    PROVE  Outcomes(k) \subseteq SUBSET FetchesOf(k)
  BY CacheAssumption DEF Outcomes

\* Blocks are sequences of keys, and so is what a request serializes.
LEMMA ItemsAre ==
    ASSUME NEW its \in Blocks \cup {<<>>}
    PROVE  /\ its \in Seq(Keys) /\ IsFiniteSet(Elements(its)) /\ Elements(its) \subseteq Keys
           /\ Len(its) \in Nat /\ \A i \in 1..Len(its) : its[i] \in Elements(its)
<1>1. its \in Seq(Keys)
  <2>1. <<>> \in Seq(Keys)
    OBVIOUS
  <2>2. CASE its \in Blocks
    BY <2>2, BlockAssumption
  <2>3. CASE its = <<>>
    BY <2>1, <2>3
  <2> QED
    BY <2>2, <2>3
<1>2. IsFiniteSet(Elements(its))
  BY <1>1, ElementsAreFinite
<1>3. Len(its) \in Nat /\ DOMAIN its = 1..Len(its) /\ \A i \in 1..Len(its) : its[i] \in Keys
  BY <1>1
<1> QED
  BY <1>1, <1>2, <1>3 DEF Elements

\* Empty caches and idle requests.
LEMMA InitInv == Init => Inv
<1> SUFFICES ASSUME Init PROVE Inv
  OBVIOUS
<1> DEFINE e == Lru!Empty
<1>1. e = [entry |-> [k \in Keys |-> NoEntry], recency |-> <<>>]
  BY DEF Lru!Empty
<1>2. e \in CacheStates /\ e.recency = <<>> /\ \A k \in Keys : e.entry[k] = NoEntry
  BY <1>1 DEF CacheStates
<1> HIDE DEF e
<1>3. ListsHeld(e) /\ \A kind \in Kinds : Bounded(e, SizeFor(kind))
  <2>1. Elements(<<>>) = {} /\ Distinct(<<>>)
    BY DEF Elements, Distinct
  <2>2. {k \in Keys : Lru!Has(e, k)} = {}
    BY <1>2 DEF Lru!Has
  <2>3. ListsHeld(e)
    BY <1>2, <2>1, <2>2 DEF ListsHeld
  <2>4. \A kind \in Kinds : Bounded(e, SizeFor(kind))
    BY <1>2, KindsAre DEF Bounded
  <2> QED
    BY <2>3, <2>4
<1>4. cache \in [Kinds -> CacheStates] /\ \A kind \in Kinds : cache[kind] = e
  BY <1>2 DEF Init, Kinds, e
<1>5. CachesOK(cache)
  BY <1>2, <1>3, <1>4 DEF CachesOK, Lru!Has
<1>6. \A k \in Keys : ~HasIn(cache, k)
  BY <1>2, <1>4, KindsAre DEF HasIn, EntryIn
<1>7. Deserved(cache) /\ ServedOnce(staleServed, cache)
  BY <1>6 DEF Init, Deserved, ServedOnce
<1>8. \A r \in Requests : RequestOK(r)
  BY DEF Init, RequestOK, Shape
<1>9. FunctionsOK
  BY DEF Init, FunctionsOK, Phases
<1> QED
  BY <1>5, <1>7, <1>8, <1>9 DEF Inv

-----------------------------------------------------------------------------
(* Each action keeps the invariant.                                        *)

\* A prefetch touches or drops every key of its block, and awaits the missing ones.
LEMMA BeginBlockInv ==
    ASSUME Inv, NEW r \in Requests, NEW b \in Blocks, BeginBlock(r, b)
    PROVE  Inv'
<1> DEFINE keys == PrefetchKeys(b)
<1>1. b \in Blocks \cup {<<>>} /\ b \in Seq(Keys) /\ Elements(b) \subseteq Keys /\ Len(b) \in Nat
  BY ItemsAre
<1>2. keys \in Seq(Keys) /\ Elements(keys) = Elements(b) /\ ToSet(keys) = Elements(b)
  <2>1. keys \in Seq(Keys) /\ Elements(keys) = Elements(b)
    BY <1>1, PrefetchKeysAre
  <2> QED
    BY <2>1 DEF ToSet, Elements
<1>3. /\ phase[r] = "idle"
      /\ cache' = AllLookedUp(cache, keys)
      /\ pending' = [pending EXCEPT ![r] = {k \in Elements(b) : ~Cached(k)}]
      /\ staleServed' = AfterLookUps(Elements(b))
      /\ quiet' = [x \in Requests |-> IF x # r THEN FALSE ELSE \A k \in Elements(b) : ~IsStale(k)]
      /\ phase' = [phase EXCEPT ![r] = "prefetch"]
      /\ items' = [items EXCEPT ![r] = b] /\ pos' = [pos EXCEPT ![r] = 1]
      /\ healthy' = healthy
  BY <1>2 DEF BeginBlock, ToSet, Elements
<1> HIDE DEF keys
<1>4. /\ CachesOK(cache') /\ InUse(cache', Elements(b))
      /\ \A x \in Keys : EntryIn(cache', x) =
           IF x \in Elements(b) /\ Outdated(EntryIn(cache, x)) THEN NoEntry ELSE EntryIn(cache, x)
  <2>1. CachesOK(cache)
    BY DEF Inv
  <2> DEFINE l == AllLookedUp(cache, keys)
  <2>2. /\ CachesOK(l) /\ InUse(l, Elements(keys))
        /\ \A x \in Keys : EntryIn(l, x) =
             IF x \in Elements(keys) /\ Outdated(EntryIn(cache, x)) THEN NoEntry
             ELSE EntryIn(cache, x)
    BY <1>2, <2>1, AllLookedUpIs
  <2>3. cache' = l
    BY <1>3
  <2> HIDE DEF l
  <2> QED
    BY <1>2, <2>2, <2>3
<1>5. Deserved(cache') /\ ServedOnce(staleServed', cache')
  BY <1>3, <1>4, LookUpsKeep
<1>6. FunctionsOK'
  BY <1>3 DEF Inv, FunctionsOK, Phases
<1>7. ASSUME NEW x \in Requests PROVE RequestOK(x)'
  <2>1. CASE x # r
    <3>1. /\ items'[x] = items[x] /\ pending'[x] = pending[x] /\ pos'[x] = pos[x]
          /\ phase'[x] = phase[x] /\ quiet'[x] = FALSE
      BY <1>3, <2>1 DEF Inv, FunctionsOK
    <3> QED
      BY <3>1 DEF Inv, RequestOK, Shape
  <2>2. CASE x = r
    <3>1. /\ items'[r] = b /\ pending'[r] = {k \in Elements(b) : ~Cached(k)} /\ pos'[r] = 1
          /\ phase'[r] = "prefetch" /\ quiet'[r] = \A k \in Elements(b) : ~IsStale(k)
      BY <1>3 DEF Inv, FunctionsOK
    <3>2. Shape(items'[r], pending'[r], pos'[r], phase'[r], quiet'[r])
      BY <1>1, <3>1 DEF Shape
    <3>3. ASSUME quiet'[r], NEW k \in Elements(b) PROVE k \in pending'[r] \/ HasIn(cache', k)
      <4>1. k \in Keys /\ ~Outdated(EntryIn(cache, k))
        BY <1>1, <3>1, <3>3, CachedIs
      <4>2. EntryIn(cache', k) = EntryIn(cache, k)
        BY <1>4, <4>1
      <4> QED
        BY <3>1, <3>3, <4>1, <4>2, CachedIs DEF HasIn
    <3>4. quiet'[r] => WarmFor(cache', Elements(items'[r]), pending'[r], phase'[r])
      BY <1>4, <3>1, <3>3 DEF WarmFor
    <3> QED
      BY <2>2, <3>2, <3>4 DEF RequestOK
  <2> QED
    BY <2>1, <2>2
<1> QED
  BY <1>4, <1>5, <1>6, <1>7 DEF Inv

\* A get of the prefetch that settles evicts none of the block's keys, if they fit.
LEMMA PrefetchSettlesInv ==
    ASSUME Inv, NEW r \in Requests, NEW k \in Keys, NEW failed \in Outcomes(k),
           PrefetchSettles(r, k, failed)
    PROVE  Inv'
<1> DEFINE d == Stored(cache, k, failed)
           U == Elements(items[r])
<1>1. /\ phase[r] = "prefetch" /\ k \in pending[r]
      /\ cache' = d /\ staleServed' = AfterStore(k)
      /\ quiet' = [x \in Requests |->
                     IF x = r THEN quiet[x] /\ (k \in Tokens \/ failed = {}) ELSE FALSE]
      /\ pending' = [pending EXCEPT ![r] = @ \ {k}]
      /\ healthy' = healthy /\ phase' = phase /\ items' = items /\ pos' = pos
  BY DEF PrefetchSettles, Disturb
<1>2. failed \in SUBSET FetchesOf(k)
  BY OutcomesAre
<1>3. CachesOK(d) /\ Deserved(d) /\ ServedOnce(AfterStore(k), d)
  BY <1>2, StoringKeeps
<1>4. /\ IF k \in Tokens \/ failed = {}
         THEN EntryIn(d, k) = [value |-> failed, ttl |-> LifetimeOf(k, failed), age |-> 0]
         ELSE d = cache
      /\ InUse(cache, U) /\ k \in U =>
           /\ InUse(d, U)
           /\ IsFiniteSet(U) /\ Fits(U) =>
                \A x \in (U \cap Keys) \ {k} : EntryIn(d, x) = EntryIn(cache, x)
  <2>1. CachesOK(cache)
    BY DEF Inv
  <2> HIDE DEF U
  <2> QED
    BY <1>2, <2>1, StoredIs
<1> HIDE DEF d
<1>5. FunctionsOK'
  BY <1>1 DEF Inv, FunctionsOK, Phases
<1>6. ASSUME NEW x \in Requests PROVE RequestOK(x)'
  <2>1. CASE x # r
    <3>1. pending'[x] = pending[x] /\ quiet'[x] = FALSE
      BY <1>1, <2>1 DEF Inv, FunctionsOK
    <3> QED
      BY <1>1, <3>1 DEF Inv, RequestOK, Shape
  <2>2. CASE x = r
    <3>1. /\ pending'[r] = pending[r] \ {k}
          /\ quiet'[r] = (quiet[r] /\ (k \in Tokens \/ failed = {}))
      BY <1>1 DEF Inv, FunctionsOK
    <3>2. Shape(items[r], pending[r], pos[r], phase[r], quiet[r])
      BY DEF Inv, RequestOK
    <3>3. Shape(items'[r], pending'[r], pos'[r], phase'[r], quiet'[r])
      BY <1>1, <3>1, <3>2 DEF Shape
    <3>4. k \in U /\ IsFiniteSet(U) /\ U \subseteq Keys
      BY <1>1, <3>2, ItemsAre DEF Shape
    <3>5. ASSUME quiet'[r], Fits(U)
          PROVE  InUse(d, U) /\ \A y \in U : y \in pending'[r] \/ HasIn(d, y)
      <4>1. quiet[r] /\ (k \in Tokens \/ failed = {})
        BY <3>1, <3>5
      <4>2. InUse(cache, U) /\ \A y \in U : y \in pending[r] \/ HasIn(cache, y)
        BY <3>5, <4>1 DEF Inv, RequestOK, WarmFor
      <4>3. InUse(d, U) /\ \A y \in U \ {k} : EntryIn(d, y) = EntryIn(cache, y)
        BY <1>4, <3>4, <3>5, <4>2
      <4>4. HasIn(d, k)
        <5>1. LifetimeOf(k, failed) \in {Ttl, ErrorTtl, AbiTtl} /\ failed \in Values
          BY <1>2 DEF LifetimeOf, Values, FetchesOf
        <5>2. [value |-> failed, ttl |-> LifetimeOf(k, failed), age |-> 0] \in Lru!Entries
          BY <5>1, TtlsAre DEF Lru!Entries
        <5> QED
          BY <1>4, <4>1, <5>2, BlockAssumption DEF HasIn
      <4> QED
        BY <3>1, <4>2, <4>3, <4>4 DEF HasIn
    <3>6. quiet'[r] => WarmFor(cache', Elements(items'[r]), pending'[r], phase'[r])
      BY <1>1, <3>5 DEF WarmFor
    <3> QED
      BY <2>2, <3>3, <3>6 DEF RequestOK
  <2> QED
    BY <2>1, <2>2
<1> QED
  BY <1>1, <1>3, <1>5, <1>6 DEF Inv

\* The prefetch is done when it awaits nothing.
LEMMA PrefetchDoneInv ==
    ASSUME Inv, NEW r \in Requests, PrefetchDone(r)
    PROVE  Inv'
<1>1. /\ phase[r] = "prefetch" /\ pending[r] = {} /\ phase' = [phase EXCEPT ![r] = "serial"]
      /\ cache' = cache /\ healthy' = healthy /\ items' = items /\ pending' = pending
      /\ pos' = pos /\ quiet' = quiet /\ staleServed' = staleServed
  BY DEF PrefetchDone
<1>2. FunctionsOK'
  BY <1>1 DEF Inv, FunctionsOK, Phases
<1>3. ASSUME NEW x \in Requests PROVE RequestOK(x)'
  <2>1. phase'[x] = IF x = r THEN "serial" ELSE phase[x]
    BY <1>1 DEF Inv, FunctionsOK
  <2>2. RequestOK(x)
    BY DEF Inv
  <2> QED
    BY <1>1, <2>1, <2>2 DEF RequestOK, Shape, WarmFor
<1> QED
  BY <1>1, <1>2, <1>3 DEF Inv

\* /block/transaction.
LEMMA BeginTransactionInv ==
    ASSUME Inv, NEW r \in Requests, NEW b \in Blocks, BeginTransaction(r, b)
    PROVE  Inv'
<1>1. /\ phase[r] = "idle" /\ phase' = [phase EXCEPT ![r] = "serial"]
      /\ items' = [items EXCEPT ![r] = b] /\ pos' = [pos EXCEPT ![r] = 1]
      /\ cache' = cache /\ healthy' = healthy /\ pending' = pending
      /\ quiet' = quiet /\ staleServed' = staleServed
  BY DEF BeginTransaction
<1>2. FunctionsOK'
  BY <1>1 DEF Inv, FunctionsOK, Phases
<1>3. ASSUME NEW x \in Requests PROVE RequestOK(x)'
  <2>1. RequestOK(x)
    BY DEF Inv
  <2>2. CASE x # r
    <3>1. phase'[x] = phase[x] /\ items'[x] = items[x] /\ pos'[x] = pos[x]
      BY <1>1, <2>2 DEF Inv, FunctionsOK
    <3> QED
      BY <1>1, <2>1, <3>1 DEF RequestOK
  <2>3. CASE x = r
    <3>1. phase'[r] = "serial" /\ items'[r] = b /\ pos'[r] = 1
      BY <1>1 DEF Inv, FunctionsOK
    <3>2. pending[r] = {} /\ ~quiet[r]
      BY <1>1, <2>1, <2>3 DEF RequestOK, Shape
    <3>3. Len(b) \in Nat
      BY ItemsAre
    <3> QED
      BY <1>1, <2>3, <3>1, <3>2, <3>3 DEF RequestOK, Shape
  <2> QED
    BY <2>2, <2>3
<1> QED
  BY <1>1, <1>2, <1>3 DEF Inv

\* The item a request is at is one of its keys.
LEMMA ItemIs ==
    ASSUME Inv, NEW r \in Requests, pos[r] <= Len(items[r])
    PROVE  Item(r) \in Keys /\ Item(r) \in Elements(items[r]) /\ pos[r] + 1 \in 1..(Len(items[r]) + 1)
<1>1. items[r] \in Blocks \cup {<<>>} /\ pos[r] \in 1..(Len(items[r]) + 1)
  BY DEF Inv, RequestOK, Shape
<1>2. /\ Len(items[r]) \in Nat /\ Elements(items[r]) \subseteq Keys
      /\ \A i \in 1..Len(items[r]) : items[r][i] \in Elements(items[r])
  BY <1>1, ItemsAre
<1>3. pos[r] \in 1..Len(items[r]) /\ pos[r] + 1 \in 1..(Len(items[r]) + 1)
  BY <1>1, <1>2
<1> QED
  BY <1>2, <1>3 DEF Item

\* A fresh hit touches a key in use, which leaves the keys in use the last ones used.
LEMMA SerialHitInv ==
    ASSUME Inv, NEW r \in Requests, SerialHit(r)
    PROVE  Inv'
<1> DEFINE k == Item(r)
           U == Elements(items[r])
           l == LookedUp(cache, k)
<1>1. /\ phase[r] = "serial" /\ pos[r] <= Len(items[r])
      /\ cache' = l /\ staleServed' = AfterLookUps({k})
      /\ quiet' = [x \in Requests |-> IF x = r THEN quiet[x] /\ ~IsStale(k) ELSE FALSE]
      /\ pos' = [pos EXCEPT ![r] = @ + 1]
      /\ healthy' = healthy /\ phase' = phase /\ items' = items /\ pending' = pending
  BY DEF SerialHit, Disturb
<1>2. k \in Keys /\ k \in U /\ pos[r] + 1 \in 1..(Len(items[r]) + 1)
  BY <1>1, ItemIs
<1> HIDE DEF k
<1>3. CachesOK(cache)
  BY DEF Inv
<1>4. /\ CachesOK(l)
      /\ \A x \in Keys : EntryIn(l, x) =
           IF x = k /\ Outdated(EntryIn(cache, x)) THEN NoEntry ELSE EntryIn(cache, x)
      /\ \A V : InUse(cache, V) => InUse(l, V \cup {k})
  BY <1>2, <1>3, LookedUpIs
<1> HIDE DEF l
<1>5. Deserved(l) /\ ServedOnce(AfterLookUps({k}), l)
  <2>1. \A x \in Keys : EntryIn(l, x) =
          IF x \in {k} /\ Outdated(EntryIn(cache, x)) THEN NoEntry ELSE EntryIn(cache, x)
    BY <1>4
  <2> QED
    BY <2>1, LookUpsKeep
<1>6. FunctionsOK'
  BY <1>1 DEF Inv, FunctionsOK, Phases
<1>7. ASSUME NEW x \in Requests PROVE RequestOK(x)'
  <2>1. RequestOK(x)
    BY DEF Inv
  <2>2. CASE x # r
    <3>1. pos'[x] = pos[x] /\ quiet'[x] = FALSE
      BY <1>1, <2>2 DEF Inv, FunctionsOK
    <3> QED
      BY <1>1, <2>1, <3>1 DEF RequestOK, Shape
  <2>3. CASE x = r
    <3>1. pos'[r] = pos[r] + 1 /\ quiet'[r] = (quiet[r] /\ ~IsStale(k))
      BY <1>1 DEF Inv, FunctionsOK
    <3>2. Shape(items'[r], pending'[r], pos'[r], phase'[r], quiet'[r])
      BY <1>1, <1>2, <2>1, <2>3, <3>1 DEF RequestOK, Shape
    <3>3. ASSUME quiet'[r], Fits(U)
          PROVE  InUse(l, U) /\ \A y \in U : y \in pending[r] \/ HasIn(l, y)
      <4>1. quiet[r] /\ ~Outdated(EntryIn(cache, k))
        BY <1>2, <3>1, <3>3, CachedIs
      <4>2. InUse(cache, U) /\ \A y \in U : y \in pending[r] \/ HasIn(cache, y)
        BY <2>1, <2>3, <3>3, <4>1 DEF RequestOK, WarmFor
      <4>3. U \cup {k} = U /\ U \subseteq Keys
        BY <1>2, <2>1, <2>3, ItemsAre DEF RequestOK, Shape
      <4>4. InUse(l, U)
        BY <1>4, <4>2, <4>3
      <4>5. \A y \in U : EntryIn(l, y) = EntryIn(cache, y)
        BY <1>4, <4>1, <4>3
      <4> QED
        BY <4>2, <4>4, <4>5 DEF HasIn
    <3>4. quiet'[r] => WarmFor(cache', Elements(items'[r]), pending'[r], phase'[r])
      BY <1>1, <3>3 DEF WarmFor
    <3> QED
      BY <2>3, <3>2, <3>4 DEF RequestOK
  <2> QED
    BY <2>2, <2>3
<1> QED
  BY <1>1, <1>4, <1>5, <1>6, <1>7 DEF Inv

\* A miss means that the request was disturbed or its keys do not fit.
LEMMA SerialMissInv ==
    ASSUME Inv, NEW r \in Requests, SerialMiss(r)
    PROVE  Inv'
<1>1. /\ phase[r] = "serial" /\ pos[r] <= Len(items[r]) /\ ~Cached(Item(r))
      /\ phase' = [phase EXCEPT ![r] = "fetching"]
      /\ cache' = cache /\ healthy' = healthy /\ items' = items /\ pending' = pending
      /\ pos' = pos /\ quiet' = quiet /\ staleServed' = staleServed
  BY DEF SerialMiss
<1>2. Item(r) \in Keys /\ Item(r) \in Elements(items[r])
  BY <1>1, ItemIs
<1>3. FunctionsOK'
  BY <1>1 DEF Inv, FunctionsOK, Phases
<1>4. ASSUME NEW x \in Requests PROVE RequestOK(x)'
  <2>1. RequestOK(x)
    BY DEF Inv
  <2>2. CASE x # r
    <3>1. phase'[x] = phase[x]
      BY <1>1, <2>2 DEF Inv, FunctionsOK
    <3> QED
      BY <1>1, <2>1, <3>1 DEF RequestOK
  <2>3. CASE x = r
    <3>1. phase'[r] = "fetching"
      BY <1>1 DEF Inv, FunctionsOK
    <3>2. pending[r] = {}
      BY <1>1, <2>1, <2>3 DEF RequestOK, Shape
    <3>3. ~HasIn(cache, Item(r))
      BY <1>1, <1>2, CachedIs
    <3>4. quiet[r] => ~Fits(Elements(items[r]))
      BY <1>2, <2>1, <2>3, <3>2, <3>3 DEF RequestOK, WarmFor
    <3> QED
      BY <1>1, <2>1, <2>3, <3>1, <3>2, <3>4 DEF RequestOK, Shape, WarmFor
  <2> QED
    BY <2>2, <2>3
<1> QED
  BY <1>1, <1>3, <1>4 DEF Inv

\* A fetch of the serial loop disturbs everybody.
LEMMA SerialFetchedInv ==
    ASSUME Inv, NEW r \in Requests, phase[r] = "fetching",
           NEW failed \in Outcomes(Item(r)), SerialFetched(r, failed)
    PROVE  Inv'
<1> DEFINE k == Item(r)
           d == Stored(cache, k, failed)
<1>1. /\ cache' = d /\ staleServed' = AfterStore(k)
      /\ quiet' = [x \in Requests |-> IF x = r THEN quiet[x] /\ FALSE ELSE FALSE]
      /\ phase' = [phase EXCEPT ![r] = "serial"] /\ pos' = [pos EXCEPT ![r] = @ + 1]
      /\ healthy' = healthy /\ items' = items /\ pending' = pending
  BY DEF SerialFetched, Disturb
<1>2. pos[r] <= Len(items[r])
  BY DEF Inv, RequestOK, Shape
<1>3. k \in Keys /\ pos[r] + 1 \in 1..(Len(items[r]) + 1)
  BY <1>2, ItemIs
<1>4. CachesOK(d) /\ Deserved(d) /\ ServedOnce(AfterStore(k), d)
  <2>1. failed \in SUBSET FetchesOf(k)
    BY <1>3, OutcomesAre
  <2> HIDE DEF k
  <2> QED
    BY <1>3, <2>1, StoringKeeps
<1> HIDE DEF k, d
<1>5. FunctionsOK'
  BY <1>1 DEF Inv, FunctionsOK, Phases
<1>6. ASSUME NEW x \in Requests PROVE RequestOK(x)'
  <2>1. RequestOK(x) /\ quiet'[x] = FALSE
    BY <1>1 DEF Inv
  <2>2. CASE x # r
    <3>1. pos'[x] = pos[x] /\ phase'[x] = phase[x]
      BY <1>1, <2>2 DEF Inv, FunctionsOK
    <3> QED
      BY <1>1, <2>1, <3>1 DEF RequestOK, Shape
  <2>3. CASE x = r
    <3>1. pos'[r] = pos[r] + 1 /\ phase'[r] = "serial"
      BY <1>1 DEF Inv, FunctionsOK
    <3> QED
      BY <1>1, <1>3, <2>1, <2>3, <3>1 DEF RequestOK, Shape
  <2> QED
    BY <2>2, <2>3
<1> QED
  BY <1>1, <1>4, <1>5, <1>6 DEF Inv

\* A request that is answered frees its slot.
LEMMA ReplyInv ==
    ASSUME Inv, NEW r \in Requests, Reply(r)
    PROVE  Inv'
<1>1. /\ phase[r] = "serial" /\ phase' = [phase EXCEPT ![r] = "idle"]
      /\ items' = [items EXCEPT ![r] = <<>>] /\ pos' = [pos EXCEPT ![r] = 1]
      /\ quiet' = [quiet EXCEPT ![r] = FALSE]
      /\ cache' = cache /\ healthy' = healthy /\ pending' = pending /\ staleServed' = staleServed
  BY DEF Reply
<1>2. FunctionsOK'
  BY <1>1 DEF Inv, FunctionsOK, Phases
<1>3. ASSUME NEW x \in Requests PROVE RequestOK(x)'
  <2>1. RequestOK(x)
    BY DEF Inv
  <2>2. CASE x # r
    <3>1. /\ phase'[x] = phase[x] /\ items'[x] = items[x] /\ pos'[x] = pos[x]
          /\ quiet'[x] = quiet[x]
      BY <1>1, <2>2 DEF Inv, FunctionsOK
    <3> QED
      BY <1>1, <2>1, <3>1 DEF RequestOK
  <2>3. CASE x = r
    <3>1. phase'[r] = "idle" /\ items'[r] = <<>> /\ pos'[r] = 1 /\ quiet'[r] = FALSE
      BY <1>1 DEF Inv, FunctionsOK
    <3>2. pending[r] = {}
      BY <1>1, <2>1, <2>3 DEF RequestOK, Shape
    <3> QED
      BY <1>1, <2>3, <3>1, <3>2 DEF RequestOK, Shape
  <2> QED
    BY <2>2, <2>3
<1> QED
  BY <1>1, <1>2, <1>3 DEF Inv

\* Time makes entries outdated, and removes none.
LEMMA TickInv ==
    ASSUME Inv, Tick
    PROVE  Inv'
<1>1. /\ cache' = [kind \in Kinds |-> Lru!Aged(cache[kind])]
      /\ quiet' = [r \in Requests |-> FALSE]
      /\ healthy' = healthy /\ phase' = phase /\ items' = items /\ pending' = pending
      /\ pos' = pos /\ staleServed' = staleServed
  BY DEF Tick, Kinds
<1>2. CachesOK(cache) /\ Deserved(cache) /\ ServedOnce(staleServed, cache)
  BY DEF Inv
<1>3. ASSUME NEW kind \in Kinds
      PROVE  LET c == cache[kind]
                 a == cache'[kind]
             IN  /\ ListsHeld(a) /\ a.recency = c.recency
                 /\ \A x \in Keys : /\ Lru!Has(a, x) <=> Lru!Has(c, x)
                                    /\ Lru!Has(a, x) => /\ a.entry[x].value = c.entry[x].value
                                                       /\ a.entry[x].ttl = c.entry[x].ttl
  <2>1. ListsHeld(cache[kind]) /\ cache'[kind] = Lru!Aged(cache[kind])
    BY <1>1, <1>2 DEF CachesOK
  <2> QED
    BY <2>1, AgedIs
<1>4. CachesOK(cache')
  <2>1. cache' \in [Kinds -> CacheStates]
    BY <1>1, <1>3 DEF ListsHeld
  <2>2. ASSUME NEW kind \in Kinds
        PROVE  /\ ListsHeld(cache'[kind]) /\ Bounded(cache'[kind], SizeFor(kind))
               /\ \A k \in Keys : Lru!Has(cache'[kind], k) => KindOf(k) = kind
    BY <1>2, <1>3 DEF CachesOK, Bounded
  <2> QED
    BY <2>1, <2>2 DEF CachesOK
<1>5. ASSUME NEW k \in Keys
      PROVE  /\ HasIn(cache', k) <=> HasIn(cache, k)
             /\ HasIn(cache', k) => /\ EntryIn(cache', k).value = EntryIn(cache, k).value
                                    /\ EntryIn(cache', k).ttl = EntryIn(cache, k).ttl
  <2>1. KindOf(k) \in Kinds
    BY KindsAre
  <2> QED
    BY <1>3, <2>1 DEF HasIn, EntryIn, Lru!Has
<1>6. Deserved(cache') /\ ServedOnce(staleServed', cache')
  BY <1>1, <1>2, <1>5 DEF Deserved, ServedOnce
<1>7. FunctionsOK'
  BY <1>1 DEF Inv, FunctionsOK, Phases
<1>8. \A r \in Requests : RequestOK(r)'
  BY <1>1 DEF Inv, RequestOK, Shape
<1> QED
  BY <1>4, <1>6, <1>7, <1>8 DEF Inv

\* Every step keeps the invariant.
LEMMA NextInv == Inv /\ [Next]_vars => Inv'
<1> SUFFICES ASSUME Inv, [Next]_vars PROVE Inv'
  OBVIOUS
<1>1. ASSUME NEW r \in Requests, NEW b \in Blocks, BeginBlock(r, b) PROVE Inv'
  BY <1>1, BeginBlockInv
<1>2. ASSUME NEW r \in Requests, NEW b \in Blocks, BeginTransaction(r, b) PROVE Inv'
  BY <1>2, BeginTransactionInv
<1>3. ASSUME NEW r \in Requests, Step(r) PROVE Inv'
  <2>1. ASSUME NEW k \in Keys, NEW failed \in Outcomes(k), PrefetchSettles(r, k, failed)
        PROVE  Inv'
    BY <2>1, PrefetchSettlesInv
  <2>2. CASE PrefetchDone(r)
    BY <2>2, PrefetchDoneInv
  <2>3. CASE SerialHit(r)
    BY <2>3, SerialHitInv
  <2>4. CASE SerialMiss(r)
    BY <2>4, SerialMissInv
  <2>5. ASSUME phase[r] = "fetching", NEW failed \in Outcomes(Item(r)), SerialFetched(r, failed)
        PROVE  Inv'
    BY <2>5, SerialFetchedInv
  <2>6. CASE Reply(r)
    BY <2>6, ReplyInv
  <2> QED
    BY <1>3, <2>1, <2>2, <2>3, <2>4, <2>5, <2>6 DEF Step
<1>4. CASE Tick
  BY <1>4, TickInv
<1>5. CASE NodeHealth
  <2>1. /\ healthy' = ~healthy /\ cache' = cache /\ phase' = phase /\ items' = items
        /\ pending' = pending /\ pos' = pos /\ quiet' = quiet /\ staleServed' = staleServed
    BY <1>5 DEF NodeHealth
  <2>2. FunctionsOK'
    BY <2>1 DEF Inv, FunctionsOK, Phases
  <2> QED
    BY <2>1, <2>2 DEF Inv, RequestOK
<1>6. CASE UNCHANGED vars
  BY <1>6 DEF vars, Inv, FunctionsOK, RequestOK
<1> QED
  BY <1>1, <1>2, <1>3, <1>4, <1>5, <1>6 DEF Next

-----------------------------------------------------------------------------
(* The theorems.                                                           *)

\* The invariant holds in every reachable state.
THEOREM AlwaysInv == Spec => []Inv
<1>1. Init => Inv
  BY InitInv
<1>2. Inv /\ [Next]_vars => Inv'
  BY NextInv
<1> QED
  BY <1>1, <1>2, PTL DEF Spec

\* The caches hold at most what they have room for, list what they hold, and each
\* holds the keys of its kind; every request is somewhere in its block.
THEOREM AlwaysTypeOK == Spec => []TypeOK
<1>1. ASSUME Inv PROVE TypeOK
  <2>1. /\ cache \in [Kinds -> CacheStates]
        /\ \A kind \in Kinds :
             /\ ListsHeld(cache[kind]) /\ Bounded(cache[kind], SizeFor(kind))
             /\ \A k \in Keys : Lru!Has(cache[kind], k) => KindOf(k) = kind
    BY <1>1 DEF Inv, CachesOK
  <2>2. ASSUME NEW c, NEW max, ListsHeld(c), Bounded(c, max) PROVE Lru!WellFormedCache(c, max)
    BY <2>2 DEF Lru!WellFormedCache, ListsHeld, Bounded, CacheStates, Elements, Distinct
  <2>3. /\ Lru!WellFormedCache(cache.token, TokenCacheSize)
        /\ Lru!WellFormedCache(cache.abi, AbiCacheSize)
    BY <2>1, <2>2 DEF Kinds, SizeFor
  <2>4. \A k \in Keys : cache[IF k \in Tokens THEN "abi" ELSE "token"].entry[k] = NoEntry
    BY <2>1 DEF Kinds, KindOf, Lru!Has
  <2>5. ASSUME NEW r \in Requests
        PROVE  /\ items[r] \in Blocks \cup {<<>>} /\ pending[r] \in SUBSET Keys
               /\ pos[r] \in 1..(Len(items[r]) + 1)
    BY <1>1, ItemsAre DEF Inv, RequestOK, Shape
  <2> QED
    BY <1>1, <2>1, <2>3, <2>4, <2>5 DEF Inv, FunctionsOK, Phases, TypeOK, Kinds
<1> QED
  BY <1>1, AlwaysInv, PTL

\* Once a block is prefetched, and unless something disturbs the caches, its
\* serialization finds every key cached: no get of another of its keys, no concurrent
\* settling and no repetition makes the caches evict one of them.
THEOREM SerializationIsWarm == Spec => []WarmWhenQuiet
<1>1. ASSUME Inv PROVE WarmWhenQuiet
  <2> SUFFICES ASSUME NEW r \in Requests, quiet[r],
                      TokenCacheSize = 0 \/ Cardinality(ToSet(items[r]) \cap Tokens) <= TokenCacheSize,
                      AbiCacheSize = 0 \/ Cardinality(ToSet(items[r]) \cap Contracts) <= AbiCacheSize
               PROVE  /\ phase[r] # "fetching"
                      /\ phase[r] = "serial" => \A k \in ToSet(items[r]) : Cached(k)
    BY DEF WarmWhenQuiet
  <2>1. ToSet(items[r]) = Elements(items[r])
    BY DEF ToSet, Elements
  <2>2. Fits(Elements(items[r]))
    BY <2>1, KindsAre DEF Fits, Kinds, SizeFor
  <2>3. Shape(items[r], pending[r], pos[r], phase[r], quiet[r])
    BY <1>1 DEF Inv, RequestOK
  <2>4. /\ phase[r] \in {"prefetch", "serial"}
        /\ \A k \in Elements(items[r]) : k \in pending[r] \/ HasIn(cache, k)
    BY <1>1, <2>2 DEF Inv, RequestOK, WarmFor
  <2>5. Elements(items[r]) \subseteq Keys
    BY <2>3, ItemsAre DEF Shape
  <2> QED
    BY <2>1, <2>3, <2>4, <2>5, CachedIs DEF Shape
<1> QED
  BY <1>1, AlwaysInv, PTL

\* Whichever of two concurrent gets of a key settles last, the entry has the TTL of
\* its own value: incomplete metadata the error TTL, the rest the full one, and a
\* failed ABI fetch leaves no entry.
THEOREM EntriesLiveAsDeserved == Spec => []KeptAsLongAsDeserved
<1>1. ASSUME Inv PROVE KeptAsLongAsDeserved
  <2>1. Deserved(cache)
    BY <1>1 DEF Inv
  <2> QED
    BY <2>1, CachedIs DEF KeptAsLongAsDeserved, Deserved, LifetimeOf, EntryIn
<1> QED
  BY <1>1, AlwaysInv, PTL

\* The get that is given an outdated value removes it: of all concurrent gets one has
\* it, and the next one fetches.
THEOREM StaleValuesAreServedOnce == Spec => []StaleAtMostOnce
<1>1. ASSUME Inv PROVE StaleAtMostOnce
  BY <1>1 DEF Inv, ServedOnce, StaleAtMostOnce
<1> QED
  BY <1>1, AlwaysInv, PTL

-----------------------------------------------------------------------------
(* The table.                                                              *)

Known(c) == [k \in Keys |-> EntryIn(c, k)]
Busy == [r \in Requests |-> IF phase[r] = "idle" THEN "idle" ELSE "busy"]

\* The names of the table's operators.
LEMMA TableIs ==
    /\ Table!Keys = Keys
    /\ \A k : Table!Outcomes(k) = Outcomes(k)
    /\ \A k, v : Table!LifetimeOf(k, v) = LifetimeOf(k, v)
    /\ \A k \in Keys : Table!Outdated(k) <=> Outdated(EntryIn(cache, k))
    /\ \A S : Table!Forget(S) = [k \in Keys |-> IF k \in S THEN NoEntry ELSE EntryIn(cache, k)]
<1>1. Table!Keys = Keys
  BY DEF Table!Keys, Keys
<1>2. \A k : Table!Outcomes(k) = Outcomes(k)
  BY DEF Table!Outcomes, Outcomes, FetchesOf
<1>3. \A k, v : Table!LifetimeOf(k, v) = LifetimeOf(k, v)
  BY DEF Table!LifetimeOf, LifetimeOf
<1>4. \A k \in Keys : Table!Outdated(k) <=> Outdated(EntryIn(cache, k))
  BY DEF Table!Outdated, Outdated, EntryIn
<1>5. \A S : Table!Forget(S) = [k \in Keys |-> IF k \in S THEN NoEntry ELSE EntryIn(cache, k)]
  BY <1>1 DEF Table!Forget, EntryIn
<1> QED
  BY <1>1, <1>2, <1>3, <1>4, <1>5

\* Storing what came back is learning it, whatever is evicted.
LEMMA LearnMapped ==
    ASSUME Inv, NEW k \in Keys, NEW failed \in Outcomes(k), cache' = Stored(cache, k, failed)
    PROVE  Table!Learn(k, failed)
<1> DEFINE s == Stored(cache, k, failed)
           new == [value |-> failed, ttl |-> LifetimeOf(k, failed), age |-> 0]
           Forgotten == {x \in Keys \ {k} : EntryIn(s, x) = NoEntry}
           told == [Table!Forget(Forgotten) EXCEPT ![k] = new]
<1>1. /\ IF k \in Tokens \/ failed = {} THEN EntryIn(s, k) = new ELSE s = cache
      /\ \A x \in Keys \ {k} : EntryIn(s, x) \in {EntryIn(cache, x), NoEntry}
  <2>1. failed \in SUBSET FetchesOf(k) /\ CachesOK(cache)
    BY OutcomesAre DEF Inv
  <2> HIDE DEF new
  <2> QED
    BY <2>1, StoredIs DEF new
<1>2. k \in Contracts <=> k \notin Tokens
  BY CacheAssumption DEF Keys
<1> HIDE DEF s, new
<1>3. CASE k \in Contracts /\ failed # {}
  <2>1. s = cache
    BY <1>1, <1>2, <1>3
  <2> QED
    BY <1>3, <2>1 DEF Table!Learn, s
<1>4. CASE ~(k \in Contracts /\ failed # {})
  <2>1. ASSUME NEW x \in Keys PROVE EntryIn(s, x) = told[x]
    <3>1. CASE x = k
      BY <1>1, <1>2, <1>4, <3>1, TableIs
    <3>2. CASE x # k
      <4>1. told[x] = IF x \in Forgotten THEN NoEntry ELSE EntryIn(cache, x)
        BY <3>2, TableIs
      <4> QED
        BY <1>1, <3>2, <4>1
    <3> QED
      BY <3>1, <3>2
  <2>2. told = [x \in Keys |-> told[x]]
    BY TableIs
  <2>3. Known(s) = told
    <3> HIDE DEF told
    <3>1. [x \in Keys |-> EntryIn(s, x)] = [x \in Keys |-> told[x]]
      BY <2>1, Zenon
    <3> QED
      BY <2>2, <3>1 DEF Known
  <2>4. Forgotten \in SUBSET (Table!Keys \ {k})
    BY TableIs
  <2>5. [x \in Keys |-> cache'[KindOf(x)].entry[x]] = told
    <3> HIDE DEF told
    <3> QED
      BY <2>3 DEF Known, EntryIn, s
  <2> HIDE DEF Forgotten
  <2> QED
    BY <1>4, <2>4, <2>5, TableIs DEF Table!Learn, new
<1> QED
  BY <1>3, <1>4

\* A request that begins is busy; its prefetch forgets what is outdated.
LEMMA BeginBlockMapped ==
    ASSUME Inv, NEW r \in Requests, NEW b \in Blocks, BeginBlock(r, b)
    PROVE  Table!Begin(r, b)
<1> DEFINE keys == PrefetchKeys(b)
           l == AllLookedUp(cache, keys)
           Gone == {k \in Table!Keys : Table!Outdated(k) /\ \E i \in DOMAIN b : b[i] = k}
<1>1. b \in Seq(Keys)
  BY ItemsAre
<1>2. keys \in Seq(Keys) /\ Elements(keys) = Elements(b)
  BY <1>1, PrefetchKeysAre
<1>3. /\ phase[r] = "idle" /\ cache' = l
      /\ phase' = [phase EXCEPT ![r] = "prefetch"]
      /\ items' = [items EXCEPT ![r] = b] /\ pos' = [pos EXCEPT ![r] = 1]
      /\ healthy' = healthy /\ served' = served
  BY DEF BeginBlock
<1> HIDE DEF keys
<1>4. \A x \in Keys : EntryIn(l, x) =
        IF x \in Elements(b) /\ Outdated(EntryIn(cache, x)) THEN NoEntry ELSE EntryIn(cache, x)
  <2>1. CachesOK(cache)
    BY DEF Inv
  <2> QED
    BY <1>2, <2>1, AllLookedUpIs
<1> HIDE DEF l
<1>5. \A x \in Keys : x \in Gone <=> x \in Elements(b) /\ Outdated(EntryIn(cache, x))
  BY TableIs DEF Elements
<1> HIDE DEF Gone
<1>6. [k \in Keys |-> cache'[KindOf(k)].entry[k]] = Table!Forget(Gone)
  <2>1. \A x \in Keys : EntryIn(l, x) = IF x \in Gone THEN NoEntry ELSE EntryIn(cache, x)
    BY <1>4, <1>5
  <2>2. [x \in Keys |-> EntryIn(l, x)]
          = [x \in Keys |-> IF x \in Gone THEN NoEntry ELSE EntryIn(cache, x)]
    BY <2>1, Zenon
  <2> QED
    BY <1>3, <2>2, TableIs DEF EntryIn
<1>7. Busy[r] = "idle" /\ Busy' = [Busy EXCEPT ![r] = "busy"]
  BY <1>3 DEF Busy, Inv, FunctionsOK, Phases
<1> QED
  BY <1>3, <1>6, <1>7 DEF Table!Begin, Gone, Busy

\* The request for one transaction starts, and nothing is forgotten.
LEMMA BeginTransactionMapped ==
    ASSUME Inv, NEW r \in Requests, NEW b \in Blocks, BeginTransaction(r, b)
    PROVE  Table!Begin(r, b)
<1>1. /\ phase[r] = "idle" /\ cache' = cache
      /\ phase' = [phase EXCEPT ![r] = "serial"]
      /\ items' = [items EXCEPT ![r] = b] /\ pos' = [pos EXCEPT ![r] = 1]
      /\ healthy' = healthy /\ served' = served
  BY DEF BeginTransaction
<1>2. Busy[r] = "idle" /\ Busy' = [Busy EXCEPT ![r] = "busy"]
  BY <1>1 DEF Busy, Inv, FunctionsOK, Phases
<1> QED
  BY <1>1, <1>2 DEF Table!Begin, Busy

\* A get of the prefetch fetches ahead.
LEMMA PrefetchSettlesMapped ==
    ASSUME Inv, NEW r \in Requests, NEW k \in Keys, NEW failed \in Outcomes(k),
           PrefetchSettles(r, k, failed)
    PROVE  Table!FetchAhead(r, k, failed)
<1>1. /\ phase[r] = "prefetch" /\ k \in pending[r] /\ cache' = Stored(cache, k, failed)
      /\ healthy' = healthy /\ phase' = phase /\ items' = items /\ pos' = pos /\ served' = served
  BY DEF PrefetchSettles
<1>2. \E i \in DOMAIN items[r] : items[r][i] = k
  BY <1>1 DEF Inv, RequestOK, Shape, Elements
<1>3. Table!Learn(k, failed)
  BY <1>1, LearnMapped
<1>4. Busy[r] = "busy"
  BY <1>1 DEF Busy
<1> QED
  BY <1>1, <1>2, <1>3, <1>4 DEF Table!FetchAhead, Busy

\* A hit tells what is known, and deletes it if it was outdated.
LEMMA SerialHitMapped ==
    ASSUME Inv, NEW r \in Requests, SerialHit(r), NEW k \in Keys, k = Item(r)
    PROVE  Table!TellKnown(r, k)
<1> DEFINE l == LookedUp(cache, k)
<1>1. /\ phase[r] = "serial" /\ pos[r] <= Len(items[r]) /\ Cached(k) /\ cache' = l
      /\ served' = [served EXCEPT ![r] =
                       [key |-> k, value |-> ValueOf(k), stale |-> IsStale(k)]]
      /\ pos' = [pos EXCEPT ![r] = @ + 1]
      /\ healthy' = healthy /\ phase' = phase /\ items' = items /\ k = items[r][pos[r]]
  BY DEF SerialHit, Item
<1>2. k \in Keys
  OBVIOUS
<1>3. \A x \in Keys : EntryIn(l, x) =
        IF x = k /\ Outdated(EntryIn(cache, x)) THEN NoEntry ELSE EntryIn(cache, x)
  <2>1. CachesOK(cache)
    BY DEF Inv
  <2> QED
    BY <1>2, <2>1, LookedUpIs
<1> HIDE DEF l
<1>4. [x \in Keys |-> cache'[KindOf(x)].entry[x]]
        = IF Table!Outdated(k) THEN Table!Forget({k})
          ELSE [x \in Keys |-> cache[KindOf(x)].entry[x]]
  <2>1. CASE Outdated(EntryIn(cache, k))
    <3>1. \A x \in Keys : EntryIn(l, x) = IF x \in {k} THEN NoEntry ELSE EntryIn(cache, x)
      BY <1>3, <2>1
    <3>2. [x \in Keys |-> EntryIn(l, x)]
            = [x \in Keys |-> IF x \in {k} THEN NoEntry ELSE EntryIn(cache, x)]
      BY <3>1, Zenon
    <3> QED
      BY <1>1, <1>2, <2>1, <3>2, TableIs DEF EntryIn
  <2>2. CASE ~Outdated(EntryIn(cache, k))
    <3>1. \A x \in Keys : EntryIn(l, x) = EntryIn(cache, x)
      BY <1>3, <2>2
    <3>2. [x \in Keys |-> EntryIn(l, x)] = [x \in Keys |-> EntryIn(cache, x)]
      BY <3>1, Zenon
    <3> QED
      BY <1>1, <1>2, <2>2, <3>2, TableIs DEF EntryIn
  <2> QED
    BY <2>1, <2>2
<1>5. EntryIn(cache, k) # NoEntry /\ ValueOf(k) = EntryIn(cache, k).value
  BY <1>1, <1>2, CachedIs DEF HasIn
<1>6. IsStale(k) = Table!Outdated(k)
  BY <1>2, CachedIs, TableIs DEF IsStale, Table!Outdated
<1>7. Busy[r] = "busy"
  BY <1>1 DEF Busy
<1>8. Table!Tell(r, k, EntryIn(cache, k).value, Table!Outdated(k))
  BY <1>1, <1>5, <1>6, <1>7 DEF Table!Tell, Busy
<1> QED
  BY <1>2, <1>4, <1>5, <1>8 DEF Table!TellKnown, EntryIn

\* A fetch of the serial loop tells what it learns.
LEMMA SerialFetchedMapped ==
    ASSUME Inv, NEW r \in Requests, phase[r] = "fetching",
           NEW k \in Keys, k = Item(r), NEW failed \in Outcomes(k), SerialFetched(r, failed)
    PROVE  Table!TellFetched(r, k, failed)
<1>1. /\ cache' = Stored(cache, Item(r), failed)
      /\ served' = [served EXCEPT ![r] = [key |-> Item(r), value |-> failed, stale |-> FALSE]]
      /\ phase' = [phase EXCEPT ![r] = "serial"] /\ pos' = [pos EXCEPT ![r] = @ + 1]
      /\ healthy' = healthy /\ items' = items
  BY DEF SerialFetched
<1>2. pos[r] <= Len(items[r])
  BY DEF Inv, RequestOK, Shape
<1>3. cache' = Stored(cache, k, failed)
  BY <1>1
<1>4. Table!Learn(k, failed)
  BY <1>3, LearnMapped
<1>5. Busy[r] = "busy" /\ Busy' = Busy
  BY <1>1 DEF Busy, Inv, FunctionsOK, Phases
<1>6. Table!Tell(r, k, failed, FALSE)
  BY <1>1, <1>2, <1>5 DEF Table!Tell, Busy, Item
<1> QED
  BY <1>4, <1>6 DEF Table!TellFetched

\* What is answered was told to its end.
LEMMA ReplyMapped ==
    ASSUME Inv, NEW r \in Requests, Reply(r)
    PROVE  Table!Finish(r)
<1>1. /\ phase[r] = "serial" /\ pos[r] > Len(items[r])
      /\ phase' = [phase EXCEPT ![r] = "idle"] /\ items' = [items EXCEPT ![r] = <<>>]
      /\ pos' = [pos EXCEPT ![r] = 1] /\ served' = [served EXCEPT ![r] = NoItem]
      /\ cache' = cache /\ healthy' = healthy
  BY DEF Reply
<1>2. Busy[r] = "busy" /\ Busy' = [Busy EXCEPT ![r] = "idle"]
  BY <1>1 DEF Busy, Inv, FunctionsOK, Phases
<1> QED
  BY <1>1, <1>2 DEF Table!Finish, Busy

\* Both caches age as the table does.
LEMMA TickMapped ==
    ASSUME Inv, Tick
    PROVE  Table!Tick
<1>1. /\ cache' = [kind \in Kinds |-> Lru!Aged(cache[kind])]
      /\ healthy' = healthy /\ phase' = phase /\ items' = items /\ pos' = pos /\ served' = served
  BY DEF Tick, Kinds
<1> DEFINE Older(e) == IF e = NoEntry \/ Outdated(e) \/ e.ttl = 0 THEN e
                       ELSE [e EXCEPT !.age = @ + 1]
<1>2. ASSUME NEW x \in Keys PROVE EntryIn(cache', x) = Older(EntryIn(cache, x))
  <2> DEFINE c == cache[KindOf(x)]
             aged == [k \in Keys |-> IF ~Lru!Has(c, k) \/ Lru!Stale(c, k) \/ c.entry[k].ttl = 0
                                     THEN c.entry[k] ELSE [c.entry[k] EXCEPT !.age = @ + 1]]
  <2>1. KindOf(x) \in Kinds /\ cache \in [Kinds -> CacheStates]
    BY KindsAre DEF Inv, CachesOK
  <2>2. c \in CacheStates /\ cache'[KindOf(x)] = Lru!Aged(c)
    BY <1>1, <2>1
  <2>3. Lru!Aged(c) = [c EXCEPT !.entry = aged]
    BY DEF Lru!Aged
  <2> HIDE DEF aged
  <2>4. [c EXCEPT !.entry = aged].entry = aged
    BY <2>2 DEF CacheStates
  <2>5. EntryIn(cache', x) = aged[x]
    BY <2>2, <2>3, <2>4 DEF EntryIn
  <2>6. aged[x] = IF ~Lru!Has(c, x) \/ Lru!Stale(c, x) \/ c.entry[x].ttl = 0
                  THEN c.entry[x] ELSE [c.entry[x] EXCEPT !.age = @ + 1]
    BY DEF aged
  <2>7. c.entry[x] = EntryIn(cache, x)
    BY DEF EntryIn
  <2> HIDE DEF c
  <2> QED
    BY <2>5, <2>6, <2>7 DEF Lru!Has, Lru!Stale, Outdated
<1>3. [x \in Keys |-> cache'[KindOf(x)].entry[x]]
        = [x \in Table!Keys |->
             IF [y \in Keys |-> cache[KindOf(y)].entry[y]][x] = NoEntry \/ Table!Outdated(x)
                \/ [y \in Keys |-> cache[KindOf(y)].entry[y]][x].ttl = 0
             THEN [y \in Keys |-> cache[KindOf(y)].entry[y]][x]
             ELSE [[y \in Keys |-> cache[KindOf(y)].entry[y]][x] EXCEPT !.age = @ + 1]]
  <2> DEFINE before == [y \in Keys |-> cache[KindOf(y)].entry[y]]
             After(x) == IF before[x] = NoEntry \/ Table!Outdated(x) \/ before[x].ttl = 0
                         THEN before[x] ELSE [before[x] EXCEPT !.age = @ + 1]
  <2>1. \A x \in Keys : before[x] = EntryIn(cache, x)
    BY DEF EntryIn
  <2> HIDE DEF before
  <2>2. \A x \in Keys : cache'[KindOf(x)].entry[x] = After(x)
    BY <1>2, <2>1, TableIs DEF EntryIn
  <2> HIDE DEF After
  <2>3. [x \in Keys |-> cache'[KindOf(x)].entry[x]] = [x \in Keys |-> After(x)]
    BY <2>2, Zenon
  <2> QED
    BY <2>3, TableIs DEF After, before
<1> QED
  BY <1>1, <1>3 DEF Table!Tick

\* Every step of the caches is one of the table, or none.
LEMMA NextMapped == Inv /\ [Next]_vars => [Table!Next]_(Table!table)
<1> SUFFICES ASSUME Inv, [Next]_vars PROVE [Table!Next]_(Table!table)
  OBVIOUS
<1>1. ASSUME NEW r \in Requests, NEW b \in Blocks, BeginBlock(r, b) \/ BeginTransaction(r, b)
      PROVE  Table!Next
  BY <1>1, BeginBlockMapped, BeginTransactionMapped DEF Table!Next
<1>2. ASSUME NEW r \in Requests, Step(r) PROVE [Table!Next]_(Table!table)
  <2>1. ASSUME NEW k \in Keys, NEW failed \in Outcomes(k), PrefetchSettles(r, k, failed)
        PROVE  Table!Next
    BY <2>1, PrefetchSettlesMapped, TableIs DEF Table!Next
  <2>2. CASE PrefetchDone(r) \/ SerialMiss(r)
    <3>1. /\ cache' = cache /\ healthy' = healthy /\ items' = items /\ pos' = pos
          /\ served' = served
      BY <2>2 DEF PrefetchDone, SerialMiss
    <3>2. Busy' = Busy
      BY <2>2 DEF PrefetchDone, SerialMiss, Busy, Inv, FunctionsOK, Phases
    <3> QED
      BY <3>1, <3>2 DEF Table!table, Busy
  <2>3. CASE SerialHit(r)
    <3>1. Item(r) \in Keys
      BY <2>3, ItemIs DEF SerialHit
    <3>2. PICK k \in Keys : k = Item(r)
      BY <3>1
    <3>3. Table!TellKnown(r, k)
      BY <2>3, <3>2, SerialHitMapped
    <3> QED
      BY <3>3, TableIs DEF Table!Next
  <2>4. ASSUME phase[r] = "fetching", NEW failed \in Outcomes(Item(r)), SerialFetched(r, failed)
        PROVE  Table!Next
    <3>1. Item(r) \in Keys
      BY <2>4, ItemIs DEF Inv, RequestOK, Shape
    <3>2. PICK k \in Keys : k = Item(r)
      BY <3>1
    <3>3. failed \in Outcomes(k)
      BY <3>2
    <3>4. Table!TellFetched(r, k, failed)
      BY <2>4, <3>2, <3>3, SerialFetchedMapped
    <3> QED
      BY <3>3, <3>4, TableIs DEF Table!Next
  <2>5. CASE Reply(r)
    BY <2>5, ReplyMapped DEF Table!Next
  <2> QED
    BY <1>2, <2>1, <2>2, <2>3, <2>4, <2>5 DEF Step
<1>3. CASE Tick
  BY <1>3, TickMapped DEF Table!Next
<1>4. CASE NodeHealth
  <2>1. Table!NodeHealth
    BY <1>4 DEF NodeHealth, Table!NodeHealth
  <2> QED
    BY <2>1 DEF Table!Next
<1>5. CASE UNCHANGED vars
  BY <1>5 DEF vars, Table!table
<1> QED
  BY <1>1, <1>2, <1>3, <1>4, <1>5 DEF Next

\* Empty caches are a table that knows nothing.
LEMMA InitMapped == Init => Table!Init
<1> SUFFICES ASSUME Init PROVE Table!Init
  OBVIOUS
<1>1. /\ cache = [kind \in {"token", "abi"} |-> Lru!Empty]
      /\ phase = [r \in Requests |-> "idle"] /\ items = [r \in Requests |-> <<>>]
      /\ pos = [r \in Requests |-> 1] /\ served = [r \in Requests |-> NoItem] /\ healthy = TRUE
  BY DEF Init
<1>2. \A k \in Keys : cache[KindOf(k)].entry[k] = NoEntry
  BY <1>1 DEF KindOf, Lru!Empty
<1>3. [k \in Keys |-> cache[KindOf(k)].entry[k]] = [k \in Keys |-> NoEntry]
  BY <1>2, Zenon
<1>4. Busy = [r \in Requests |-> "idle"]
  BY <1>1 DEF Busy
<1> QED
  BY <1>1, <1>3, <1>4, TableIs DEF Table!Init, Busy

\* The two caches keep the promise of the table: for any sizes, TTLs, blocks and
\* requests, however their gets interleave.
THEOREM CachesKeepTheTable == Spec => KeepsTheTable
<1>1. Inv /\ [Next]_vars => [Table!Next]_(Table!table)
  BY NextMapped
<1> QED
  BY <1>1, InitMapped, AlwaysInv, PTL DEF Spec, KeepsTheTable, Table!Spec
=============================================================================
