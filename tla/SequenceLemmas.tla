--------------------------- MODULE SequenceLemmas ---------------------------
(***************************************************************************)
(* Lemmas about recursion on the natural numbers and about filtering a     *)
(* sequence, for the proofs about the modules that filter.  Induction is   *)
(* by the least counterexample: UpTo takes the claim as a set.             *)
(***************************************************************************)
EXTENDS Filters, Integers, SequenceTheorems, WellFoundedInduction, TLAPS

\* A set of natural numbers that is not empty has a least element.
LEMMA Least ==
    ASSUME NEW S, S \subseteq Nat, S # {}
    PROVE  \E n \in S : \A m \in S : n <= m
<1> DEFINE R == OpToRel(<, Nat)
<1>1. \E x \in S : \A y \in S : ~(<<y, x>> \in R)
  BY NatLessThanWellFounded, WFMin, Zenon
<1>2. \A x, y \in Nat : <<y, x>> \in R <=> y < x
  BY DEF OpToRel
<1> HIDE DEF R
<1>3. PICK x \in S : \A y \in S : ~(<<y, x>> \in R)
  BY <1>1
<1>4. \A y \in S : ~(y < x)
  BY <1>2, <1>3, Zenon
<1> QED
  BY <1>4

\* Induction up to N, with the set of the numbers where the claim holds.
LEMMA UpTo ==
    ASSUME NEW N \in Nat, NEW S,
           0 \in S,
           \A n \in 1..N : n - 1 \in S => n \in S
    PROVE  \A n \in 0..N : n \in S
<1> DEFINE Bad == {n \in 0..N : n \notin S}
<1> SUFFICES ASSUME Bad # {} PROVE FALSE
  OBVIOUS
<1>0. Bad \subseteq Nat
  OBVIOUS
<1>1. PICK n \in Bad : \A m \in Bad : n <= m
  <2> HIDE DEF Bad
  <2> QED BY <1>0, Least
<1>2. n \in 1..N /\ n - 1 \notin Bad
  BY <1>1
<1> QED
  BY <1>2

\* The solutions up to N of a recursion from x0 with a given step.
Solutions(X, x0, N, next) ==
    {g \in [0..N -> X] : g[0] = x0 /\ \A n \in 1..N : g[n] = next[<<g[n - 1], n>>]}

\* There is one.
LEMMA Solution ==
    ASSUME NEW X, NEW x0 \in X, NEW N \in Nat, NEW next,
           \A x \in X, n \in 1..N : next[<<x, n>>] \in X
    PROVE  \E g \in Solutions(X, x0, N, next) : TRUE
<1> DEFINE S == {k \in 0..N : \E g \in [0..N -> X] :
                    g[0] = x0 /\ \A n \in 1..k : g[n] = next[<<g[n - 1], n>>]}
<1>1. 0 \in S
  <2> DEFINE g == [i \in 0..N |-> x0]
  <2>1. g \in [0..N -> X] /\ g[0] = x0
    OBVIOUS
  <2> HIDE DEF g
  <2>2. \A n \in 1..0 : g[n] = next[<<g[n - 1], n>>]
    OBVIOUS
  <2> QED
    BY <2>1, <2>2
<1>2. ASSUME NEW k \in 1..N, k - 1 \in S PROVE k \in S
  <2>1. PICK g \in [0..N -> X] :
           g[0] = x0 /\ \A n \in 1..(k - 1) : g[n] = next[<<g[n - 1], n>>]
    BY <1>2
  <2> DEFINE h == [g EXCEPT ![k] = next[<<g[k - 1], k>>]]
  <2>2. h \in [0..N -> X]
    OBVIOUS
  <2>3. h[0] = x0
    BY <2>1
  <2>4. ASSUME NEW n \in 1..k PROVE h[n] = next[<<h[n - 1], n>>]
    <3>1. h[n - 1] = g[n - 1]
      OBVIOUS
    <3>2. n = k => h[n] = next[<<g[k - 1], k>>]
      OBVIOUS
    <3>3. n # k => h[n] = g[n] /\ n \in 1..(k - 1)
      OBVIOUS
    <3> HIDE DEF h
    <3> QED
      BY <3>1, <3>2, <3>3, <2>1
  <2> QED
    <3> HIDE DEF h
    <3> QED
    BY <2>2, <2>3, <2>4
<1>3. \A n \in 0..N : n \in S
  <2> HIDE DEF S
  <2> QED
    BY <1>1, <1>2, UpTo
<1>4. N \in S
  BY <1>3
<1> QED
  BY <1>4 DEF Solutions

\* And only one.
LEMMA SameRecursion ==
    ASSUME NEW N \in Nat, NEW f, NEW g,
           f[0] = g[0],
           \A n \in 1..N : f[n - 1] = g[n - 1] => f[n] = g[n]
    PROVE  \A n \in 0..N : f[n] = g[n]
<1> DEFINE S == {n \in 0..N : f[n] = g[n]}
<1>1. \A n \in 0..N : n \in S
  <2>1. 0 \in S OBVIOUS
  <2>2. ASSUME NEW n \in 1..N, n - 1 \in S PROVE n \in S
    <3>1. f[n - 1] = g[n - 1] BY <2>2
    <3>2. f[n] = g[n] BY <3>1
    <3> QED BY <3>2
  <2> HIDE DEF S
  <2> QED BY <2>1, <2>2, UpTo
<1> QED
  BY <1>1
-----------------------------------------------------------------------------
\* The elements kept of the first n of seq, n by n.
Keeps(g, seq, S) ==
    g = [n \in 0..Len(seq) |->
            IF n = 0 THEN <<>>
            ELSE IF seq[n] \in S THEN Append(g[n - 1], seq[n]) ELSE g[n - 1]]

\* OnlyIn is the last value of any function that satisfies its recursion.
LEMMA OnlyInIs ==
    ASSUME NEW X, NEW seq \in Seq(X), NEW S, NEW g, Keeps(g, seq, S)
    PROVE  OnlyIn(seq, S) = g[Len(seq)]
<1> DEFINE kept == CHOOSE f : Keeps(f, seq, S)
<1>1. Keeps(kept, seq, S)
  OBVIOUS
<1>2. OnlyIn(seq, S) = kept[Len(seq)]
  BY Zenon DEF OnlyIn, Keeps
<1>0. Len(seq) \in Nat
  OBVIOUS
<1> HIDE DEF kept
<1>3. kept[0] = g[0]
  BY <1>1 DEF Keeps
<1>4. ASSUME NEW n \in 1..Len(seq), kept[n - 1] = g[n - 1] PROVE kept[n] = g[n]
  <2>0. n \in 0..Len(seq) /\ n # 0
    BY <1>0
  <2>1. kept[n] = IF seq[n] \in S THEN Append(kept[n - 1], seq[n]) ELSE kept[n - 1]
    BY <1>1, <2>0 DEF Keeps
  <2>2. g[n] = IF seq[n] \in S THEN Append(g[n - 1], seq[n]) ELSE g[n - 1]
    BY <2>0 DEF Keeps
  <2> QED
    BY <1>4, <2>1, <2>2
<1>5. \A n \in 0..Len(seq) : kept[n] = g[n]
  BY <1>0, <1>3, <1>4, SameRecursion, Zenon
<1> QED
  BY <1>2, <1>5

\* The prefixes of a filter, n by n, as a function.
KeptPrefixes(X, seq, S) ==
    {g \in [0..Len(seq) -> Seq(X)] :
        /\ OnlyIn(seq, S) = g[Len(seq)]
        /\ g[0] = <<>>
        /\ \A n \in 1..Len(seq) :
             g[n] = IF seq[n] \in S THEN Append(g[n - 1], seq[n]) ELSE g[n - 1]}

\* There is such a function, and its values are sequences over X.
LEMMA KeptPrefixesExist ==
    ASSUME NEW X, NEW seq \in Seq(X), NEW S
    PROVE  \E g \in KeptPrefixes(X, seq, S) : TRUE
<1> DEFINE N == Len(seq)
           next == [p \in Seq(X) \X (1..N) |->
                      IF seq[p[2]] \in S THEN Append(p[1], seq[p[2]]) ELSE p[1]]
<1>1. N \in Nat /\ <<>> \in Seq(X) /\ \A n \in 1..N : seq[n] \in X
  OBVIOUS
<1>2. \A s \in Seq(X), n \in 1..N :
        next[<<s, n>>] = IF seq[n] \in S THEN Append(s, seq[n]) ELSE s
  OBVIOUS
<1>3. ASSUME NEW s \in Seq(X), NEW n \in 1..N PROVE next[<<s, n>>] \in Seq(X)
  <2>1. next[<<s, n>>] = IF seq[n] \in S THEN Append(s, seq[n]) ELSE s
    BY <1>2
  <2> HIDE DEF next
  <2> QED
    BY <1>1, <2>1
<1> HIDE DEF next, N
<1>4. PICK g \in Solutions(Seq(X), <<>>, N, next) : TRUE
  BY <1>1, <1>3, Solution
<1>g. /\ g \in [0..N -> Seq(X)] /\ g[0] = <<>>
      /\ \A n \in 1..N : g[n] = next[<<g[n - 1], n>>]
  BY <1>4 DEF Solutions
<1>5. ASSUME NEW n \in 1..N
      PROVE  g[n] = IF seq[n] \in S THEN Append(g[n - 1], seq[n]) ELSE g[n - 1]
  <2>1. g[n] = next[<<g[n - 1], n>>] /\ g[n - 1] \in Seq(X)
    BY <1>1, <1>g
  <2> QED
    BY <2>1, <1>2
<1>6. Keeps(g, seq, S)
  <2>1. ASSUME NEW n \in 0..N
        PROVE  g[n] = IF n = 0 THEN <<>>
                      ELSE IF seq[n] \in S THEN Append(g[n - 1], seq[n]) ELSE g[n - 1]
    <3>1. CASE n = 0
      BY <3>1, <1>g
    <3>2. CASE n # 0
      <4>1. n \in 1..N
        BY <3>2, <1>1
      <4> QED
        BY <4>1, <1>5, <3>2
    <3> QED
      BY <3>1, <3>2
  <2>2. g = [n \in 0..N |-> g[n]]
    BY <1>g
  <2>3. [n \in 0..N |-> g[n]]
          = [n \in 0..N |-> IF n = 0 THEN <<>>
                 ELSE IF seq[n] \in S THEN Append(g[n - 1], seq[n]) ELSE g[n - 1]]
    BY <2>1, Zenon
  <2> QED
    BY <2>2, <2>3, Zenon DEF Keeps, N
<1>7. OnlyIn(seq, S) = g[N]
  BY <1>6, OnlyInIs DEF N
<1> QED
  BY <1>g, <1>5, <1>7 DEF N, KeptPrefixes

\* What is kept is a sequence of elements of seq that are in S.
LEMMA OnlyInType ==
    ASSUME NEW X, NEW seq \in Seq(X), NEW S
    PROVE  /\ OnlyIn(seq, S) \in Seq(X)
           /\ \A i \in 1..Len(OnlyIn(seq, S)) :
                OnlyIn(seq, S)[i] \in S /\ \E j \in 1..Len(seq) : OnlyIn(seq, S)[i] = seq[j]
<1> DEFINE N == Len(seq)
<1>0. PICK g \in KeptPrefixes(X, seq, S) : TRUE
  BY KeptPrefixesExist
<1>1. /\ OnlyIn(seq, S) = g[N] /\ g[0] = <<>> /\ \A n \in 0..N : g[n] \in Seq(X)
      /\ \A n \in 1..N : g[n] = IF seq[n] \in S THEN Append(g[n - 1], seq[n]) ELSE g[n - 1]
  BY <1>0 DEF KeptPrefixes
<1> DEFINE P == {n \in 0..N : \A i \in 1..Len(g[n]) :
                    g[n][i] \in S /\ \E j \in 1..N : g[n][i] = seq[j]}
<1>2. 0 \in P
  BY <1>1
<1>3. ASSUME NEW n \in 1..N, n - 1 \in P PROVE n \in P
  <2>1. g[n - 1] \in Seq(X) /\ g[n] \in Seq(X) /\ seq[n] \in X /\ n \in 0..N
    <3>1. n \in 0..N /\ n - 1 \in 0..N /\ seq[n] \in X
      OBVIOUS
    <3> QED
      BY <1>1, <3>1
  <2>2. CASE seq[n] \notin S
    <3>1. g[n] = g[n - 1]
      BY <1>1, <2>2
    <3> QED
      BY <1>3, <2>1, <3>1
  <2>3. CASE seq[n] \in S
    <3>1. g[n] = Append(g[n - 1], seq[n])
      BY <1>1, <2>3
    <3>2. ASSUME NEW i \in 1..Len(g[n])
          PROVE  g[n][i] \in S /\ \E j \in 1..N : g[n][i] = seq[j]
      <4>1. CASE i = Len(g[n - 1]) + 1
        BY <2>1, <2>3, <3>1, <4>1
      <4>2. CASE i \in 1..Len(g[n - 1])
        BY <1>3, <2>1, <3>1, <4>2
      <4> QED
        BY <2>1, <3>1, <4>1, <4>2
    <3> QED
      BY <2>1, <3>2
  <2> QED
    BY <2>2, <2>3
<1>4. N \in Nat
  OBVIOUS
<1>5. \A n \in 0..N : n \in P
  <2> HIDE DEF P, N
  <2> QED
    BY <1>2, <1>3, <1>4, UpTo
<1> QED
  BY <1>1, <1>4, <1>5

\* Nothing in S is lost.
LEMMA OnlyInKeeps ==
    ASSUME NEW X, NEW seq \in Seq(X), NEW S, NEW j \in 1..Len(seq), seq[j] \in S
    PROVE  \E i \in 1..Len(OnlyIn(seq, S)) : OnlyIn(seq, S)[i] = seq[j]
<1> DEFINE N == Len(seq)
<1>0. PICK g \in KeptPrefixes(X, seq, S) : TRUE
  BY KeptPrefixesExist
<1>1. /\ OnlyIn(seq, S) = g[N] /\ g[0] = <<>> /\ \A n \in 0..N : g[n] \in Seq(X)
      /\ \A n \in 1..N : g[n] = IF seq[n] \in S THEN Append(g[n - 1], seq[n]) ELSE g[n - 1]
  BY <1>0 DEF KeptPrefixes
<1> DEFINE P == {n \in 0..N : j <= n => \E i \in 1..Len(g[n]) : g[n][i] = seq[j]}
<1>2. 0 \in P
  OBVIOUS
<1>3. ASSUME NEW n \in 1..N, n - 1 \in P PROVE n \in P
  <2>1. g[n - 1] \in Seq(X) /\ g[n] \in Seq(X) /\ seq[n] \in X /\ n \in 0..N
    <3>1. n \in 0..N /\ n - 1 \in 0..N /\ seq[n] \in X
      OBVIOUS
    <3> QED
      BY <1>1, <3>1
  <2>2. CASE seq[n] \notin S
    <3>1. g[n] = g[n - 1] /\ j # n
      BY <1>1, <2>2
    <3> QED
      BY <1>3, <2>1, <3>1
  <2>3. CASE seq[n] \in S
    <3>1. g[n] = Append(g[n - 1], seq[n])
      BY <1>1, <2>3
    <3>2. CASE j = n
      <4>1. Len(g[n - 1]) + 1 \in 1..Len(g[n]) /\ g[n][Len(g[n - 1]) + 1] = seq[j]
        BY <2>1, <3>1, <3>2
      <4> QED
        BY <2>1, <4>1
    <3>3. CASE j < n
      <4>1. PICK i \in 1..Len(g[n - 1]) : g[n - 1][i] = seq[j]
        BY <1>3, <3>3
      <4>2. i \in 1..Len(g[n]) /\ g[n][i] = seq[j]
        BY <2>1, <3>1, <4>1
      <4> QED
        BY <2>1, <4>2
    <3> QED
      BY <2>1, <3>2, <3>3
  <2> QED
    BY <2>2, <2>3
<1>4. N \in Nat
  OBVIOUS
<1>5. \A n \in 0..N : n \in P
  <2> HIDE DEF P, N
  <2> QED
    BY <1>2, <1>3, <1>4, UpTo
<1>6. N \in P /\ j <= N
  BY <1>4, <1>5
<1> QED
  BY <1>1, <1>6

\* A filter that everything passes, and one that nothing does.
LEMMA OnlyInAll ==
    ASSUME NEW X, NEW seq \in Seq(X), NEW S, \A i \in 1..Len(seq) : seq[i] \in S
    PROVE  OnlyIn(seq, S) = seq
<1> DEFINE g == [n \in 0..Len(seq) |-> SubSeq(seq, 1, n)]
<1>1. ASSUME NEW n \in 1..Len(seq)
      PROVE  SubSeq(seq, 1, n) = Append(SubSeq(seq, 1, n - 1), seq[n])
  OBVIOUS
<1>2. Keeps(g, seq, S)
  <2>1. SubSeq(seq, 1, 0) = <<>>
    OBVIOUS
  <2> QED
    BY <1>1, <2>1 DEF Keeps
<1>3. g[Len(seq)] = seq
  OBVIOUS
<1> HIDE DEF g
<1> QED
  BY <1>2, <1>3, OnlyInIs

\* A filter that nothing passes.
LEMMA OnlyInNone ==
    ASSUME NEW X, NEW seq \in Seq(X), NEW S, \A i \in 1..Len(seq) : seq[i] \notin S
    PROVE  OnlyIn(seq, S) = <<>>
<1> DEFINE g == [n \in 0..Len(seq) |-> <<>>]
<1>1. Keeps(g, seq, S) /\ g[Len(seq)] = <<>>
  BY DEF Keeps
<1> HIDE DEF g
<1> QED
  BY <1>1, OnlyInIs

\* Append moves into a concatenation.
LEMMA AppendToConcat ==
    ASSUME NEW X, NEW a \in Seq(X), NEW b \in Seq(X), NEW y \in X
    PROVE  a \o Append(b, y) = Append(a \o b, y)
<1>1. /\ Append(b, y) \in Seq(X) /\ a \o b \in Seq(X)
      /\ a \o Append(b, y) \in Seq(X) /\ Append(a \o b, y) \in Seq(X)
  BY AppendProperties, ConcatProperties
<1>2. Len(a \o Append(b, y)) = Len(Append(a \o b, y))
  BY <1>1, AppendProperties, ConcatProperties
<1>3. ASSUME NEW i \in 1..Len(a \o Append(b, y))
      PROVE  (a \o Append(b, y))[i] = Append(a \o b, y)[i]
  <2>1. /\ Len(a) \in Nat /\ Len(b) \in Nat /\ Len(a \o b) = Len(a) + Len(b)
        /\ Len(Append(b, y)) = Len(b) + 1 /\ i \in 1..(Len(a) + Len(b) + 1)
    BY <1>1, AppendProperties, ConcatProperties
  <2>2. CASE i <= Len(a)
    BY <1>1, <2>1, <2>2, AppendProperties, ConcatProperties
  <2>3. CASE i > Len(a) /\ i <= Len(a) + Len(b)
    <3>1. (a \o Append(b, y))[i] = Append(b, y)[i - Len(a)]
      BY <1>1, <2>1, <2>3, ConcatProperties
    <3>2. Append(b, y)[i - Len(a)] = b[i - Len(a)]
      BY <2>1, <2>3, AppendProperties
    <3>3. Append(a \o b, y)[i] = (a \o b)[i]
      BY <1>1, <2>1, <2>3, AppendProperties
    <3>4. (a \o b)[i] = b[i - Len(a)]
      BY <2>1, <2>3, ConcatProperties
    <3> QED
      BY <3>1, <3>2, <3>3, <3>4
  <2>4. CASE i = Len(a) + Len(b) + 1
    <3>1. (a \o Append(b, y))[i] = Append(b, y)[Len(b) + 1]
      BY <1>1, <2>1, <2>4, ConcatProperties
    <3> QED
      BY <1>1, <2>1, <2>4, <3>1, AppendProperties
  <2> QED
    BY <2>1, <2>2, <2>3, <2>4
<1> QED
  BY <1>1, <1>2, <1>3, SeqEqual

\* The filter of a concatenation is the concatenation of the filters.
LEMMA OnlyInConcat ==
    ASSUME NEW X, NEW p \in Seq(X), NEW q \in Seq(X), NEW S
    PROVE  OnlyIn(p \o q, S) = OnlyIn(p, S) \o OnlyIn(q, S)
<1> DEFINE M == Len(p)
           N == Len(q)
<1>1. PICK f \in KeptPrefixes(X, p, S) : TRUE
  BY KeptPrefixesExist
<1>2. PICK h \in KeptPrefixes(X, q, S) : TRUE
  BY KeptPrefixesExist
<1>3. /\ OnlyIn(p, S) = f[M] /\ f[0] = <<>> /\ \A n \in 0..M : f[n] \in Seq(X)
      /\ \A n \in 1..M : f[n] = IF p[n] \in S THEN Append(f[n - 1], p[n]) ELSE f[n - 1]
  BY <1>1 DEF KeptPrefixes
<1>4. /\ OnlyIn(q, S) = h[N] /\ h[0] = <<>> /\ \A n \in 0..N : h[n] \in Seq(X)
      /\ \A n \in 1..N : h[n] = IF q[n] \in S THEN Append(h[n - 1], q[n]) ELSE h[n - 1]
  BY <1>2 DEF KeptPrefixes
<1>5. M \in Nat /\ N \in Nat /\ Len(p \o q) = M + N /\ p \o q \in Seq(X)
  OBVIOUS
<1> DEFINE g == [n \in 0..Len(p \o q) |-> IF n <= M THEN f[n] ELSE f[M] \o h[n - M]]
<1>g. \A n \in 0..(M + N) : g[n] = IF n <= M THEN f[n] ELSE f[M] \o h[n - M]
  BY <1>5
<1> HIDE DEF g
<1>6. ASSUME NEW n \in 1..(M + N)
      PROVE  g[n] = IF (p \o q)[n] \in S THEN Append(g[n - 1], (p \o q)[n]) ELSE g[n - 1]
  <2>1. CASE n <= M
    <3>1. (p \o q)[n] = p[n] /\ g[n] = f[n] /\ g[n - 1] = f[n - 1] /\ n \in 1..M
      BY <2>1, <1>5, <1>g
    <3> QED
      BY <1>3, <3>1
  <2>2. CASE n > M
    <3>0. n \in 0..(M + N) /\ n - 1 \in 0..(M + N) /\ n - M \in 1..N /\ ~(n <= M)
          /\ n - 1 - M = n - M - 1
      BY <2>2, <1>5
    <3>1. (p \o q)[n] = q[n - M] /\ g[n] = f[M] \o h[n - M] /\ n - M \in 1..N
      <4>1. (p \o q)[n] = q[n - M]
        BY <3>0, <1>5, ConcatProperties
      <4> QED
        BY <4>1, <3>0, <1>g
    <3>2. g[n - 1] = f[M] \o h[n - M - 1]
      <4>1. CASE n - 1 = M
        <5>1. g[n - 1] = f[M] /\ n - M - 1 = 0 /\ f[M] \in Seq(X)
          BY <4>1, <1>5, <1>3, <1>g
        <5>2. f[M] \o <<>> = f[M]
          BY <5>1, ConcatEmptySeq
        <5> QED
          BY <5>1, <5>2, <1>4
      <4>2. CASE n - 1 > M
        <5>1. ~(n - 1 <= M)
          BY <4>2, <1>5
        <5>2. g[n - 1] = f[M] \o h[n - 1 - M]
          BY <5>1, <3>0, <1>g
        <5> QED
          BY <5>2, <3>0
      <4> QED
        <5>1. n - 1 = M \/ n - 1 > M
          BY <2>2, <1>5
        <5> QED
          BY <5>1, <4>1, <4>2
    <3>3. f[M] \in Seq(X) /\ h[n - M - 1] \in Seq(X) /\ q[n - M] \in X
      BY <1>3, <1>4, <1>5, <3>1
    <3>4. h[n - M] = IF q[n - M] \in S THEN Append(h[n - M - 1], q[n - M]) ELSE h[n - M - 1]
      BY <1>4, <3>1
    <3>5. f[M] \o Append(h[n - M - 1], q[n - M]) = Append(f[M] \o h[n - M - 1], q[n - M])
      <4> DEFINE y == q[n - M]
                 a == f[M]
                 b == h[n - M - 1]
      <4>1. a \in Seq(X) /\ b \in Seq(X) /\ y \in X
        BY <3>3
      <4> HIDE DEF y, a, b
      <4>2. a \o Append(b, y) = Append(a \o b, y)
        BY <4>1, AppendToConcat
      <4> QED
        BY <4>2 DEF a, b, y
    <3> HIDE DEF M, N
    <3> QED
      BY <3>1, <3>2, <3>4, <3>5
  <2> QED
    BY <2>1, <2>2, <1>5
<1>7. g[0] = <<>>
  BY <1>3, <1>5, <1>g
<1>8. Keeps(g, p \o q, S)
  <2>1. ASSUME NEW n \in 0..Len(p \o q)
        PROVE  g[n] = IF n = 0 THEN <<>>
                      ELSE IF (p \o q)[n] \in S THEN Append(g[n - 1], (p \o q)[n]) ELSE g[n - 1]
    <3>1. n = 0 \/ n \in 1..(M + N)
      BY <1>5
    <3> QED
      BY <3>1, <1>6, <1>7
  <2>2. g = [n \in 0..Len(p \o q) |-> g[n]]
    BY DEF g
  <2>3. [n \in 0..Len(p \o q) |-> g[n]]
          = [n \in 0..Len(p \o q) |-> IF n = 0 THEN <<>>
                 ELSE IF (p \o q)[n] \in S THEN Append(g[n - 1], (p \o q)[n]) ELSE g[n - 1]]
    BY <2>1, Zenon
  <2> QED
    BY <2>2, <2>3, Zenon DEF Keeps
<1>9. g[M + N] = f[M] \o h[N]
  <2>1. f[M] \in Seq(X) /\ M + N \in 0..(M + N) /\ M + N - M = N
    BY <1>3, <1>5
  <2>2. f[M] \o <<>> = f[M]
    BY <2>1, ConcatEmptySeq
  <2> HIDE DEF M, N
  <2>3. g[M + N] = IF M + N <= M THEN f[M + N] ELSE f[M] \o h[N]
    <3>1. PICK t : t = M + N
      OBVIOUS
    <3>2. t \in 0..(M + N) /\ t - M = N
      BY <2>1, <3>1, <1>5
    <3>3. g[t] = IF t <= M THEN f[t] ELSE f[M] \o h[t - M]
      BY <3>2, <1>g
    <3> QED
      BY <3>1, <3>2, <3>3
  <2>4. M + N <= M <=> N = 0
    BY <1>5
  <2>5. N = 0 => M + N = M
    BY <1>5
  <2> QED
    BY <2>2, <2>3, <2>4, <2>5, <1>4
<1>10. OnlyIn(p \o q, S) = g[M + N]
  <2> HIDE DEF M, N
  <2> QED
    BY <1>5, <1>8, OnlyInIs
<1> QED
  BY <1>3, <1>4, <1>9, <1>10

\* Nor is the order changed.
LEMMA OnlyInOrder ==
    ASSUME NEW X, NEW seq \in Seq(X), NEW S,
           NEW i \in 1..Len(OnlyIn(seq, S)), NEW j \in 1..Len(OnlyIn(seq, S)), i < j
    PROVE  \E p, q \in 1..Len(seq) :
             p < q /\ OnlyIn(seq, S)[i] = seq[p] /\ OnlyIn(seq, S)[j] = seq[q]
<1> DEFINE N == Len(seq)
<1>0. PICK g \in KeptPrefixes(X, seq, S) : TRUE
  BY KeptPrefixesExist
<1>1. /\ OnlyIn(seq, S) = g[N] /\ g[0] = <<>> /\ \A n \in 0..N : g[n] \in Seq(X)
      /\ \A n \in 1..N : g[n] = IF seq[n] \in S THEN Append(g[n - 1], seq[n]) ELSE g[n - 1]
  BY <1>0 DEF KeptPrefixes
<1> DEFINE P == {n \in 0..N :
                   /\ \A y \in 1..Len(g[n]) : \E q \in 1..n : g[n][y] = seq[q]
                   /\ \A x, y \in 1..Len(g[n]) : x < y =>
                        \E p, q \in 1..n : p < q /\ g[n][x] = seq[p] /\ g[n][y] = seq[q]}
<1>2. 0 \in P
  BY <1>1
<1>3. ASSUME NEW n \in 1..N, n - 1 \in P PROVE n \in P
  <2>1. g[n - 1] \in Seq(X) /\ g[n] \in Seq(X) /\ seq[n] \in X /\ n \in 0..N
    <3>1. n \in 0..N /\ n - 1 \in 0..N /\ seq[n] \in X
      OBVIOUS
    <3> QED
      BY <1>1, <3>1
  <2>2. /\ \A y \in 1..Len(g[n - 1]) : \E q \in 1..n : q < n /\ g[n - 1][y] = seq[q]
        /\ \A x, y \in 1..Len(g[n - 1]) : x < y =>
             \E p, q \in 1..n : p < q /\ g[n - 1][x] = seq[p] /\ g[n - 1][y] = seq[q]
    BY <1>3
  <2>3. CASE seq[n] \notin S
    <3>1. g[n] = g[n - 1]
      BY <1>1, <2>3
    <3>2. \A y \in 1..Len(g[n]) : \E q \in 1..n : g[n][y] = seq[q]
      BY <2>2, <3>1
    <3>3. \A x, y \in 1..Len(g[n]) : x < y =>
            \E p, q \in 1..n : p < q /\ g[n][x] = seq[p] /\ g[n][y] = seq[q]
      BY <2>2, <3>1
    <3> QED
      BY <2>1, <3>2, <3>3
  <2>4. CASE seq[n] \in S
    <3>1. g[n] = Append(g[n - 1], seq[n])
      BY <1>1, <2>4
    <3> DEFINE L == Len(g[n - 1])
    <3>2. /\ L \in Nat /\ Len(g[n]) = L + 1 /\ g[n][L + 1] = seq[n]
          /\ \A x \in 1..L : g[n][x] = g[n - 1][x]
      BY <2>1, <3>1, AppendProperties
    <3> HIDE DEF L
    <3>3. ASSUME NEW y \in 1..Len(g[n]) PROVE \E q \in 1..n : g[n][y] = seq[q]
      <4>1. CASE y = L + 1
        BY <3>2, <4>1
      <4>2. CASE y \in 1..L
        BY <2>2, <3>2, <4>2 DEF L
      <4> QED
        BY <3>2, <4>1, <4>2
    <3>4. ASSUME NEW x \in 1..Len(g[n]), NEW y \in 1..Len(g[n]), x < y
          PROVE  \E p, q \in 1..n : p < q /\ g[n][x] = seq[p] /\ g[n][y] = seq[q]
      <4>1. x \in 1..L
        BY <3>2, <3>4
      <4>2. CASE y = L + 1
        <5>1. PICK p \in 1..n : p < n /\ g[n - 1][x] = seq[p]
          BY <2>2, <4>1 DEF L
        <5>2. p < n /\ g[n][x] = seq[p] /\ g[n][y] = seq[n] /\ n \in 1..n
          BY <3>2, <4>1, <4>2, <5>1
        <5> QED
          BY <5>2
      <4>3. CASE y \in 1..L
        BY <2>2, <3>2, <3>4, <4>1, <4>3 DEF L
      <4> QED
        BY <3>2, <4>2, <4>3
    <3> QED
      BY <2>1, <3>3, <3>4
  <2> QED
    BY <2>3, <2>4
<1>4. N \in Nat
  OBVIOUS
<1>5. \A n \in 0..N : n \in P
  <2> HIDE DEF P, N
  <2> QED
    BY <1>2, <1>3, <1>4, UpTo
<1>6. N \in P
  <2> HIDE DEF P, N
  <2> QED
    BY <1>4, <1>5
<1> QED
  BY <1>1, <1>6

\* A filter keeps at most as much, and less if it drops something.
LEMMA OnlyInLen ==
    ASSUME NEW X, NEW seq \in Seq(X), NEW S
    PROVE  /\ Len(OnlyIn(seq, S)) <= Len(seq)
           /\ (\E i \in 1..Len(seq) : seq[i] \notin S) => Len(OnlyIn(seq, S)) < Len(seq)
<1> DEFINE N == Len(seq)
<1>0. PICK g \in KeptPrefixes(X, seq, S) : TRUE
  BY KeptPrefixesExist
<1>1. /\ OnlyIn(seq, S) = g[N] /\ g[0] = <<>> /\ \A n \in 0..N : g[n] \in Seq(X)
      /\ \A n \in 1..N : g[n] = IF seq[n] \in S THEN Append(g[n - 1], seq[n]) ELSE g[n - 1]
  BY <1>0 DEF KeptPrefixes
<1> DEFINE P == {n \in 0..N : /\ Len(g[n]) <= n
                              /\ (\E i \in 1..n : seq[i] \notin S) => Len(g[n]) < n}
<1>2. 0 \in P
  BY <1>1
<1>3. ASSUME NEW n \in 1..N, n - 1 \in P PROVE n \in P
  <2>1. g[n - 1] \in Seq(X) /\ g[n] \in Seq(X) /\ seq[n] \in X /\ n \in 0..N
    <3>1. n \in 0..N /\ n - 1 \in 0..N /\ seq[n] \in X
      OBVIOUS
    <3> QED
      BY <1>1, <3>1
  <2>2. CASE seq[n] \notin S
    <3>1. g[n] = g[n - 1]
      BY <1>1, <2>2
    <3> QED
      BY <1>3, <2>1, <3>1
  <2>3. CASE seq[n] \in S
    <3>0. g[n] = Append(g[n - 1], seq[n])
      BY <1>1, <2>3
    <3>1. Len(g[n]) = Len(g[n - 1]) + 1
      BY <2>1, <3>0, AppendProperties
    <3>2. (\E i \in 1..n : seq[i] \notin S) => \E i \in 1..(n - 1) : seq[i] \notin S
      BY <2>3
    <3> QED
      BY <1>3, <2>1, <3>1, <3>2
  <2> QED
    BY <2>2, <2>3
<1>4. N \in Nat
  OBVIOUS
<1>5. \A n \in 0..N : n \in P
  <2> HIDE DEF P, N
  <2> QED
    BY <1>2, <1>3, <1>4, UpTo
<1>6. N \in P
  BY <1>4, <1>5
<1> QED
  BY <1>1, <1>6

\* A filter of a sequence without repetitions has none.
LEMMA OnlyInInjective ==
    ASSUME NEW X, NEW seq \in Seq(X), NEW S,
           \A i, j \in 1..Len(seq) : seq[i] = seq[j] => i = j
    PROVE  \A i, j \in 1..Len(OnlyIn(seq, S)) : OnlyIn(seq, S)[i] = OnlyIn(seq, S)[j] => i = j
<1> DEFINE N == Len(seq)
<1>0. PICK g \in KeptPrefixes(X, seq, S) : TRUE
  BY KeptPrefixesExist
<1>1. /\ OnlyIn(seq, S) = g[N] /\ g[0] = <<>> /\ \A n \in 0..N : g[n] \in Seq(X)
      /\ \A n \in 1..N : g[n] = IF seq[n] \in S THEN Append(g[n - 1], seq[n]) ELSE g[n - 1]
  BY <1>0 DEF KeptPrefixes
<1> DEFINE P == {n \in 0..N :
                  /\ \A i \in 1..Len(g[n]) : \E m \in 1..n : g[n][i] = seq[m]
                  /\ \A i, j \in 1..Len(g[n]) : g[n][i] = g[n][j] => i = j}
<1>2. 0 \in P
  BY <1>1
<1>3. ASSUME NEW n \in 1..N, n - 1 \in P PROVE n \in P
  <2>1. g[n - 1] \in Seq(X) /\ g[n] \in Seq(X) /\ seq[n] \in X /\ n \in 0..N
    <3>1. n \in 0..N /\ n - 1 \in 0..N /\ seq[n] \in X
      OBVIOUS
    <3> QED
      BY <1>1, <3>1
  <2>2. CASE seq[n] \notin S
    <3>1. g[n] = g[n - 1] /\ \A m \in 1..(n - 1) : m \in 1..n
      BY <1>1, <2>2
    <3>2. /\ \A i \in 1..Len(g[n]) : \E m \in 1..(n - 1) : g[n][i] = seq[m]
          /\ \A i, j \in 1..Len(g[n]) : g[n][i] = g[n][j] => i = j
      BY <1>3, <3>1
    <3>3. \A i \in 1..Len(g[n]) : \E m \in 1..n : g[n][i] = seq[m]
      BY <3>1, <3>2
    <3> QED
      BY <2>1, <3>2, <3>3
  <2>3. CASE seq[n] \in S
    <3> DEFINE L == Len(g[n - 1])
    <3>0. g[n] = Append(g[n - 1], seq[n])
      BY <1>1, <2>3
    <3>1. /\ Len(g[n]) = L + 1 /\ g[n][L + 1] = seq[n] /\ L \in Nat
          /\ \A i \in 1..L : g[n][i] = g[n - 1][i]
      BY <2>1, <3>0, AppendProperties
    <3>2. \A i \in 1..L : \E m \in 1..(n - 1) : g[n][i] = seq[m]
      BY <1>3, <3>1
    <3>3. \A i \in 1..L : g[n][i] # seq[n]
      BY <3>2
    <3>4. \A i, j \in 1..L : g[n][i] = g[n][j] => i = j
      BY <1>3, <3>1
    <3> HIDE DEF L
    <3>5. \A i \in 1..Len(g[n]) : \E m \in 1..n : g[n][i] = seq[m]
      <4> TAKE i \in 1..Len(g[n])
      <4>1. CASE i = L + 1
        BY <4>1, <3>1
      <4>2. CASE i \in 1..L
        BY <4>2, <3>2
      <4> QED
        BY <4>1, <4>2, <3>1
    <3>6. \A i, j \in 1..Len(g[n]) : g[n][i] = g[n][j] => i = j
      BY <3>1, <3>3, <3>4
    <3> QED
      BY <2>1, <3>5, <3>6
  <2> QED
    BY <2>2, <2>3
<1>4. N \in Nat
  OBVIOUS
<1>5. \A n \in 0..N : n \in P
  <2> HIDE DEF P, N
  <2> QED
    BY <1>2, <1>3, <1>4, UpTo
<1>6. N \in P
  BY <1>4, <1>5
<1> QED
  BY <1>1, <1>6
=============================================================================
