-------------------------- MODULE Responses_proofs --------------------------
(***************************************************************************)
(* Proofs of the safety properties of Responses.  A field is written and   *)
(* taken by two tables that know nothing of each other: Agrees says of two *)
(* rows that every conversion of a field is a kind the schema takes, that  *)
(* no field the schema asks for is missing, and that none is written that  *)
(* it does not name but the type of a transaction's result.  It is proved  *)
(* of each table, so that every object of a block fits its schema and is   *)
(* shown, but for that field; the invariant says what an answer was made   *)
(* of.  The peers are proved by induction over the entries of the node's   *)
(* lists, entry by entry as the two loops go.                              *)
(***************************************************************************)
EXTENDS Responses, SequenceLemmas

-----------------------------------------------------------------------------
(* Neighbours.                                                             *)

GroupNames == {"bootstrap", "sample", "inbound", "outbound"}
EntryRecords == [peer : NeighborEntries, type : GroupNames]
PeerRecords ==
    [peer_id : {e.key : e \in NeighborEntries}, ip : {e.ip : e \in NeighborEntries},
     type : Seq(GroupNames)]

\* The entries are those of the four lists.
LEMMA EntriesTyped ==
    ASSUME NEW lists \in Neighbors
    PROVE  Entries(lists) \in Seq(EntryRecords)
<1>1. ASSUME NEW g \in GroupNames PROVE Listed(lists, g) \in Seq(EntryRecords)
  <2>1. lists[g] \in Seq(NeighborEntries)
    BY AbiAssumption DEF GroupNames
  <2>2. Len(lists[g]) \in Nat /\ DOMAIN lists[g] = 1..Len(lists[g])
        /\ \A k \in 1..Len(lists[g]) : lists[g][k] \in NeighborEntries
    BY <2>1
  <2>3. Listed(lists, g) = [k \in 1..Len(lists[g]) |-> [peer |-> lists[g][k], type |-> g]]
    BY <2>2 DEF Listed
  <2>4. \A k \in 1..Len(lists[g]) : [peer |-> lists[g][k], type |-> g] \in EntryRecords
    BY <2>2 DEF EntryRecords
  <2>5. Listed(lists, g) \in [1..Len(lists[g]) -> EntryRecords]
    BY <2>3, <2>4
  <2> QED BY <2>2, <2>5
<1>2. /\ "bootstrap" \in GroupNames /\ "sample" \in GroupNames
      /\ "inbound" \in GroupNames /\ "outbound" \in GroupNames
  BY DEF GroupNames
<1>3. /\ Listed(lists, "bootstrap") \in Seq(EntryRecords)
      /\ Listed(lists, "sample") \in Seq(EntryRecords)
      /\ Listed(lists, "inbound") \in Seq(EntryRecords)
      /\ Listed(lists, "outbound") \in Seq(EntryRecords)
  BY <1>1, <1>2
<1> QED BY <1>3 DEF Entries

\* Adding an entry keeps the type of the peers.
LEMMA AddPeerTyped ==
    ASSUME NEW p \in Seq(PeerRecords), NEW e \in EntryRecords
    PROVE  AddPeer(p, e) \in Seq(PeerRecords)
<1>1. e.peer \in NeighborEntries /\ e.type \in GroupNames
  BY DEF EntryRecords
<1>2. CASE \E i \in DOMAIN p : p[i].peer_id = e.peer.key
  <2>1. Len(p) \in Nat /\ DOMAIN p = 1..Len(p) /\ \A i \in 1..Len(p) : p[i] \in PeerRecords
    OBVIOUS
  <2>2. ASSUME NEW i \in 1..Len(p) PROVE [p[i] EXCEPT !.type = Append(@, e.type)] \in PeerRecords
    <3>1. p[i] \in PeerRecords /\ Append(p[i].type, e.type) \in Seq(GroupNames)
      BY <1>1, <2>1 DEF PeerRecords
    <3> QED BY <3>1 DEF PeerRecords
  <2> DEFINE q == [i \in 1..Len(p) |-> IF p[i].peer_id = e.peer.key
                                       THEN [p[i] EXCEPT !.type = Append(@, e.type)]
                                       ELSE p[i]]
  <2>3. q \in [1..Len(p) -> PeerRecords]
    BY <2>1, <2>2
  <2>4. AddPeer(p, e) = q
    BY <1>2, <2>1 DEF AddPeer
  <2> HIDE DEF q
  <2> QED BY <2>1, <2>3, <2>4
<1>3. CASE ~\E i \in DOMAIN p : p[i].peer_id = e.peer.key
  <2>1. NewPeer(e) \in PeerRecords
    BY <1>1 DEF NewPeer, PeerRecords
  <2>2. AddPeer(p, e) = Append(p, NewPeer(e))
    BY <1>3 DEF AddPeer
  <2> QED BY <2>1, <2>2
<1> QED BY <1>2, <1>3

\* The peers shown after the first n entries, n by n.
PeerSteps(lists) ==
    {g \in [0..Len(Entries(lists)) -> Seq(PeerRecords)] :
        /\ Peers(lists) = g[Len(Entries(lists))]
        /\ g[0] = <<>>
        /\ \A n \in 1..Len(Entries(lists)) : g[n] = AddPeer(g[n - 1], Entries(lists)[n])}

\* There is such a sequence of peers.
LEMMA PeerStepsExist ==
    ASSUME NEW lists \in Neighbors
    PROVE  \E g \in PeerSteps(lists) : TRUE
<1> DEFINE entries == Entries(lists)
           N == Len(entries)
           next == [p \in Seq(PeerRecords) \X (1..N) |-> AddPeer(p[1], entries[p[2]])]
<1>0. entries \in Seq(EntryRecords)
  BY EntriesTyped
<1>p. Peers(lists) = LET shown[n \in 0..N] ==
                             IF n = 0 THEN <<>> ELSE AddPeer(shown[n - 1], entries[n])
                     IN  shown[N]
  BY Zenon DEF Peers
<1> HIDE DEF entries
<1>1. N \in Nat /\ <<>> \in Seq(PeerRecords) /\ \A n \in 1..N : entries[n] \in EntryRecords
  BY <1>0
<1>2. \A s \in Seq(PeerRecords), n \in 1..N : next[<<s, n>>] = AddPeer(s, entries[n])
  OBVIOUS
<1>3. ASSUME NEW s \in Seq(PeerRecords), NEW n \in 1..N PROVE next[<<s, n>>] \in Seq(PeerRecords)
  <2>1. next[<<s, n>>] = AddPeer(s, entries[n]) /\ entries[n] \in EntryRecords
    BY <1>1, <1>2
  <2>2. AddPeer(s, entries[n]) \in Seq(PeerRecords)
    BY <2>1, AddPeerTyped
  <2> QED BY <2>1, <2>2
<1> HIDE DEF next, N
<1>4. PICK g \in Solutions(Seq(PeerRecords), <<>>, N, next) : TRUE
  BY <1>1, <1>3, Solution
<1>5. g \in [0..N -> Seq(PeerRecords)] /\ g[0] = <<>> /\ \A n \in 1..N : g[n] = next[<<g[n - 1], n>>]
  BY <1>4 DEF Solutions
<1>6. ASSUME NEW n \in 1..N PROVE g[n] = AddPeer(g[n - 1], entries[n])
  <2>1. n - 1 \in 0..N
    BY <1>1
  <2>2. g[n] = next[<<g[n - 1], n>>] /\ g[n - 1] \in Seq(PeerRecords)
    BY <1>5, <2>1
  <2> QED BY <1>2, <2>2
<1>7. Peers(lists) = g[N]
  <2> DEFINE Follows(f) ==
               f = [n \in 0..N |-> IF n = 0 THEN <<>> ELSE AddPeer(f[n - 1], entries[n])]
             shown == CHOOSE f : Follows(f)
  <2>1. Follows(g)
    <3>1. ASSUME NEW n \in 0..N
          PROVE  g[n] = IF n = 0 THEN <<>> ELSE AddPeer(g[n - 1], entries[n])
      <4>1. n # 0 => n \in 1..N
        BY <1>1
      <4> QED BY <1>5, <1>6, <4>1
    <3>2. g = [n \in 0..N |-> g[n]]
      BY <1>5
    <3>3. [n \in 0..N |-> g[n]]
            = [n \in 0..N |-> IF n = 0 THEN <<>> ELSE AddPeer(g[n - 1], entries[n])]
      BY <3>1, Zenon
    <3> QED BY <3>2, <3>3, Zenon
  <2>2. Follows(shown)
    BY <2>1
  <2>3. Peers(lists) = shown[N]
    BY <1>p, Zenon
  <2> HIDE DEF shown
  <2>4. shown[0] = <<>> /\ \A n \in 1..N : shown[n] = AddPeer(shown[n - 1], entries[n])
    <3>1. \A n \in 1..N : n \in 0..N /\ n # 0
      BY <1>1
    <3>2. 0 \in 0..N
      BY <1>1
    <3> QED BY <2>2, <3>1, <3>2
  <2> HIDE DEF Follows
  <2> DEFINE S == {n \in 0..N : shown[n] = g[n]}
  <2>5. ASSUME NEW n \in 1..N, n - 1 \in S PROVE n \in S
    <3>1. n \in 0..N
      BY <1>1
    <3> QED BY <1>6, <2>4, <2>5, <3>1
  <2>6. 0 \in S
    BY <1>1, <1>5, <2>4
  <2>7. N \in S
    <3> HIDE DEF S
    <3>1. \A n \in 0..N : n \in S
      BY <1>1, <2>5, <2>6, UpTo
    <3> QED BY <1>1, <3>1
  <2> QED BY <2>3, <2>7
<1> QED BY <1>5, <1>6, <1>7 DEF PeerSteps, N, entries

\* No two of the peers have one key.
Apart(p) == \A i, j \in DOMAIN p : p[i].peer_id = p[j].peer_id => i = j

\* Adding an entry keeps them so.
LEMMA AddPeerApart ==
    ASSUME NEW p \in Seq(PeerRecords), NEW e \in EntryRecords, Apart(p)
    PROVE  Apart(AddPeer(p, e))
<1>1. Len(p) \in Nat /\ DOMAIN p = 1..Len(p) /\ \A i \in 1..Len(p) : p[i] \in PeerRecords
  OBVIOUS
<1>2. CASE \E i \in DOMAIN p : p[i].peer_id = e.peer.key
  <2> DEFINE q == [i \in DOMAIN p |-> IF p[i].peer_id = e.peer.key
                                      THEN [p[i] EXCEPT !.type = Append(@, e.type)]
                                      ELSE p[i]]
  <2>1. AddPeer(p, e) = q
    BY <1>2 DEF AddPeer
  <2>2. DOMAIN q = DOMAIN p /\ \A i \in DOMAIN p : q[i].peer_id = p[i].peer_id
    BY <1>1 DEF PeerRecords
  <2> HIDE DEF q
  <2> QED BY <2>1, <2>2 DEF Apart
<1>3. CASE ~\E i \in DOMAIN p : p[i].peer_id = e.peer.key
  <2> DEFINE new == NewPeer(e)
             q == Append(p, new)
  <2>1. AddPeer(p, e) = q
    BY <1>3 DEF AddPeer
  <2>2. new.peer_id = e.peer.key
    BY DEF NewPeer
  <2> HIDE DEF new
  <2>3. /\ DOMAIN q = 1..(Len(p) + 1) /\ q[Len(p) + 1] = new
        /\ \A i \in 1..Len(p) : q[i] = p[i]
    BY <1>1
  <2> HIDE DEF q
  <2> QED BY <1>1, <1>3, <2>1, <2>2, <2>3 DEF Apart
<1> QED BY <1>2, <1>3

\* The peers show the neighbour that has the entries mine.
Shows(p, id, mine) ==
    /\ mine = <<>> <=> \A i \in DOMAIN p : p[i].peer_id # id
    /\ \A i \in DOMAIN p : p[i].peer_id = id => p[i] = PeerOf(mine)

\* An entry of another neighbour changes nothing of that.
LEMMA AddOther ==
    ASSUME NEW p \in Seq(PeerRecords), NEW e \in EntryRecords, NEW id, NEW mine,
           Shows(p, id, mine), e.peer.key # id
    PROVE  Shows(AddPeer(p, e), id, mine)
<1>1. Len(p) \in Nat /\ DOMAIN p = 1..Len(p) /\ \A i \in 1..Len(p) : p[i] \in PeerRecords
  OBVIOUS
<1>2. CASE \E i \in DOMAIN p : p[i].peer_id = e.peer.key
  <2> DEFINE q == [i \in DOMAIN p |-> IF p[i].peer_id = e.peer.key
                                      THEN [p[i] EXCEPT !.type = Append(@, e.type)]
                                      ELSE p[i]]
  <2>1. AddPeer(p, e) = q
    BY <1>2 DEF AddPeer
  <2>2. /\ DOMAIN q = DOMAIN p
        /\ \A i \in DOMAIN p : q[i].peer_id = p[i].peer_id
        /\ \A i \in DOMAIN p : p[i].peer_id = id => q[i] = p[i]
    BY <1>1 DEF PeerRecords
  <2> HIDE DEF q
  <2> QED BY <2>1, <2>2 DEF Shows
<1>3. CASE ~\E i \in DOMAIN p : p[i].peer_id = e.peer.key
  <2> DEFINE new == NewPeer(e)
             q == Append(p, new)
  <2>1. AddPeer(p, e) = q
    BY <1>3 DEF AddPeer
  <2>2. new.peer_id # id
    BY DEF NewPeer
  <2> HIDE DEF new
  <2>3. /\ DOMAIN q = 1..(Len(p) + 1) /\ q[Len(p) + 1] = new
        /\ \A i \in 1..Len(p) : q[i] = p[i]
    BY <1>1
  <2> HIDE DEF q
  <2>4. \A i \in DOMAIN q : (i \in DOMAIN p /\ q[i] = p[i]) \/ (i = Len(p) + 1 /\ q[i] = new)
    BY <1>1, <2>3
  <2>5. \A i \in DOMAIN p : i \in DOMAIN q /\ q[i] = p[i]
    BY <1>1, <2>3
  <2>6. (\A i \in DOMAIN p : p[i].peer_id # id) <=> (\A i \in DOMAIN q : q[i].peer_id # id)
    BY <2>2, <2>4, <2>5
  <2>7. \A i \in DOMAIN q : q[i].peer_id = id => q[i] = PeerOf(mine)
    BY <2>2, <2>4 DEF Shows
  <2> QED BY <2>1, <2>6, <2>7 DEF Shows
<1> QED BY <1>2, <1>3

\* An entry of this neighbour is shown with its others, or as a new peer.
LEMMA AddMine ==
    ASSUME NEW p \in Seq(PeerRecords), NEW e \in EntryRecords, NEW id,
           NEW mine \in Seq(EntryRecords), Shows(p, id, mine), e.peer.key = id
    PROVE  Shows(AddPeer(p, e), id, Append(mine, e))
<1> DEFINE more == Append(mine, e)
<1>1. Len(p) \in Nat /\ DOMAIN p = 1..Len(p) /\ \A i \in 1..Len(p) : p[i] \in PeerRecords
  OBVIOUS
<1>2. /\ more # <<>> /\ Len(mine) \in Nat /\ DOMAIN mine = 1..Len(mine)
      /\ DOMAIN more = 1..(Len(mine) + 1) /\ more[Len(mine) + 1] = e
      /\ \A n \in 1..Len(mine) : more[n] = mine[n] /\ mine[n] \in EntryRecords
  <2>1. Len(mine) \in Nat /\ DOMAIN mine = 1..Len(mine)
        /\ \A n \in 1..Len(mine) : mine[n] \in EntryRecords
    OBVIOUS
  <2>2. more \in Seq(EntryRecords) /\ Len(more) = Len(mine) + 1
        /\ \A n \in 1..Len(mine) : more[n] = mine[n]
    OBVIOUS
  <2>3. more[Len(mine) + 1] = e
    OBVIOUS
  <2> HIDE DEF more
  <2> QED BY <2>1, <2>2, <2>3
<1>3. e.type \in GroupNames
  BY DEF EntryRecords
<1>4. CASE mine # <<>>
  <2> DEFINE q == [i \in DOMAIN p |-> IF p[i].peer_id = e.peer.key
                                      THEN [p[i] EXCEPT !.type = Append(@, e.type)]
                                      ELSE p[i]]
             types == [n \in DOMAIN mine |-> mine[n].type]
             moreTypes == [n \in DOMAIN more |-> more[n].type]
  <2>1. AddPeer(p, e) = q
    BY <1>4 DEF AddPeer, Shows
  <2>2. moreTypes = Append(types, e.type)
    <3> HIDE DEF more
    <3>1. types \in Seq(GroupNames) /\ Len(types) = Len(mine)
      BY <1>2 DEF EntryRecords
    <3>2. Append(types, e.type) \in Seq(GroupNames) /\ Len(Append(types, e.type)) = Len(mine) + 1
      BY <1>3, <3>1
    <3>3. moreTypes \in Seq(GroupNames) /\ Len(moreTypes) = Len(mine) + 1
      BY <1>2, <1>3 DEF EntryRecords
    <3>4. ASSUME NEW n \in 1..(Len(mine) + 1) PROVE moreTypes[n] = Append(types, e.type)[n]
      BY <1>2, <3>1
    <3> HIDE DEF types, moreTypes
    <3> QED BY <3>2, <3>3, <3>4
  <2>3. 1 \in 1..Len(mine) /\ more[1] = mine[1]
    BY <1>2, <1>4
  <2>4. PeerOf(more) = [PeerOf(mine) EXCEPT !.type = Append(@, e.type)]
    <3> DEFINE before == [peer_id |-> mine[1].peer.key, ip |-> mine[1].peer.ip, type |-> types]
               after == [peer_id |-> mine[1].peer.key, ip |-> mine[1].peer.ip, type |-> moreTypes]
    <3>1. PeerOf(more) = after /\ PeerOf(mine) = before
      BY <2>3 DEF PeerOf
    <3> HIDE DEF types, moreTypes
    <3>2. before.type = types
      OBVIOUS
    <3>3. after = [before EXCEPT !.type = moreTypes]
      OBVIOUS
    <3>4. after = [before EXCEPT !.type = Append(@, e.type)]
      <4> HIDE DEF before, after
      <4> QED BY <2>2, <3>2, <3>3
    <3> HIDE DEF before, after
    <3> QED BY <3>1, <3>4
  <2>5. /\ DOMAIN q = DOMAIN p
        /\ \A i \in DOMAIN p : q[i].peer_id = p[i].peer_id
        /\ \A i \in DOMAIN p : p[i].peer_id = id => q[i] = [p[i] EXCEPT !.type = Append(@, e.type)]
    BY <1>1 DEF PeerRecords
  <2> HIDE DEF q, more
  <2>6. \A i \in DOMAIN p : p[i].peer_id = id => q[i] = PeerOf(more)
    BY <2>4, <2>5 DEF Shows
  <2>7. ~ \A i \in DOMAIN q : q[i].peer_id # id
    BY <1>4, <2>5 DEF Shows
  <2> QED BY <1>2, <2>1, <2>5, <2>6, <2>7 DEF Shows, more
<1>5. CASE mine = <<>>
  <2> DEFINE new == NewPeer(e)
             q == Append(p, new)
  <2>1. AddPeer(p, e) = q
    BY <1>5 DEF AddPeer, Shows
  <2>2. new.peer_id = id /\ new = PeerOf(more)
    <3>1. more = <<e>>
      BY <1>5
    <3>2. [n \in DOMAIN <<e>> |-> <<e>>[n].type] = <<e.type>>
      OBVIOUS
    <3>3. PeerOf(<<e>>) = [peer_id |-> e.peer.key, ip |-> e.peer.ip, type |-> <<e.type>>]
      BY <3>2 DEF PeerOf
    <3> QED BY <3>1, <3>3 DEF NewPeer
  <2> HIDE DEF new
  <2>3. /\ DOMAIN q = 1..(Len(p) + 1) /\ q[Len(p) + 1] = new
        /\ \A i \in 1..Len(p) : q[i] = p[i]
    BY <1>1
  <2>4. \A i \in 1..Len(p) : p[i].peer_id # id
    BY <1>1, <1>5 DEF Shows
  <2> HIDE DEF q, more
  <2> QED BY <1>1, <1>2, <2>1, <2>2, <2>3, <2>4 DEF Shows, more
<1> QED BY <1>4, <1>5

\* Every neighbour is shown once, with the address it is first listed with, and with the
\* list of each of its entries, in their order.
LEMMA PeersShown ==
    ASSUME NEW lists \in Neighbors
    PROVE  /\ Apart(Peers(lists))
           /\ \A id : Shows(Peers(lists), id, EntriesOf(Entries(lists), id))
           /\ Peers(lists) \in Seq(PeerRecords)
<1> DEFINE entries == Entries(lists)
           N == Len(entries)
<1>0. entries \in Seq(EntryRecords)
  BY EntriesTyped
<1>1. PICK g \in PeerSteps(lists) : TRUE
  BY PeerStepsExist
<1>2. /\ g \in [0..N -> Seq(PeerRecords)] /\ Peers(lists) = g[N] /\ g[0] = <<>>
      /\ \A n \in 1..N : g[n] = AddPeer(g[n - 1], entries[n])
  BY <1>1 DEF PeerSteps
<1> HIDE DEF entries
<1>3. N \in Nat /\ \A n \in 1..N : entries[n] \in EntryRecords
  BY <1>0
<1>4. Apart(g[N])
  <2> DEFINE S == {n \in 0..N : Apart(g[n])}
  <2>1. 0 \in S
    BY <1>2, <1>3 DEF Apart
  <2>2. ASSUME NEW n \in 1..N, n - 1 \in S PROVE n \in S
    <3>1. n \in 0..N /\ n - 1 \in 0..N
      BY <1>3
    <3>2. g[n - 1] \in Seq(PeerRecords) /\ entries[n] \in EntryRecords /\ Apart(g[n - 1])
      BY <1>2, <1>3, <2>2, <3>1
    <3>3. Apart(AddPeer(g[n - 1], entries[n]))
      BY <3>2, AddPeerApart
    <3> QED BY <1>2, <3>1, <3>3
  <2>3. N \in S
    <3> HIDE DEF S
    <3>1. \A n \in 0..N : n \in S
      BY <1>3, <2>1, <2>2, UpTo
    <3> QED BY <1>3, <3>1
  <2> QED BY <2>3
<1>5. ASSUME NEW id PROVE Shows(g[N], id, EntriesOf(entries, id))
  <2> DEFINE Mine == {entries[k] : k \in {j \in DOMAIN entries : entries[j].peer.key = id}}
  <2>1. \A n \in 1..N : entries[n] \in Mine <=> entries[n].peer.key = id
    BY <1>0
  <2>2. EntriesOf(entries, id) = OnlyIn(entries, Mine)
    BY DEF EntriesOf
  <2> HIDE DEF Mine
  <2>3. PICK m \in KeptPrefixes(EntryRecords, entries, Mine) : TRUE
    BY <1>0, KeptPrefixesExist
  <2>4. /\ m \in [0..N -> Seq(EntryRecords)] /\ OnlyIn(entries, Mine) = m[N] /\ m[0] = <<>>
        /\ \A n \in 1..N : m[n] = IF entries[n] \in Mine THEN Append(m[n - 1], entries[n])
                                  ELSE m[n - 1]
    BY <2>3 DEF KeptPrefixes
  <2> DEFINE S == {n \in 0..N : Shows(g[n], id, m[n])}
  <2>5. 0 \in S
    BY <1>2, <1>3, <2>4 DEF Shows
  <2>6. ASSUME NEW n \in 1..N, n - 1 \in S PROVE n \in S
    <3>1. n \in 0..N /\ n - 1 \in 0..N
      BY <1>3
    <3>2. /\ g[n - 1] \in Seq(PeerRecords) /\ entries[n] \in EntryRecords
          /\ m[n - 1] \in Seq(EntryRecords) /\ Shows(g[n - 1], id, m[n - 1])
          /\ g[n] = AddPeer(g[n - 1], entries[n])
      BY <1>2, <1>3, <2>4, <2>6, <3>1
    <3>3. CASE entries[n].peer.key = id
      <4>1. Shows(AddPeer(g[n - 1], entries[n]), id, Append(m[n - 1], entries[n]))
        BY <3>2, <3>3, AddMine
      <4>2. m[n] = Append(m[n - 1], entries[n])
        BY <2>1, <2>4, <3>3
      <4> QED BY <3>1, <3>2, <4>1, <4>2
    <3>4. CASE entries[n].peer.key # id
      <4>1. Shows(AddPeer(g[n - 1], entries[n]), id, m[n - 1])
        BY <3>2, <3>4, AddOther
      <4>2. m[n] = m[n - 1]
        BY <2>1, <2>4, <3>4
      <4> QED BY <3>1, <3>2, <4>1, <4>2
    <3> QED BY <3>3, <3>4
  <2>7. N \in S
    <3> HIDE DEF S
    <3>1. \A n \in 0..N : n \in S
      BY <1>3, <2>5, <2>6, UpTo
    <3> QED BY <1>3, <3>1
  <2> QED BY <2>2, <2>4, <2>7
<1>6. g[N] \in Seq(PeerRecords)
  BY <1>2, <1>3
<1> QED BY <1>2, <1>4, <1>5, <1>6 DEF entries

-----------------------------------------------------------------------------
(* What the serializers write is what the schemas take.                    *)

Conversions ==
    {"account", "amount", "same", "sameOrAbsent", "parseInt", "parseIntOrNull", "boolean",
     "integer", "cause", "clarity", "principal", "asset", "clarity_value", "fungible_code",
     "nonfungible_code", "pox_code", "args", "string", "status", "tx_type", "cost", "position",
     "conditions"}
Kinds ==
    {{"account"}, {"amount"}, {"string"}, {"string", "absent"}, {"string", "null"},
     {"string", "null", "absent"}, {"integer"}, {"integer", "null"}, {"boolean"}, {"cause"},
     {"string", "clarity"}, {"args", "string", "null"}, {"principal"}, {"asset"}, {"clarity_value"}, {"fungible_code"},
     {"nonfungible_code"}, {"pox_code"}, {"status"}, {"tx_type"}, {"cost"}, {"position"},
     {"conditions", "absent"}, {"boolean", "absent"}}
WrittenIn(f, W) == \E k \in Conversions : [field |-> f, kind |-> k] \in W
TakenIn(f, S) == \E ks \in Kinds : [field |-> f, kinds |-> ks] \in S

\* The fields that are written are those that are taken, each with a type it may have;
\* what is missing is optional.  Only the type of a result is written and not taken.
Agrees(W, S) ==
    /\ \A w, v \in W : w.field = v.field => w = v
    /\ \A w \in W, s \in S : w.field = s.field =>
          /\ Converted(w.kind, FALSE) \in s.kinds
          /\ MayLack(w) => Converted(w.kind, TRUE) \in s.kinds
    /\ \A s \in S : "absent" \in s.kinds \/ WrittenIn(s.field, W)
    /\ \A w \in W : w.field # "result_type" => TakenIn(w.field, S)
    /\ \A s \in S : s.field # "result_type"

\* The PoX events of the first four contracts.
LEMMA Pox4Agrees ==
    \A type \in DOMAIN makeSyntheticPox4Operation :
        Agrees(makeSyntheticPox4Operation[type], Pox4OperationSchemas[type])
<1> SUFFICES ASSUME NEW type \in DOMAIN makeSyntheticPox4Operation
             PROVE  Agrees(makeSyntheticPox4Operation[type], Pox4OperationSchemas[type])
  OBVIOUS
<1> USE DEF makeSyntheticPox4Operation, Pox4OperationSchemas,
            Pox4, Cycles, PoxAmount, PoxAccount, BasePoxOperationMetadata, NullableCycles,
            Fields, Takes, Some, Nullable, Optional,
            Amount, Account, BaseAmountOperation, BaseAccountOperation
<1> DEFINE W == makeSyntheticPox4Operation[type]
           S == Pox4OperationSchemas[type]
<1>1. ASSUME NEW w \in W, NEW v \in W, w.field = v.field PROVE w = v
  BY <1>1, SMTT(60)
<1>2. ASSUME NEW w \in W, NEW s \in S, w.field = s.field
      PROVE  Converted(w.kind, FALSE) \in s.kinds
  BY <1>2, SMTT(60) DEF Converted
<1>3. ASSUME NEW w \in W, NEW s \in S, w.field = s.field, MayLack(w)
      PROVE  Converted(w.kind, TRUE) \in s.kinds
  BY <1>3, SMTT(60) DEF Converted, MayLack
<1>4. ASSUME NEW s \in S PROVE "absent" \in s.kinds \/ WrittenIn(s.field, W)
  BY SMTT(60) DEF WrittenIn, Conversions
<1>5. ASSUME NEW w \in W PROVE TakenIn(w.field, S)
  BY SMTT(60) DEF TakenIn, Kinds
<1>6. ASSUME NEW s \in S PROVE s.field # "result_type"
  BY SMTT(60)
<1> HIDE DEF W, S
<1>7. Agrees(W, S)
  BY <1>1, <1>2, <1>3, <1>4, <1>5, <1>6 DEF Agrees
<1> QED BY <1>7 DEF W, S

\* The PoX events of the fifth.
LEMMA Pox5Agrees ==
    \A type \in DOMAIN makeSyntheticPox5Operation :
        Agrees(makeSyntheticPox5Operation[type], Pox5OperationSchemas[type])
<1> SUFFICES ASSUME NEW type \in DOMAIN makeSyntheticPox5Operation
             PROVE  Agrees(makeSyntheticPox5Operation[type], Pox5OperationSchemas[type])
  OBVIOUS
<1> USE DEF makeSyntheticPox5Operation, Pox5OperationSchemas,
            Pox5, Fields, Takes, Some, Nullable, Optional,
            Amount, Account, BaseAmountOperation, BaseAccountOperation
<1> DEFINE W == makeSyntheticPox5Operation[type]
           S == Pox5OperationSchemas[type]
<1>1. ASSUME NEW w \in W, NEW v \in W, w.field = v.field PROVE w = v
  BY <1>1, SMTT(60)
<1>2. ASSUME NEW w \in W, NEW s \in S, w.field = s.field
      PROVE  Converted(w.kind, FALSE) \in s.kinds
  BY <1>2, SMTT(60) DEF Converted
<1>3. ASSUME NEW w \in W, NEW s \in S, w.field = s.field, MayLack(w)
      PROVE  Converted(w.kind, TRUE) \in s.kinds
  BY <1>3, SMTT(60) DEF Converted, MayLack
<1>4. ASSUME NEW s \in S PROVE "absent" \in s.kinds \/ WrittenIn(s.field, W)
  BY SMTT(60) DEF WrittenIn, Conversions
<1>5. ASSUME NEW w \in W PROVE TakenIn(w.field, S)
  BY SMTT(60) DEF TakenIn, Kinds
<1>6. ASSUME NEW s \in S PROVE s.field # "result_type"
  BY SMTT(60)
<1> HIDE DEF W, S
<1>7. Agrees(W, S)
  BY <1>1, <1>2, <1>3, <1>4, <1>5, <1>6 DEF Agrees
<1> QED BY <1>7 DEF W, S

\* Post-conditions.
LEMMA ConditionsAgree ==
    \A type \in DOMAIN serializePostCondition :
        Agrees(serializePostCondition[type], PostConditionSchema[type])
<1> SUFFICES ASSUME NEW type \in DOMAIN serializePostCondition
             PROVE  Agrees(serializePostCondition[type], PostConditionSchema[type])
  OBVIOUS
<1> USE DEF serializePostCondition, PostConditionSchema,
            Condition, ConditionSchema, Fields, Takes, Some, Nullable, Optional,
            Amount, Account, BaseAmountOperation, BaseAccountOperation
<1> DEFINE W == serializePostCondition[type]
           S == PostConditionSchema[type]
<1>1. ASSUME NEW w \in W, NEW v \in W, w.field = v.field PROVE w = v
  BY <1>1, SMTT(60)
<1>2. ASSUME NEW w \in W, NEW s \in S, w.field = s.field
      PROVE  Converted(w.kind, FALSE) \in s.kinds
  BY <1>2, SMTT(60) DEF Converted
<1>3. ASSUME NEW w \in W, NEW s \in S, w.field = s.field, MayLack(w)
      PROVE  Converted(w.kind, TRUE) \in s.kinds
  BY <1>3, SMTT(60) DEF Converted, MayLack
<1>4. ASSUME NEW s \in S PROVE "absent" \in s.kinds \/ WrittenIn(s.field, W)
  BY SMTT(60) DEF WrittenIn, Conversions
<1>5. ASSUME NEW w \in W PROVE TakenIn(w.field, S)
  BY SMTT(60) DEF TakenIn, Kinds
<1>6. ASSUME NEW s \in S PROVE s.field # "result_type"
  BY SMTT(60)
<1> HIDE DEF W, S
<1>7. Agrees(W, S)
  BY <1>1, <1>2, <1>3, <1>4, <1>5, <1>6 DEF Agrees
<1> QED BY <1>7 DEF W, S

\* The metadata of a transaction.
LEMMA TransactionsAgree ==
    \A type \in DOMAIN serializeReplayedNakamotoTransaction :
        Agrees(serializeReplayedNakamotoTransaction[type], TransactionMetadataSchema[type])
<1> SUFFICES ASSUME NEW type \in DOMAIN serializeReplayedNakamotoTransaction
             PROVE  Agrees(serializeReplayedNakamotoTransaction[type], TransactionMetadataSchema[type])
  OBVIOUS
<1> USE DEF serializeReplayedNakamotoTransaction, TransactionMetadataSchema,
            Fields, Takes, Some, Nullable, Optional
<1> DEFINE W == serializeReplayedNakamotoTransaction[type]
           S == TransactionMetadataSchema[type]
<1>1. ASSUME NEW w \in W, NEW v \in W, w.field = v.field PROVE w = v
  BY <1>1, SMTT(60)
<1>2. ASSUME NEW w \in W, NEW s \in S, w.field = s.field
      PROVE  Converted(w.kind, FALSE) \in s.kinds
  BY <1>2, SMTT(60) DEF Converted
<1>3. ASSUME NEW w \in W, NEW s \in S, w.field = s.field, MayLack(w)
      PROVE  Converted(w.kind, TRUE) \in s.kinds
  BY <1>3, SMTT(60) DEF Converted, MayLack
<1>4. ASSUME NEW s \in S PROVE "absent" \in s.kinds \/ WrittenIn(s.field, W)
  BY SMTT(60) DEF WrittenIn, Conversions
<1>5. ASSUME NEW w \in W PROVE w.field # "result_type" => TakenIn(w.field, S)
  BY SMTT(60) DEF TakenIn, Kinds
<1>6. ASSUME NEW s \in S PROVE s.field # "result_type"
  BY SMTT(60)
<1> HIDE DEF W, S
<1>7. Agrees(W, S)
  BY <1>1, <1>2, <1>3, <1>4, <1>5, <1>6 DEF Agrees
<1> QED BY <1>7 DEF W, S

\* Payloads and plain events; tokens are told by a token transfer.
LEMMA OperationsAgree ==
    \A type \in DOMAIN serializeStacksTransactionOperations :
        Agrees(serializeStacksTransactionOperations[type],
               TransactionOperationSchemas[TypeOf([type |-> type])])
<1> SUFFICES ASSUME NEW type \in DOMAIN serializeStacksTransactionOperations
             PROVE  Agrees(serializeStacksTransactionOperations[type],
                           TransactionOperationSchemas[TypeOf([type |-> type])])
  OBVIOUS
<1> DEFINE W == serializeStacksTransactionOperations[type]
           S == TransactionOperationSchemas[TypeOf([type |-> type])]
<1> USE DEF serializeStacksTransactionOperations, TransactionOperationSchemas, TypeOf,
            Fields, Takes, Some, Nullable, Optional,
            Amount, Account, BaseAmountOperation, BaseAccountOperation
<1>1. ASSUME NEW w \in W, NEW v \in W, w.field = v.field PROVE w = v
  BY <1>1, SMTT(60)
<1>2. ASSUME NEW w \in W, NEW s \in S, w.field = s.field
      PROVE  Converted(w.kind, FALSE) \in s.kinds
  BY <1>2, SMTT(60) DEF Converted
<1>3. ASSUME NEW w \in W, NEW s \in S, w.field = s.field, MayLack(w)
      PROVE  Converted(w.kind, TRUE) \in s.kinds
  BY <1>3, SMTT(60) DEF Converted, MayLack
<1>4. ASSUME NEW s \in S PROVE "absent" \in s.kinds \/ WrittenIn(s.field, W)
  BY SMTT(60) DEF WrittenIn, Conversions
<1>5. ASSUME NEW w \in W PROVE TakenIn(w.field, S)
  BY SMTT(60) DEF TakenIn, Kinds
<1>6. ASSUME NEW s \in S PROVE s.field # "result_type"
  BY SMTT(60)
<1> HIDE DEF W, S
<1>7. Agrees(W, S)
  BY <1>1, <1>2, <1>3, <1>4, <1>5, <1>6 DEF Agrees
<1> QED BY <1>7 DEF W, S

\* Whatever the type.
LEMMA AllAgree ==
    ASSUME NEW type \in Types
    PROVE  /\ TypeOf([type |-> type]) \in SchemaTypes
           /\ Agrees(Written(type), Schema(TypeOf([type |-> type])))
<1>1. CASE type \in DOMAIN makeSyntheticPox4Operation
  <2>1. /\ type \in DOMAIN Pox4OperationSchemas /\ TypeOf([type |-> type]) = type
        /\ type \in SchemaTypes
    BY <1>1 DEF makeSyntheticPox4Operation, Pox4OperationSchemas, TypeOf, SchemaTypes
  <2>2. /\ Written(type) = makeSyntheticPox4Operation[type]
        /\ Schema(type) = Pox4OperationSchemas[type]
    BY <1>1, <2>1 DEF Written, Schema
  <2> QED BY <1>1, <2>1, <2>2, Pox4Agrees
<1>2. CASE type \in DOMAIN makeSyntheticPox5Operation
  <2>1. /\ type \in DOMAIN Pox5OperationSchemas /\ TypeOf([type |-> type]) = type
        /\ type \in SchemaTypes
        /\ type \notin DOMAIN makeSyntheticPox4Operation /\ type \notin DOMAIN Pox4OperationSchemas
    BY <1>2 DEF makeSyntheticPox4Operation, Pox4OperationSchemas,
                makeSyntheticPox5Operation, Pox5OperationSchemas, TypeOf, SchemaTypes
  <2>2. /\ Written(type) = makeSyntheticPox5Operation[type]
        /\ Schema(type) = Pox5OperationSchemas[type]
    BY <1>2, <2>1 DEF Written, Schema
  <2> QED BY <1>2, <2>1, <2>2, Pox5Agrees
<1>3. CASE type \in DOMAIN serializePostCondition
  <2>1. /\ type \in DOMAIN PostConditionSchema /\ TypeOf([type |-> type]) = type
        /\ type \in SchemaTypes
        /\ type \notin DOMAIN makeSyntheticPox4Operation /\ type \notin DOMAIN Pox4OperationSchemas
        /\ type \notin DOMAIN makeSyntheticPox5Operation /\ type \notin DOMAIN Pox5OperationSchemas
    BY <1>3 DEF makeSyntheticPox4Operation, Pox4OperationSchemas, makeSyntheticPox5Operation,
                Pox5OperationSchemas, serializePostCondition, PostConditionSchema,
                TypeOf, SchemaTypes
  <2>2. /\ Written(type) = serializePostCondition[type]
        /\ Schema(type) = PostConditionSchema[type]
    BY <1>3, <2>1 DEF Written, Schema
  <2> QED BY <1>3, <2>1, <2>2, ConditionsAgree
<1>4. CASE type \in DOMAIN serializeReplayedNakamotoTransaction
  <2>1. type = "transaction"
    BY <1>4 DEF serializeReplayedNakamotoTransaction
  <2>2. /\ type \in DOMAIN TransactionMetadataSchema /\ TypeOf([type |-> type]) = type
        /\ type \in SchemaTypes
        /\ type \notin DOMAIN makeSyntheticPox4Operation /\ type \notin DOMAIN Pox4OperationSchemas
        /\ type \notin DOMAIN makeSyntheticPox5Operation /\ type \notin DOMAIN Pox5OperationSchemas
        /\ type \notin DOMAIN serializePostCondition /\ type \notin DOMAIN PostConditionSchema
    BY <2>1 DEF makeSyntheticPox4Operation, Pox4OperationSchemas, makeSyntheticPox5Operation,
                Pox5OperationSchemas, serializePostCondition, PostConditionSchema,
                TransactionMetadataSchema, TypeOf, SchemaTypes
  <2>3. /\ Written(type) = serializeReplayedNakamotoTransaction[type]
        /\ Schema(type) = TransactionMetadataSchema[type]
    BY <1>4, <2>2 DEF Written, Schema
  <2> QED BY <1>4, <2>2, <2>3, TransactionsAgree
<1>5. CASE type \in DOMAIN serializeStacksTransactionOperations
  <2> DEFINE told == TypeOf([type |-> type])
  <2>1. /\ told \in DOMAIN TransactionOperationSchemas /\ told \in SchemaTypes
        /\ type \notin DOMAIN makeSyntheticPox4Operation /\ told \notin DOMAIN Pox4OperationSchemas
        /\ type \notin DOMAIN makeSyntheticPox5Operation /\ told \notin DOMAIN Pox5OperationSchemas
        /\ type \notin DOMAIN serializePostCondition /\ told \notin DOMAIN PostConditionSchema
        /\ type \notin DOMAIN serializeReplayedNakamotoTransaction
        /\ told \notin DOMAIN TransactionMetadataSchema
    BY <1>5 DEF makeSyntheticPox4Operation, Pox4OperationSchemas, makeSyntheticPox5Operation,
                Pox5OperationSchemas, serializePostCondition, PostConditionSchema,
                serializeStacksTransactionOperations, TransactionOperationSchemas,
                serializeReplayedNakamotoTransaction, TransactionMetadataSchema,
                TypeOf, SchemaTypes
  <2> HIDE DEF told
  <2>2. /\ Written(type) = serializeStacksTransactionOperations[type]
        /\ Schema(told) = TransactionOperationSchemas[told]
    BY <1>5, <2>1 DEF Written, Schema
  <2>3. Agrees(serializeStacksTransactionOperations[type], TransactionOperationSchemas[told])
    BY <1>5, OperationsAgree DEF told
  <2> QED BY <2>1, <2>2, <2>3 DEF told
<1> QED BY <1>1, <1>2, <1>3, <1>4, <1>5 DEF Types

\* What reaches the client of what is written.
Kept(has) == {h \in has : h.field # "result_type"}

\* An object of which fields are missing that may be missing fits its schema, and all of
\* it is shown but the type of a result.
LEMMA ItemFits ==
    ASSUME NEW item \in Items
    PROVE  FitsSchema(Object(item)) /\ Shown(Object(item)) = Kept(Object(item).has)
<1> DEFINE type == item.type
           told == TypeOf(item)
           W == Written(type)
           S == Schema(told)
           o == Object(item)
<1>1. type \in Types /\ item.lacks \subseteq Lacking(type)
  <2>1. PICK t \in Types :
            item \in [type : {t}, lacks : SUBSET Lacking(t),
                     unknown : IF t \in {"tenure_change", "transaction"} THEN BOOLEAN
                               ELSE {FALSE}]
    BY Zenon DEF Items
  <2> QED BY <2>1
<1>2. TypeOf([type |-> type]) = told
  BY DEF TypeOf
<1>3. told \in SchemaTypes /\ Agrees(W, S)
  BY <1>1, <1>2, AllAgree
<1>4. o.type = told /\ o.has = Has(item)
  BY DEF Object
<1> HIDE DEF told, S, o, type
<1>5. \A w \in W : w.field \in item.lacks => MayLack(w)
  <2> SUFFICES ASSUME NEW w \in W, w.field \in item.lacks PROVE MayLack(w)
    OBVIOUS
  <2>1. PICK v \in W : MayLack(v) /\ v.field = w.field
    BY <1>1 DEF Lacking
  <2>2. v = w
    BY <1>3, <2>1 DEF Agrees
  <2> QED BY <2>1, <2>2
<1> DEFINE As(w) == [field |-> w.field, kind |-> Converted(w.kind, w.field \in item.lacks)]
<1>6. ASSUME NEW w \in W, NEW s \in S, w.field = s.field
      PROVE  As(w).kind \in s.kinds
  <2>1. CASE w.field \in item.lacks
    <3>1. Converted(w.kind, TRUE) \in s.kinds
      BY <1>3, <1>5, <1>6, <2>1 DEF Agrees
    <3> QED BY <2>1, <3>1 DEF Converted
  <2>2. CASE w.field \notin item.lacks
    <3>1. Converted(w.kind, FALSE) \in s.kinds
      BY <1>3, <1>6 DEF Agrees
    <3> QED BY <2>2, <3>1 DEF Converted
  <2> QED BY <2>1, <2>2
<1>7. Has(item) = {h \in {As(w) : w \in W} : h.kind # "absent"}
  BY DEF Has, type
<1> HIDE DEF W
<1>8. \A w \in W : As(w).field = w.field
  OBVIOUS
<1> HIDE DEF As
<1>9. ASSUME NEW s \in S, NEW h \in Has(item), h.field = s.field PROVE h.kind \in s.kinds
  BY <1>6, <1>7, <1>8, <1>9
<1>10. ASSUME NEW s \in S, "absent" \notin s.kinds
       PROVE  \E h \in Has(item) : h.field = s.field
  <2>1. PICK k \in Conversions : [field |-> s.field, kind |-> k] \in W
    BY <1>3, <1>10 DEF Agrees, WrittenIn
  <2>2. PICK w \in W : w.field = s.field
    BY <2>1
  <2>3. As(w) \in Has(item) /\ As(w).field = s.field
    BY <1>6, <1>7, <1>8, <1>10, <2>2
  <2> QED BY <2>3
<1>11. ASSUME NEW h \in Has(item), h.field # "result_type" PROVE \E s \in S : s.field = h.field
  <2>1. PICK w \in W : h.field = w.field
    BY <1>7, <1>8
  <2>2. PICK ks \in Kinds : [field |-> w.field, kinds |-> ks] \in S
    BY <1>3, <1>11, <2>1 DEF Agrees, TakenIn
  <2> QED BY <2>1, <2>2
<1>12. FitsSchema(o)
  BY <1>3, <1>4, <1>9, <1>10 DEF FitsSchema, S
<1>13. \A s \in S : s.field # "result_type"
  BY <1>3 DEF Agrees
<1>14. Shown(o) = Kept(o.has)
  BY <1>4, <1>11, <1>13 DEF Shown, S, Kept
<1> QED BY <1>12, <1>14 DEF o

\* So it is with a contract call.
LEMMA CallFits == FitsSchema(ContractCall) /\ Shown(ContractCall) = Kept(ContractCall.has)
<1> DEFINE S == TransactionOperationSchemas["contract_call"]
           H == ContractCall.has
<1>1. /\ ContractCall.type = "contract_call" /\ "contract_call" \in SchemaTypes
      /\ Schema("contract_call") = S
  BY DEF ContractCall, SchemaTypes, Schema, Pox4OperationSchemas, Pox5OperationSchemas,
         PostConditionSchema, TransactionOperationSchemas, TransactionMetadataSchema
<1>2. /\ \A s \in S, h \in H : h.field = s.field => h.kind \in s.kinds
      /\ \A s \in S : WrittenIn(s.field, H)
      /\ \A h \in H : TakenIn(h.field, S) /\ h.field # "result_type"
  <2> USE DEF ContractCall, Fields, Account, TransactionOperationSchemas,
              BaseAccountOperation, Some, Takes
  <2>1. ASSUME NEW s \in S, NEW h \in H, h.field = s.field PROVE h.kind \in s.kinds
    BY <2>1
  <2>2. ASSUME NEW s \in S PROVE WrittenIn(s.field, H)
    BY DEF WrittenIn, Conversions
  <2>3. ASSUME NEW h \in H PROVE TakenIn(h.field, S) /\ h.field # "result_type"
    BY DEF TakenIn, Kinds
  <2> QED BY <2>1, <2>2, <2>3
<1> HIDE DEF S
<1>3. \A s \in S : \E h \in H : h.field = s.field
  <2> SUFFICES ASSUME NEW s \in S PROVE \E h \in H : h.field = s.field
    OBVIOUS
  <2>1. PICK k \in Conversions : [field |-> s.field, kind |-> k] \in H
    BY <1>2 DEF WrittenIn
  <2> QED BY <2>1
<1>4. \A h \in H : \E s \in S : s.field = h.field
  <2> SUFFICES ASSUME NEW h \in H PROVE \E s \in S : s.field = h.field
    OBVIOUS
  <2>1. PICK ks \in Kinds : [field |-> h.field, kinds |-> ks] \in S
    BY <1>2 DEF TakenIn
  <2> QED BY <2>1
<1> QED BY <1>1, <1>2, <1>3, <1>4 DEF FitsSchema, Shown, Kept

-----------------------------------------------------------------------------
(* The invariant.                                                          *)

Objects == {ContractCall} \cup {Object(item) : item \in Items}
Undescribed ==
    /\ call \in Calls /\ abi \in ABIs
    /\ call.function \notin DOMAIN abi \/ call.args > abi[call.function]

\* What an answer was made of.
Replied ==
    \/ /\ neighbors \in Neighbors /\ objects = <<>>
       /\ reply = [ok |-> TRUE, shown |-> <<>>, peers |-> Peers(neighbors)]
    \/ neighbors = NoNeighbors /\ (Undescribed \/ part.unknown) /\ reply = Error
    \/ /\ neighbors = NoNeighbors /\ reply.ok
       /\ reply.shown = [i \in DOMAIN objects |-> Kept(objects[i].has)]

IInv ==
    /\ deployed \in ABIs \cup {NoAbi}
    /\ entry # NoEntry => entry \in [abi : ABIs, expired : BOOLEAN]
    /\ wire # <<>> => wire[1] \in ABIs
    /\ stage \in {"idle", "prefetch", "prefetching", "abi", "fetching", "events", "answered"}
    /\ stage \in {"prefetch", "prefetching", "abi", "fetching"} => call \in Calls
    /\ objects \in Seq(Objects)
    /\ stage \notin {"events", "answered"} => objects = <<>>
    /\ IF stage = "answered" THEN Replied ELSE neighbors = NoNeighbors

\* Whatever a block contains, it fits its schema and is shown.
LEMMA ObjectsFit ==
    ASSUME NEW o \in Objects
    PROVE  FitsSchema(o) /\ Shown(o) = Kept(o.has)
BY CallFits, ItemFits DEF Objects

\* What follows a lookup.
LEMMA FoundPreserves ==
    ASSUME IInv, NEW found \in ABIs \cup {NoAbi}, Found(found),
           stage \in {"prefetch", "prefetching", "abi", "fetching"},
           deployed' = deployed, call' = call, neighbors' = neighbors,
           entry' # NoEntry => entry' \in [abi : ABIs, expired : BOOLEAN],
           wire' # <<>> => wire'[1] \in ABIs
    PROVE  IInv'
<1>1. CASE stage \in {"prefetch", "prefetching"}
  BY <1>1 DEF IInv, Found
<1>2. CASE stage \in {"abi", "fetching"}
  <2>1. call \in Calls /\ objects = <<>> /\ neighbors = NoNeighbors
    BY <1>2 DEF IInv
  <2>2. abi' = found
    BY <1>2 DEF Found
  <2> DEFINE fits == call.function \in DOMAIN found /\ call.args <= found[call.function]
  <2>3. CASE found = NoAbi \/ fits
    <3>1. stage' = "events" /\ objects' = <<ContractCall>>
      BY <1>2, <2>3 DEF Found
    <3>2. <<ContractCall>> \in Seq(Objects)
      BY DEF Objects
    <3> QED BY <2>1, <3>1, <3>2 DEF IInv
  <2>4. CASE found # NoAbi /\ ~fits
    <3>1. stage' = "answered" /\ reply' = Error /\ objects' = objects
      BY <1>2, <2>4 DEF Found
    <3>2. found \in ABIs
      BY <2>4
    <3>3. call.function \notin DOMAIN found \/ call.args > found[call.function]
      <4>1. call.args \in Nat /\ \A f \in DOMAIN found : found[f] \in Nat
        BY <2>1, <3>2, AbiAssumption
      <4> QED BY <2>4, <4>1
    <3>4. Undescribed'
      BY <2>1, <2>2, <3>2, <3>3 DEF Undescribed
    <3>5. Replied'
      BY <2>1, <3>1, <3>4 DEF Replied, NoNeighbors, Error
    <3> QED BY <2>1, <3>1, <3>5 DEF IInv
  <2> QED BY <2>3, <2>4
<1> QED BY <1>1, <1>2

\* An answer about neighbours.
LEMMA StatusPreserves ==
    ASSUME IInv, Status
    PROVE  IInv'
<1>1. /\ neighbors' \in Neighbors /\ objects' = <<>> /\ stage' = "answered"
      /\ reply' = [ok |-> TRUE, shown |-> <<>>, peers |-> Peers(neighbors')]
      /\ objects = <<>>
  BY DEF IInv, Status, block
<1>2. Replied'
  BY <1>1 DEF Replied
<1> QED BY <1>1, <1>2 DEF IInv, Status, block

\* An answer about a block.
LEMMA AnswerPreserves ==
    ASSUME IInv, Answer
    PROVE  IInv'
<1>1. /\ objects' = objects /\ stage' = "answered" /\ neighbors' = neighbors
      /\ neighbors = NoNeighbors /\ reply' = BlockAnswer /\ objects \in Seq(Objects)
  BY DEF IInv, Answer, block
<1>2. \A i \in DOMAIN objects : FitsSchema(objects[i]) /\ Shown(objects[i]) = Kept(objects[i].has)
  <2>1. \A i \in DOMAIN objects : objects[i] \in Objects
    BY <1>1
  <2> QED BY <2>1, ObjectsFit
<1>3. BlockAnswer.ok /\ BlockAnswer.shown = [i \in DOMAIN objects |-> Kept(objects[i].has)]
  <2>1. BlockAnswer = [ok |-> TRUE, shown |-> [i \in DOMAIN objects |-> Shown(objects[i])],
                       peers |-> <<>>]
    BY <1>2 DEF BlockAnswer
  <2>2. [i \in DOMAIN objects |-> Shown(objects[i])]
          = [i \in DOMAIN objects |-> Kept(objects[i].has)]
    BY <1>2
  <2> QED BY <2>1, <2>2
<1>4. Replied'
  BY <1>1, <1>3 DEF Replied, NoNeighbors
<1> QED BY <1>1, <1>4 DEF IInv, Answer, block

\* The contract's ABI is looked up, fetched, or cannot be fetched.
LEMMA LookupPreserves ==
    ASSUME IInv, Lookup
    PROVE  IInv'
<1>1. /\ stage \in {"prefetch", "abi"} /\ deployed' = deployed /\ wire' = wire
      /\ call' = call /\ neighbors' = neighbors
      /\ wire # <<>> => wire[1] \in ABIs
  BY DEF IInv, Lookup
<1>2. CASE entry = NoEntry
  <2>1. /\ stage' = Waiting[stage] /\ entry' = entry /\ abi' = abi /\ objects' = objects
        /\ reply' = reply
    BY <1>2 DEF Lookup
  <2>2. stage' \in {"prefetching", "fetching"}
    BY <1>1, <2>1 DEF Waiting
  <2> QED BY <1>1, <2>1, <2>2 DEF IInv
<1>3. CASE entry # NoEntry
  <2>1. /\ Found(entry.abi) /\ entry' = IF entry.expired THEN NoEntry ELSE entry
        /\ entry \in [abi : ABIs, expired : BOOLEAN]
    BY <1>3 DEF IInv, Lookup
  <2>2. /\ entry.abi \in ABIs \cup {NoAbi}
        /\ entry' # NoEntry => entry' \in [abi : ABIs, expired : BOOLEAN]
    BY <2>1
  <2> QED BY <1>1, <2>1, <2>2, FoundPreserves
<1> QED BY <1>2, <1>3

\* The node's answer is put in the cache, whatever the handler makes of it.
LEMMA FetchedPreserves ==
    ASSUME IInv, Fetched
    PROVE  IInv'
<1>1. /\ stage \in {"prefetching", "fetching"} /\ deployed' = deployed /\ wire' = <<>>
      /\ call' = call /\ neighbors' = neighbors
      /\ entry' = [abi |-> wire[1], expired |-> FALSE] /\ wire[1] \in ABIs /\ Found(wire[1])
  BY DEF IInv, Fetched
<1>2. entry' \in [abi : ABIs, expired : BOOLEAN] /\ wire[1] \in ABIs \cup {NoAbi}
  BY <1>1
<1> QED BY <1>1, <1>2, FoundPreserves

\* Without an answer the handler goes on with no ABI.
LEMMA FetchFailsPreserves ==
    ASSUME IInv, FetchFails
    PROVE  IInv'
<1>1. /\ stage \in {"prefetching", "fetching"} /\ deployed' = deployed /\ wire' = <<>>
      /\ call' = call /\ neighbors' = neighbors /\ entry' = entry /\ Found(NoAbi)
      /\ entry # NoEntry => entry \in [abi : ABIs, expired : BOOLEAN]
  BY DEF IInv, FetchFails
<1> QED BY <1>1, FoundPreserves

\* A part of the block is written, or is unknown to its serializer.
LEMMA SerializePreserves ==
    ASSUME IInv, NEW item \in Items, Serialize(item)
    PROVE  IInv'
<1>1. objects \in Seq(Objects) /\ stage = "events" /\ part' = item /\ neighbors = NoNeighbors
      /\ UNCHANGED <<deployed, entry, wire, call, abi, neighbors>>
  BY DEF IInv, Serialize
<1>2. CASE item.unknown
  <2>1. stage' = "answered" /\ reply' = Error /\ objects' = objects
    BY <1>2 DEF Serialize
  <2>2. Replied'
    BY <1>1, <1>2, <2>1 DEF Replied
  <2> QED BY <1>1, <2>1, <2>2 DEF IInv
<1>3. CASE ~item.unknown
  <2>1. objects' = Append(objects, Object(item)) /\ stage' = stage
    BY <1>3 DEF Serialize
  <2>2. Object(item) \in Objects
    BY DEF Objects
  <2>3. objects' \in Seq(Objects)
    BY <1>1, <2>1, <2>2
  <2> QED BY <1>1, <2>1, <2>3 DEF IInv
<1> QED BY <1>2, <1>3

\* A handler starts, or has answered.
LEMMA AskBlockPreserves ==
    ASSUME IInv, NEW c \in Calls \cup {NoCall}, AskBlock(c)
    PROVE  IInv'
<1>1. /\ stage = "idle" /\ call' = c /\ objects' = <<>> /\ neighbors' = neighbors
      /\ neighbors = NoNeighbors /\ deployed' = deployed /\ entry' = entry /\ wire' = wire
      /\ stage' = IF c = NoCall THEN "events" ELSE "prefetch"
  BY DEF IInv, AskBlock
<1>2. stage' = "prefetch" => call' \in Calls
  BY <1>1
<1> QED BY <1>1, <1>2 DEF IInv

\* After the answer nothing of it is left.
LEMMA LeavePreserves ==
    ASSUME IInv, Leave
    PROVE  IInv'
BY DEF IInv, Leave

\* What the node and the cache do, and a step that changes nothing.
LEMMA OutsidePreserves ==
    ASSUME IInv, NodeAnswers \/ Deployed \/ Expires \/ Evicted \/ UNCHANGED vars
    PROVE  IInv'
<1>1. UNCHANGED <<stage, call, abi, part, objects, neighbors, reply>>
  BY DEF NodeAnswers, Deployed, Expires, Evicted, vars, block
<1>2. Undescribed' = Undescribed
  BY <1>1 DEF Undescribed
<1>3. Replied' = Replied
  BY <1>1, <1>2 DEF Replied
<1>4. /\ deployed' \in ABIs \cup {NoAbi}
      /\ entry' # NoEntry => entry' \in [abi : ABIs, expired : BOOLEAN]
      /\ wire' # <<>> => wire'[1] \in ABIs
  <2>1. /\ deployed \in ABIs \cup {NoAbi}
        /\ entry # NoEntry => entry \in [abi : ABIs, expired : BOOLEAN]
        /\ wire # <<>> => wire[1] \in ABIs
    BY DEF IInv
  <2>2. CASE NodeAnswers
    BY <2>1, <2>2 DEF NodeAnswers
  <2>3. CASE Deployed
    BY <2>1, <2>3 DEF Deployed
  <2>4. CASE Expires
    BY <2>1, <2>4 DEF Expires
  <2>5. CASE Evicted
    BY <2>1, <2>5 DEF Evicted
  <2>6. CASE UNCHANGED vars
    BY <2>1, <2>6 DEF vars
  <2> QED BY <2>2, <2>3, <2>4, <2>5, <2>6
<1> QED BY <1>1, <1>3, <1>4 DEF IInv

\* The server starts with an empty cache and no request.
LEMMA Initially == Init => IInv
BY DEF Init, IInv, NoNeighbors

\* Every step preserves the invariant.
LEMMA Inductive == IInv /\ [Next]_vars => IInv'
<1> SUFFICES ASSUME IInv, [Next]_vars PROVE IInv'
  OBVIOUS
<1>1. CASE Status
  BY <1>1, StatusPreserves
<1>2. ASSUME NEW c \in Calls \cup {NoCall}, AskBlock(c) PROVE IInv'
  BY <1>2, AskBlockPreserves
<1>3. ASSUME NEW item \in Items, Serialize(item) PROVE IInv'
  BY <1>3, SerializePreserves
<1>4. CASE Settle
  BY <1>4, LookupPreserves, FetchedPreserves, FetchFailsPreserves, AnswerPreserves DEF Settle
<1>5. CASE Leave
  BY <1>5, LeavePreserves
<1>6. CASE NodeAnswers \/ Deployed \/ Expires \/ Evicted \/ UNCHANGED vars
  BY <1>6, OutsidePreserves
<1> QED BY <1>1, <1>2, <1>3, <1>4, <1>5, <1>6 DEF Next

\* So it holds always.
LEMMA Invariance == Spec => []IInv
BY Initially, Inductive, PTL DEF Spec

-----------------------------------------------------------------------------
(* The properties.                                                         *)

\* The only answer that is refused is that of a contract call that the ABI cannot
\* describe, or of a cause, a result or a payload that no serializer knows, whatever the
\* block contains and whichever of its fields are null.
THEOREM OnlyTheUnknownIsRefused == Spec => []RefusedOnlyForTheUnknown
<1>1. IInv => RefusedOnlyForTheUnknown
  <2> SUFFICES ASSUME IInv, stage = "answered", ~reply.ok
               PROVE  Indescribable \/ part.unknown
    BY DEF RefusedOnlyForTheUnknown
  <2>1. Replied
    BY DEF IInv
  <2>2. Undescribed \/ part.unknown
    BY <2>1 DEF Replied
  <2> QED BY <2>2, AbiAssumption DEF Undescribed, Indescribable
<1> QED BY <1>1, Invariance, PTL

\* The schema of every type names all the fields that the serializers write of it, except
\* the type of a transaction's result, which never reaches the client.
THEOREM AllButResultTypesIsShown == Spec => []OnlyResultTypesAreLost
<1>1. IInv => OnlyResultTypesAreLost
  <2> SUFFICES ASSUME IInv, stage = "answered", reply.ok, NEW i \in DOMAIN reply.shown
               PROVE  reply.shown[i] = Kept(objects[i].has)
    BY DEF OnlyResultTypesAreLost, Kept
  <2>1. Replied
    BY DEF IInv
  <2>2. CASE reply = [ok |-> TRUE, shown |-> <<>>, peers |-> Peers(neighbors)]
    BY <2>2
  <2>3. CASE reply.shown = [j \in DOMAIN objects |-> Kept(objects[j].has)]
    BY <2>3
  <2> QED BY <2>1, <2>2, <2>3 DEF Replied, Error
<1> QED BY <1>1, Invariance, PTL

\* Whatever the four lists of the node, every neighbour of them is a peer, once, with its
\* first address and its lists.
THEOREM NeighborsAreShownOnce == Spec => []NeighborsShownOnce
<1>1. IInv => NeighborsShownOnce
  <2> SUFFICES ASSUME IInv, stage = "answered", neighbors # NoNeighbors
               PROVE  NeighborsShownOnce
    BY DEF NeighborsShownOnce
  <2> DEFINE peers == Peers(neighbors)
             entries == Entries(neighbors)
  <2>1. neighbors \in Neighbors /\ reply.peers = peers
    BY DEF IInv, Replied
  <2>2. /\ Apart(peers) /\ \A id : Shows(peers, id, EntriesOf(entries, id))
        /\ entries \in Seq(EntryRecords)
    BY <2>1, EntriesTyped, PeersShown
  <2> HIDE DEF peers, entries
  <2>3. \A i, j \in DOMAIN peers : peers[i].peer_id = peers[j].peer_id => i = j
    BY <2>2 DEF Apart
  <2>4. ASSUME NEW i \in DOMAIN peers
        PROVE  LET mine == EntriesOf(entries, peers[i].peer_id)
               IN  mine # <<>> /\ peers[i] = PeerOf(mine)
    BY <2>2, Zenon DEF Shows
  <2>5. ASSUME NEW k \in DOMAIN entries
        PROVE  \E i \in DOMAIN peers : peers[i].peer_id = entries[k].peer.key
    <3> DEFINE id == entries[k].peer.key
               Mine == {entries[n] : n \in {j \in DOMAIN entries : entries[j].peer.key = id}}
    <3>1. entries[k] \in Mine /\ k \in 1..Len(entries)
      BY <2>2
    <3>2. EntriesOf(entries, id) = OnlyIn(entries, Mine)
      BY DEF EntriesOf
    <3> HIDE DEF id, Mine
    <3>3. \E n \in 1..Len(OnlyIn(entries, Mine)) : OnlyIn(entries, Mine)[n] = entries[k]
      BY <2>2, <3>1, OnlyInKeeps
    <3>4. OnlyIn(entries, Mine) # <<>>
      BY <3>3
    <3> QED BY <2>2, <3>2, <3>4 DEF Shows, id
  <2> QED BY <2>1, <2>3, <2>4, <2>5 DEF NeighborsShownOnce, peers, entries
<1> QED BY <1>1, Invariance, PTL
=============================================================================
