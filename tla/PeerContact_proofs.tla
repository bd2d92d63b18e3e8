------------------------- MODULE PeerContact_proofs -------------------------
(* Proofs about PeerContact, for any number of peers, any capacities, pauses *)
(* and intervals: no peer is overtaken twice while it waits.                 *)
EXTENDS PeerContact, FiniteSetTheorems, NaturalsInduction, WellFoundedInduction, TLAPS

USE CapsArePositive, TimesAreOrdered, IntervalsArePositive, SeqsAreNumbers, PeersAreFinite

-----------------------------------------------------------------------------
(* The list: its entries are those of distinct peers in distinct places.     *)
ListOK(list) ==
  /\ DOMAIN list \subseteq Peers
  /\ list \in [DOMAIN list -> Entries]
  /\ \A p \in DOMAIN list : list[p].rank \in 1 .. Cardinality(DOMAIN list)
  /\ \A p, q \in DOMAIN list : p # q => list[p].rank # list[q].rank

(* p is due before q, or at the same moment and listed first. *)
Ahead(list, p, q) ==
  \/ list[p].next < list[q].next
  \/ list[p].next = list[q].next /\ list[p].rank < list[q].rank

ShapeOK ==
  /\ now \in Nat
  /\ ListOK(peers)
  /\ notifyQ \in Seq(Packets)
  /\ overtook \in [Peers -> [Peers -> Nat]]

(* Whoever overtook p is behind p from then on: contacting q moves q beyond  *)
(* now, and p, being due, is not beyond now.                                 *)
Waiting(p, q) ==
  /\ p \in Listed
  /\ peers[p].next <= now
  /\ q \in Listed => Ahead(peers, p, q)

OvertakeInv ==
  \A p, q \in Peers : overtook[p][q] # 0 => overtook[p][q] = 1 /\ Waiting(p, q)

-----------------------------------------------------------------------------
Appends(list, added) ==
  /\ DOMAIN list = Listed \cup added
  /\ ListOK(list)
  /\ \A p \in Listed : /\ list[p].next = peers[p].next /\ list[p].rank = peers[p].rank
                        /\ list[p].seq = peers[p].seq
                        /\ list[p].seen \in {peers[p].seen, now}
  /\ \A p \in added : /\ list[p].next = now
                       /\ \A q \in Listed : list[q].rank < list[p].rank

KeepsOrder(list, rest, kept) ==
  /\ DOMAIN rest = kept
  /\ ListOK(rest)
  /\ \A p \in kept : rest[p].next = list[p].next /\ rest[p].seq = list[p].seq
  /\ \A p, q \in kept : list[p].rank < list[q].rank => rest[p].rank < rest[q].rank

LEMMA AtMost ==
  ASSUME NEW a \in Nat, NEW b \in Nat, a <= b
  PROVE  a < b \/ a = b
OBVIOUS

LEMMA LargerOfTwo ==
  ASSUME NEW a \in Int, NEW b \in Int
  PROVE  Max({a, b}) = IF a >= b THEN a ELSE b
BY DEF Max

LEMMA SmallerOfTwo ==
  ASSUME NEW a \in Int, NEW b \in Int
  PROVE  Min({a, b}) = IF a <= b THEN a ELSE b
BY DEF Min

(* A set of integers bounded from below has a least one. *)
LEMMA LeastOfBounded ==
  ASSUME NEW S \in SUBSET Int, NEW e \in S, NEW low \in Int, \A x \in S : low <= x
  PROVE  Min(S) \in S /\ \A x \in S : Min(S) <= x
<1> DEFINE T == {n \in Nat : n + low \in S}
<1>1. e - low \in T
  <2>1. e - low \in Nat /\ (e - low) + low = e
    OBVIOUS
  <2>. QED BY <2>1
<1>2. PICK m \in T : \A n \in T : ~(<<n, m>> \in OpToRel(<, Nat))
  <2>1. T \subseteq Nat /\ T # {}
    BY <1>1
  <2> HIDE DEF T
  <2>. QED BY <2>1, NatLessThanWellFounded, WFMin
<1>3. \A n \in T : m <= n
  <2>1. SUFFICES ASSUME NEW n \in T, n < m PROVE FALSE
    OBVIOUS
  <2>2. <<n, m>> \in OpToRel(<, Nat)
    BY <2>1 DEF OpToRel
  <2>. QED BY <1>2, <2>2
<1>4. m + low \in S /\ \A x \in S : m + low <= x
  <2>1. SUFFICES ASSUME NEW x \in S PROVE m + low <= x
    OBVIOUS
  <2>2. x - low \in Nat /\ (x - low) + low = x
    OBVIOUS
  <2>3. m <= x - low
    BY <1>3, <2>2
  <2>. QED BY <2>2, <2>3
<1>. QED BY <1>4 DEF Min

LEMMA DisjointUnion ==
  ASSUME NEW S, NEW T, IsFiniteSet(S), IsFiniteSet(T), S \cap T = {}
  PROVE  Cardinality(S \cup T) = Cardinality(S) + Cardinality(T)
<1>1. Cardinality(S \cup T) = Cardinality(S) + Cardinality(T) - Cardinality(S \cap T)
  BY FS_Union
<1>2. Cardinality(S \cap T) = 0
  BY FS_EmptySet
<1>3. Cardinality(S) \in Nat /\ Cardinality(T) \in Nat
  BY FS_CardinalityType
<1>. QED BY <1>1, <1>2, <1>3

(* add_or_update keeps the listed peers' places and due times and appends    *)
(* the new ones, due now, behind them (peers.rs:54-68).                      *)
LEMMA AddOrUpdateAppends ==
  ASSUME ShapeOK,
         NEW found, NEW added \in SUBSET (Peers \ Listed),
         NEW seq \in SeqNumbers, NEW rank \in Ranks(added)
  PROVE  Appends(AddOrUpdate(found, added, seq, rank), added)
<1> DEFINE n == Cardinality(Listed)
<1> SUFFICES ASSUME NEW list, list = AddOrUpdate(found, added, seq, rank)
             PROVE  Appends(list, added)
  OBVIOUS
<1>1. IsFiniteSet(Listed) /\ IsFiniteSet(added) /\ Listed \cap added = {}
  BY FS_Subset DEF ShapeOK, ListOK, Listed
<1>2. n \in Nat /\ Cardinality(added) \in Nat
  BY <1>1, FS_CardinalityType
<1>3. Cardinality(Listed \cup added) = n + Cardinality(added)
  BY <1>1, <1>2, DisjointUnion
<1>4. /\ rank \in [added -> n + 1 .. n + Cardinality(added)]
      /\ \A p, q \in added : p # q => rank[p] # rank[q]
  BY DEF Ranks
<1>5. DOMAIN list = Listed \cup added
  BY DEF AddOrUpdate
<1>6. \A p \in Listed : /\ list[p] \in Entries
                        /\ list[p].next = peers[p].next
                        /\ list[p].rank = peers[p].rank
                        /\ list[p].seq = peers[p].seq
                        /\ list[p].seen \in {peers[p].seen, now}
  BY <1>1 DEF AddOrUpdate, ShapeOK, ListOK, Listed, Entries
<1>7. \A p \in added : /\ list[p] \in Entries
                       /\ list[p].next = now
                       /\ list[p].rank = rank[p]
  BY <1>2, <1>4, SMTT(60) DEF AddOrUpdate, ShapeOK, Entries
<1>8. \A p \in Listed : peers[p].rank \in Nat /\ 1 <= peers[p].rank /\ peers[p].rank <= n
  BY DEF ShapeOK, ListOK, Listed, Entries
<1>9. \A p \in added, q \in Listed : list[q].rank < list[p].rank
  BY <1>2, <1>4, <1>6, <1>7, <1>8
<1>10. ListOK(list)
  <2>1. list \in [DOMAIN list -> Entries]
    BY <1>5, <1>6, <1>7 DEF AddOrUpdate
  <2>2. \A p \in DOMAIN list : list[p].rank \in 1 .. Cardinality(DOMAIN list)
    BY <1>2, <1>3, <1>4, <1>5, <1>6, <1>7, <1>8
  <2>3. \A p, q \in DOMAIN list : p # q => list[p].rank # list[q].rank
    <3>1. \A p, q \in Listed : p # q => list[p].rank # list[q].rank
      BY <1>6 DEF ShapeOK, ListOK, Listed
    <3>2. \A p, q \in added : p # q => list[p].rank # list[q].rank
      BY <1>4, <1>7
    <3>3. \A p \in added, q \in Listed : list[p].rank # list[q].rank
      BY <1>6, <1>7, <1>9 DEF Entries
    <3>. QED BY <1>5, <3>1, <3>2, <3>3
  <2>4. DOMAIN list \subseteq Peers
    BY <1>5 DEF ShapeOK, ListOK, Listed
  <2>. QED BY <2>1, <2>2, <2>3, <2>4 DEF ListOK
<1>. QED BY <1>5, <1>6, <1>7, <1>9, <1>10 DEF Appends

LEMMA RankReplaced ==
  ASSUME NEW e \in Entries, NEW n \in Nat
  PROVE  /\ [e EXCEPT !.rank = n] \in Entries
         /\ [e EXCEPT !.rank = n].next = e.next
         /\ [e EXCEPT !.rank = n].seq = e.seq
         /\ [e EXCEPT !.rank = n].rank = n
BY SMTT(30) DEF Entries

(* retain keeps the due times and the order of the peers that stay           *)
(* (peers.rs:89-91).                                                         *)
LEMMA RetainKeepsOrder ==
  ASSUME NEW list, ListOK(list), NEW kept \in SUBSET DOMAIN list
  PROVE  KeepsOrder(list, Retain(list, kept), kept)
<1> DEFINE upTo(p) == {q \in kept : list[q].rank <= list[p].rank}
<1> SUFFICES ASSUME NEW rest, rest = Retain(list, kept)
             PROVE  KeepsOrder(list, rest, kept)
  OBVIOUS
<1>1. IsFiniteSet(kept)
  <2>1. kept \in SUBSET Peers
    BY DEF ListOK
  <2>. QED BY <2>1, FS_Subset
<1>2. \A p \in kept : upTo(p) \in SUBSET kept
  OBVIOUS
<1>3. \A p \in kept : /\ IsFiniteSet(upTo(p))
                      /\ Cardinality(upTo(p)) \in Nat
                      /\ Cardinality(upTo(p)) <= Cardinality(kept)
  BY <1>1, <1>2, FS_Subset, FS_CardinalityType
<1>3a. \A p \in kept : Cardinality(upTo(p)) # 0
  <2>1. \A p \in kept : p \in upTo(p)
    BY DEF ListOK, Entries
  <2>. QED BY <1>3, <2>1, FS_EmptySet
<1>4. DOMAIN rest = kept
  BY DEF Retain
<1>5. \A p \in kept : rest[p] = [list[p] EXCEPT !.rank = Cardinality(upTo(p))]
  BY DEF Retain
<1> HIDE DEF upTo
<1>6. \A p \in kept : /\ list[p] \in Entries
                      /\ rest[p] \in Entries
                      /\ rest[p].next = list[p].next /\ rest[p].seq = list[p].seq
                      /\ rest[p].rank = Cardinality(upTo(p))
  <2>1. SUFFICES ASSUME NEW p \in kept
                 PROVE  /\ list[p] \in Entries
                        /\ rest[p] \in Entries
                        /\ rest[p].next = list[p].next /\ rest[p].seq = list[p].seq
                        /\ rest[p].rank = Cardinality(upTo(p))
    OBVIOUS
  <2>2. list[p] \in Entries
    BY DEF ListOK
  <2>3. rest[p] = [list[p] EXCEPT !.rank = Cardinality(upTo(p))]
    BY <1>5
  <2>4. Cardinality(upTo(p)) \in Nat
    BY <1>3
  <2>. QED BY <2>2, <2>3, <2>4, RankReplaced
<1>7. ASSUME NEW p \in kept, NEW q \in kept, list[p].rank < list[q].rank
      PROVE  rest[p].rank < rest[q].rank
  <2>0. \A r \in kept : list[r].rank \in Nat
    BY <1>6 DEF Entries
  <2>1. upTo(p) \in SUBSET upTo(q)
    BY <1>7, <2>0 DEF upTo
  <2>2. q \in upTo(q) /\ q \notin upTo(p)
    BY <1>7, <2>0 DEF upTo
  <2>3. Cardinality(upTo(p)) <= Cardinality(upTo(q)) /\ Cardinality(upTo(q)) # Cardinality(upTo(p))
    BY <1>3, <2>1, <2>2, FS_Subset
  <2>4. Cardinality(upTo(p)) < Cardinality(upTo(q))
    BY <1>3, <2>3, AtMost
  <2>5. rest[p].rank = Cardinality(upTo(p)) /\ rest[q].rank = Cardinality(upTo(q))
    BY <1>6
  <2>. QED BY <2>4, <2>5
<1>8. ListOK(rest)
  <2>1. rest \in [kept -> Entries]
    BY <1>4, <1>6 DEF Retain
  <2>2. \A p, q \in kept : p # q => rest[p].rank # rest[q].rank
    <3>1. SUFFICES ASSUME NEW p \in kept, NEW q \in kept, p # q
                   PROVE  rest[p].rank # rest[q].rank
      OBVIOUS
    <3>2. list[p].rank < list[q].rank \/ list[q].rank < list[p].rank
      BY <1>6, <3>1 DEF ListOK, Entries
    <3>3. rest[p].rank \in Nat /\ rest[q].rank \in Nat
      BY <1>6 DEF Entries
    <3>. QED BY <1>7, <3>2, <3>3
  <2>3. \A p \in kept : rest[p].rank \in 1 .. Cardinality(kept)
    BY <1>1, <1>3, <1>3a, <1>6, FS_CardinalityType
  <2>4. kept \subseteq Peers
    BY DEF ListOK
  <2>. QED BY <1>4, <2>1, <2>2, <2>3, <2>4 DEF ListOK
<1>. QED BY <1>4, <1>6, <1>7, <1>8 DEF KeepsOrder

-----------------------------------------------------------------------------
LEMMA RoomIsInteger ==
  ASSUME ShapeOK
  PROVE  Room \in Int /\ IsFiniteSet(Listed) /\ Cardinality(Listed) \in Nat
<1>1. IsFiniteSet(Listed) /\ Cardinality(Listed) \in Nat
  BY FS_Subset, FS_CardinalityType DEF ShapeOK, ListOK, Listed
<1>. QED BY <1>1 DEF Room

(* A notification changes the list as one add_or_update (ftm.rs:326).        *)
LEMMA NotifyChangesList ==
  ASSUME ShapeOK, NotifyAdds
  PROVE  \E added \in SUBSET (Peers \ Listed) :
           /\ Cardinality(added) <= Room
           /\ Appends(peers', added)
<1> DEFINE packet == Head(notifyQ)
           added == {packet.peer} \ Listed
<1>1. packet \in Packets
  BY DEF NotifyAdds, Notified, ShapeOK
<1>2. added \in SUBSET (Peers \ Listed) /\ packet.seq \in SeqNumbers
  BY <1>1 DEF Packets, SeqNumbers
<1>3. Cardinality(added) <= Room
  BY DEF NotifyAdds
<1>4. PICK rank \in Ranks(added) :
        peers' = AddOrUpdate({packet.peer}, added, packet.seq, rank)
  BY DEF NotifyAdds
<1>5. Appends(peers', added)
  BY <1>2, <1>4, AddOrUpdateAppends
<1>. QED BY <1>2, <1>3, <1>5

(* A scan appends as many as there is room for, marks the listed ones it has *)
(* heard, and then the stale ones go (scan.rs:93-112).                       *)
ScanChanges(list, added) ==
  /\ added \in SUBSET (Peers \ Listed)
  /\ Cardinality(added) <= Room
  /\ Appends(list, added)
  /\ Fresh(list) \in SUBSET DOMAIN list
  /\ KeepsOrder(list, peers', Fresh(list))

LEMMA ScanChangesList ==
  ASSUME ShapeOK, NEW found \in SUBSET Peers, ScanFinds(found)
  PROVE  \E list, added : ScanChanges(list, added)
<1>1. PICK added \in SUBSET (found \ Listed) :
        /\ Cardinality(added) = Min({Room, Cardinality(found \ Listed)})
        /\ \E rank \in Ranks(added) :
             peers' = Retain(AddOrUpdate(found, added, 0, rank),
                             Fresh(AddOrUpdate(found, added, 0, rank)))
  BY DEF ScanFinds
<1>2. PICK rank \in Ranks(added) :
        peers' = Retain(AddOrUpdate(found, added, 0, rank),
                        Fresh(AddOrUpdate(found, added, 0, rank)))
  BY <1>1
<1> DEFINE list == AddOrUpdate(found, added, 0, rank)
<1>3. Cardinality(added) <= Room
  <2>1. IsFiniteSet(found \ Listed) /\ Cardinality(found \ Listed) \in Nat
    BY FS_Subset, FS_CardinalityType
  <2>2. Room \in Int
    BY RoomIsInteger
  <2>3. Min({Room, Cardinality(found \ Listed)}) <= Room
    BY <2>1, <2>2, SmallerOfTwo
  <2>. QED BY <1>1, <2>3
<1>4. added \in SUBSET (Peers \ Listed) /\ 0 \in SeqNumbers
  BY DEF SeqNumbers
<1>5. Appends(list, added)
  BY <1>4, AddOrUpdateAppends
<1>6. Fresh(list) \in SUBSET DOMAIN list
  BY DEF Fresh
<1>7. KeepsOrder(list, peers', Fresh(list))
  BY <1>2, <1>5, <1>6, RetainKeepsOrder DEF Appends
<1>. QED BY <1>3, <1>4, <1>5, <1>6, <1>7 DEF ScanChanges

(* Contacting the most overdue peer: it moves behind every peer that is due, *)
(* and no peer it had already overtaken can be due (ftm.rs:240-273).         *)
LEMMA ContactKeepsOvertaking ==
  ASSUME ShapeOK, OvertakeInv, NEW p \in Peers, NEW muted \in BOOLEAN,
         NEW i \in Intervals, ContactPeer(p, muted, i)
  PROVE  ShapeOK' /\ OvertakeInv'
<1>1. /\ p \in Due /\ p \in Listed /\ i \in Nat \ {0}
      /\ \A q \in Due : Before(p, q)
      /\ UNCHANGED <<now, notifyQ>>
  BY DEF ContactPeer, MostOverdue, Due
<1>2. \A q \in Listed : /\ peers[q] \in Entries /\ peers[q].next \in Nat
                        /\ peers[q].rank \in Nat /\ peers[q].seq \in SeqNumbers
  BY DEF ShapeOK, ListOK, Listed, Entries
<1>3. DOMAIN peers' = Listed /\ Listed' = Listed
  BY DEF ContactPeer, Listed
<1>4. peers'[p] = [peers[p] EXCEPT !.next = now + i,
                                   !.seq = IF muted THEN @ ELSE (@ + 1) % SeqMod]
  BY <1>1 DEF ContactPeer, Listed
<1>5. \A q \in Listed : q # p => peers'[q] = peers[q]
  BY DEF ContactPeer, Listed
<1>6. (peers[p].seq + 1) % SeqMod \in SeqNumbers
  BY <1>1, <1>2 DEF SeqNumbers
<1>7. now + i \in Nat /\ now < now + i
  BY <1>1 DEF ShapeOK
<1>8. /\ peers'[p] \in Entries /\ peers'[p].next = now + i
      /\ peers'[p].rank = peers[p].rank
  BY <1>1, <1>2, <1>4, <1>6, <1>7 DEF Entries
<1>9. \A q \in Listed : peers'[q] \in Entries /\ peers'[q].rank = peers[q].rank
  BY <1>2, <1>5, <1>8
<1>10. ListOK(peers')
  <2>1. peers' \in [Listed -> Entries]
    BY <1>3, <1>9 DEF ContactPeer
  <2>. QED BY <1>3, <1>9, <2>1 DEF ShapeOK, ListOK, Listed
<1>11. overtook' \in [Peers -> [Peers -> Nat]]
  <2>1. \A q \in Peers : /\ overtook[q] \in [Peers -> Nat]
                         /\ Never[q] \in [Peers -> Nat]
                         /\ [overtook[q] EXCEPT ![p] = @ + 1] \in [Peers -> Nat]
    BY DEF ShapeOK, Never
  <2>. QED BY <2>1 DEF ContactPeer, Overtakes
<1>12. OvertakeInv'
  <2>1. SUFFICES ASSUME NEW r \in Peers, NEW q \in Peers, overtook'[r][q] # 0
                 PROVE  overtook'[r][q] = 1 /\ Waiting(r, q)'
    BY DEF OvertakeInv
  <2>2. r # p
    BY <2>1 DEF ContactPeer, Overtakes, Never
  <2>3. r \in Due
    <3>1. CASE r \notin Due
      <4>1. overtook[r][q] # 0
        BY <2>1, <2>2, <3>1 DEF ContactPeer, Overtakes
      <4>. QED BY <1>2, <4>1, <3>1 DEF OvertakeInv, Waiting, Due, ShapeOK
    <3>. QED BY <3>1
  <2>4. /\ r \in Listed /\ peers[r].next <= now /\ peers'[r] = peers[r]
        /\ overtook'[r] = [overtook[r] EXCEPT ![p] = @ + 1]
    BY <1>2, <1>5, <2>2, <2>3 DEF Due, ContactPeer, Overtakes, ShapeOK
  <2>5. CASE q = p
    <3>1. ~Ahead(peers, r, p)
      BY <1>1, <1>2, <2>3, <2>4 DEF Ahead, Before
    <3>2. overtook[r][p] = 0
      BY <1>1, <3>1 DEF OvertakeInv, Waiting
    <3>3. overtook'[r][p] = 1
      BY <2>4, <3>2 DEF ShapeOK
    <3>4. peers'[r].next < peers'[p].next
      BY <1>2, <1>7, <1>8, <2>4, SMTT(60) DEF ShapeOK
    <3>. QED BY <1>1, <1>3, <2>4, <2>5, <3>3, <3>4 DEF Waiting, Ahead
  <2>6. CASE q # p
    <3>1. overtook'[r][q] = overtook[r][q]
      BY <2>4, <2>6 DEF ShapeOK
    <3>2. overtook[r][q] = 1 /\ Waiting(r, q)
      BY <2>1, <3>1 DEF OvertakeInv
    <3>3. q \in Listed => peers'[q] = peers[q]
      BY <1>5, <2>6
    <3>. QED BY <1>1, <1>3, <2>4, <3>1, <3>2, <3>3 DEF Waiting, Ahead
  <2>. QED BY <2>5, <2>6
<1>. QED BY <1>1, <1>10, <1>11, <1>12 DEF ShapeOK

(* Appending and forgetting peers leaves those that stay in order; a peer    *)
(* that comes back is due now at the earliest and listed last.               *)
LEMMA ListingKeepsOvertaking ==
  ASSUME ShapeOK, OvertakeInv,
         NEW list, NEW added, NEW kept,
         Appends(list, added), KeepsOrder(list, peers', kept),
         kept \in SUBSET DOMAIN list,
         now' = now,
         \A p, q \in Peers :
           overtook'[p][q] = IF p \in kept THEN overtook[p][q] ELSE 0
  PROVE  ListOK(peers)' /\ OvertakeInv'
<1>1. Appends(list, added)
  OBVIOUS
<1>2. KeepsOrder(list, peers', kept)
  OBVIOUS
<1>3. Listed' = kept
  BY <1>2 DEF Listed, KeepsOrder
<1>4. ASSUME NEW p \in Peers, NEW q \in Peers, overtook'[p][q] # 0
      PROVE  overtook'[p][q] = 1 /\ Waiting(p, q)'
  <2>1. p \in kept /\ overtook'[p][q] = overtook[p][q]
    BY <1>4
  <2>2. overtook[p][q] = 1 /\ Waiting(p, q)
    BY <1>4, <2>1 DEF OvertakeInv
  <2>3. p \in Listed /\ list[p].next = peers[p].next /\ peers[p].next <= now
    BY <1>1, <2>2 DEF Waiting, Appends
  <2>4. peers'[p].next = peers[p].next /\ peers'[p].next <= now'
    BY <1>2, <2>1, <2>3 DEF KeepsOrder
  <2>5. ASSUME q \in kept PROVE Ahead(list, p, q)
    <3>1. CASE q \in Listed
      BY <1>1, <2>2, <2>3, <3>1 DEF Waiting, Ahead, Appends
    <3>2. CASE q \in added
      <4>1. list[q].next = now /\ list[p].rank < list[q].rank
        BY <1>1, <2>3, <3>2 DEF Appends
      <4>2. list[p].next \in Nat /\ now \in Nat /\ list[p].next <= now
        BY <2>3 DEF ShapeOK, ListOK, Listed, Entries
      <4>3. list[p].next < now \/ list[p].next = now
        BY <4>2, AtMost
      <4>. QED BY <4>1, <4>3 DEF Ahead
    <3>. QED BY <1>1, <2>5, <3>1, <3>2 DEF Appends
  <2>6. ASSUME q \in kept PROVE Ahead(peers', p, q)
    BY <1>2, <2>1, <2>5, <2>6 DEF Ahead, KeepsOrder
  <2>. QED BY <1>3, <2>1, <2>2, <2>4, <2>6 DEF Waiting
<1>. QED BY <1>2, <1>4 DEF OvertakeInv, KeepsOrder

THEOREM OvertakingInvariant == Spec => [](ShapeOK /\ OvertakeInv)
<1>1. Init => ShapeOK /\ OvertakeInv
  <2>1. SUFFICES ASSUME Init PROVE ShapeOK /\ OvertakeInv
    OBVIOUS
  <2>2. /\ now = 0 /\ DOMAIN peers = {} /\ peers = [p \in {} |-> 0]
        /\ notifyQ = <<>> /\ overtook = Never
    BY <2>1 DEF Init, AtBoot
  <2>3. ListOK(peers)
    BY <2>2 DEF ListOK
  <2>. QED BY <2>2, <2>3 DEF ShapeOK, OvertakeInv, Never
<1>2. ASSUME ShapeOK, OvertakeInv, [Next]_vars
      PROVE  ShapeOK' /\ OvertakeInv'
  <2> USE <1>2
  <2>1. ASSUME UNCHANGED <<now, peers, overtook>>, notifyQ' \in Seq(Packets)
        PROVE  ShapeOK' /\ OvertakeInv'
    BY <2>1 DEF ShapeOK, OvertakeInv, Waiting, Listed
  <2>2. CASE ContactIdle
    BY <2>1, <2>2 DEF ContactIdle, ShapeOK
  <2>3. ASSUME NEW p \in Peers, NEW i \in Intervals, NEW muted \in BOOLEAN,
               ContactSkips(p, muted, i) \/ ContactStarts(p, i)
        PROVE  ShapeOK' /\ OvertakeInv'
    BY <2>3, ContactKeepsOvertaking DEF ContactSkips, ContactStarts
  <2>4. CASE ContactFails \/ ContactNotifies \/ ContactUnlisted
    BY <2>1, <2>4 DEF ContactFails, ContactNotifies, ContactUnlisted, ContactEnds, ShapeOK
  <2>5. ASSUME NEW p \in Peers, NEW s \in Seqs, EspNowRecv(p, s)
        PROVE  ShapeOK' /\ OvertakeInv'
    <3>1. notifyQ' \in Seq(Packets)
      BY <2>5 DEF EspNowRecv, ShapeOK, Packets
    <3>. QED BY <2>1, <2>5, <3>1 DEF EspNowRecv
  <2>6. CASE NotifyAdds
    <3>1. notifyQ' \in Seq(Packets)
      BY <2>6 DEF NotifyAdds, Notified, ShapeOK
    <3>2. PICK added \in SUBSET (Peers \ Listed) : Appends(peers', added)
      BY <2>6, NotifyChangesList
    <3>3. now' = now /\ overtook' = overtook
      BY <2>6 DEF NotifyAdds
    <3>4. \A p, q \in Peers :
            overtook'[p][q] = IF p \in DOMAIN peers' THEN overtook[p][q] ELSE 0
      BY <3>2, <3>3 DEF OvertakeInv, Waiting, ShapeOK, Appends
    <3>5. overtook' \in [Peers -> [Peers -> Nat]]
      BY <3>3 DEF ShapeOK
    <3>6. KeepsOrder(peers', peers', DOMAIN peers')
      BY <3>2 DEF Appends, KeepsOrder
    <3>7. ListOK(peers)' /\ OvertakeInv'
      BY <3>2, <3>3, <3>4, <3>6, ListingKeepsOvertaking
    <3>. QED BY <3>1, <3>3, <3>5, <3>7 DEF ShapeOK
  <2>7. CASE NotifyPanics
    <3>1. /\ now' = 0 /\ DOMAIN peers' = {} /\ peers' = [p \in {} |-> 0]
          /\ notifyQ' = <<>> /\ overtook' = Never
      BY <2>7 DEF NotifyPanics, AtBoot
    <3>2. ListOK(peers')
      BY <3>1 DEF ListOK
    <3>. QED BY <3>1, <3>2 DEF ShapeOK, OvertakeInv, Never
  <2>8. CASE ScanStarts \/ ScanFails
    BY <2>1, <2>8 DEF ScanStarts, ScanFails, ShapeOK
  <2>9. ASSUME NEW found \in SUBSET Peers, ScanFinds(found)
        PROVE  ShapeOK' /\ OvertakeInv'
    <3>1. PICK list, added : ScanChanges(list, added)
      BY <2>9, ScanChangesList
    <3>2. DOMAIN peers' = Fresh(list)
      BY <3>1 DEF ScanChanges, KeepsOrder
    <3>3. now' = now /\ notifyQ' = notifyQ
      BY <2>9 DEF ScanFinds
    <3>4. overtook' = [p \in Peers |-> IF p \in Fresh(list) THEN overtook[p] ELSE Never[p]]
      BY <2>9, <3>2 DEF ScanFinds
    <3>5. overtook' \in [Peers -> [Peers -> Nat]]
      BY <3>4 DEF ShapeOK, Never
    <3>6. \A p, q \in Peers :
            overtook'[p][q] = IF p \in Fresh(list) THEN overtook[p][q] ELSE 0
      BY <3>4 DEF Never
    <3>7. ListOK(peers)' /\ OvertakeInv'
      BY <3>1, <3>3, <3>6, ListingKeepsOvertaking DEF ScanChanges
    <3>. QED BY <3>3, <3>5, <3>7 DEF ShapeOK
  <2>10. CASE Tick
    <3>1. now' = now + 1 /\ UNCHANGED <<peers, notifyQ, overtook>>
      BY <2>10 DEF Tick
    <3>2. \A p \in Listed : peers[p].next \in Nat
      BY DEF ShapeOK, ListOK, Listed, Entries
    <3>3. ASSUME NEW p \in Peers, NEW q \in Peers, Waiting(p, q)
          PROVE  Waiting(p, q)'
      <4>1. peers[p].next <= now + 1
        BY <3>2, <3>3 DEF Waiting, ShapeOK
      <4>. QED BY <3>1, <3>3, <4>1 DEF Waiting, Listed
    <3>4. OvertakeInv'
      BY <3>1, <3>3 DEF OvertakeInv
    <3>. QED BY <3>1, <3>4 DEF ShapeOK
  <2>11. CASE UNCHANGED vars
    BY <2>1, <2>11 DEF vars, ShapeOK
  <2>. QED BY <2>2, <2>3, <2>4, <2>5, <2>6, <2>7, <2>8, <2>9, <2>10, <2>11 DEF Next
<1>. QED BY <1>1, <1>2, PTL DEF Spec

(* No peer starves: each other peer is contacted at most once while it waits *)
(* (ftm.rs:240-273).                                                         *)
THEOREM NoStarvation == Spec => []BoundedOvertaking
<1>1. ShapeOK /\ OvertakeInv => BoundedOvertaking
  <2>1. SUFFICES ASSUME ShapeOK, OvertakeInv, NEW p \in Peers, NEW q \in Peers
                 PROVE  overtook[p][q] <= 1
    BY DEF BoundedOvertaking
  <2>2. overtook[p][q] = 0 \/ overtook[p][q] = 1
    BY <2>1 DEF OvertakeInv
  <2>. QED BY <2>2
<1>. QED BY <1>1, OvertakingInvariant, PTL

-----------------------------------------------------------------------------
(* What TypeOK says beyond ShapeOK. *)
WithinBounds ==
  /\ now <= Horizon
  /\ Cardinality(Listed) <= MaxPeers
  /\ contact \in Sleeping \cup Ranging
  /\ executor \in {"free", "scan"} /\ scanAt \in Nat
  /\ Len(notifyQ) <= NotifyCap

LEMMA TypeParts == ShapeOK /\ WithinBounds => TypeOK
BY DEF ShapeOK, WithinBounds, ListOK, Listed, TypeOK

(* With nobody due the loop pauses for MinGap at least, and otherwise not    *)
(* beyond the moment any listed peer is due (ftm.rs:236-258, 297-300).       *)
LEMMA IdlePauseBounds ==
  ASSUME ShapeOK
  PROVE  /\ IdlePause \in Nat /\ MinGap <= IdlePause
         /\ \A p \in Listed : IdlePause <= MinGap \/ now + IdlePause <= peers[p].next + 1
<1> DEFINE S == {MaxSleep} \cup {peers[p].next - now + 1 : p \in Listed}
<1>1. now \in Nat /\ \A p \in Listed : peers[p].next \in Nat
  BY DEF ShapeOK, ListOK, Listed, Entries
<1>2. S \in SUBSET Int /\ MaxSleep \in S /\ 0 - now \in Int
  BY <1>1
<1>3. \A x \in S : 0 - now <= x
  BY <1>1
<1>4. \A p \in Listed : peers[p].next - now + 1 \in S
  OBVIOUS
<1> HIDE DEF S
<1>5. Min(S) \in S /\ \A x \in S : Min(S) <= x
  BY <1>2, <1>3, LeastOfBounded
<1>6. Min(S) \in Int /\ MinGap \in Int
  <2> HIDE TimesAreOrdered
  <2>1. Min(S) \in Int
    BY <1>2, <1>5
  <2>2. MinGap \in Int
    BY TimesAreOrdered
  <2>. QED BY <2>1, <2>2
<1>7. IdlePause = IF MinGap >= Min(S) THEN MinGap ELSE Min(S)
  BY <1>6, LargerOfTwo DEF IdlePause, S
<1>8. ASSUME NEW p \in Listed
      PROVE  IdlePause <= MinGap \/ now + IdlePause <= peers[p].next + 1
  <2>1. Min(S) <= peers[p].next - now + 1 /\ peers[p].next \in Nat
    BY <1>1, <1>4, <1>5
  <2>. QED BY <1>1, <1>6, <1>7, <2>1
<1>9. IdlePause \in Nat /\ MinGap <= IdlePause
  BY <1>6, <1>7
<1>. QED BY <1>8, <1>9

LEMMA BusyPauseIsMinGap == BusyPause = MinGap
BY LargerOfTwo DEF BusyPause

LEMMA AsleepTyped ==
  ASSUME ShapeOK, NEW pause \in Nat,
         NEW after \in {"look", "failed", "notified", "unlisted"}
  PROVE  Asleep(pause, after) \in Sleeping
BY DEF ShapeOK, Asleep, Sleeping

(* A contact, a scan or a notification leaves at most MaxPeers listed. *)
LEMMA ListStaysWithin ==
  ASSUME ShapeOK, NEW list, NEW added \in SUBSET (Peers \ Listed),
         Cardinality(added) <= Room, Appends(list, added),
         NEW kept \in SUBSET DOMAIN list
  PROVE  Cardinality(kept) <= MaxPeers
<1>1. IsFiniteSet(Listed) /\ Cardinality(Listed) \in Nat
  BY RoomIsInteger
<1>2. IsFiniteSet(added) /\ Cardinality(added) \in Nat /\ Listed \cap added = {}
  BY FS_Subset, FS_CardinalityType
<1>3. Cardinality(Listed \cup added) = Cardinality(Listed) + Cardinality(added)
  BY <1>1, <1>2, DisjointUnion
<1>4. IsFiniteSet(Listed \cup added) /\ kept \in SUBSET (Listed \cup added)
  BY <1>1, <1>2, FS_Union DEF Appends
<1>5. Cardinality(kept) <= Cardinality(Listed \cup added) /\ Cardinality(kept) \in Nat
  BY <1>4, FS_Subset, FS_CardinalityType
<1>. QED BY <1>1, <1>2, <1>3, <1>5 DEF Room

LEMMA BoundsPreserved ==
  ASSUME ShapeOK, WithinBounds, [Next]_vars
  PROVE  WithinBounds'
<1>1. ASSUME UNCHANGED <<now, notifyQ, executor, scanAt>>, Listed' = Listed,
             contact' \in Sleeping \cup Ranging
      PROVE  WithinBounds'
  BY <1>1 DEF WithinBounds
<1>2. CASE ContactIdle
  BY <1>1, <1>2, IdlePauseBounds, AsleepTyped DEF ContactIdle, Listed
<1>3. ASSUME NEW p \in Peers, NEW i \in Intervals, NEW muted \in BOOLEAN,
             ContactPeer(p, muted, i), contact' \in Sleeping \cup Ranging
      PROVE  WithinBounds'
  <2>1. Listed' = Listed
    BY <1>3 DEF ContactPeer, Listed
  <2>. QED BY <1>1, <1>3, <2>1 DEF ContactPeer
<1>4. ASSUME NEW p \in Peers, NEW i \in Intervals, NEW muted \in BOOLEAN,
             ContactSkips(p, muted, i)
      PROVE  WithinBounds'
  BY <1>3, <1>4, BusyPauseIsMinGap, AsleepTyped DEF ContactSkips
<1>5. ASSUME NEW p \in Peers, NEW i \in Intervals, ContactStarts(p, i)
      PROVE  WithinBounds'
  <2>1. p \in Listed /\ ContactPeer(p, FALSE, i)
    BY <1>5 DEF ContactStarts, ContactPeer, MostOverdue, Due
  <2>2. peers[p].seq \in SeqNumbers
    BY <2>1 DEF ShapeOK, ListOK, Listed, Entries
  <2>3. (peers[p].seq + 1) % SeqMod \in SeqNumbers
    BY <2>2 DEF SeqNumbers
  <2>4. contact' \in Ranging
    BY <1>5, <2>3 DEF ContactStarts, Ranging
  <2>. QED BY <1>3, <2>1, <2>4
<1>6. CASE ContactFails \/ ContactNotifies \/ ContactUnlisted
  <2>1. PICK after \in {"failed", "notified", "unlisted"} : ContactEnds(after)
    BY <1>6 DEF ContactFails, ContactNotifies, ContactUnlisted
  <2>. QED BY <1>1, <2>1, BusyPauseIsMinGap, AsleepTyped DEF ContactEnds, Listed
<1>7. ASSUME NEW p \in Peers, NEW s \in Seqs, EspNowRecv(p, s)
      PROVE  WithinBounds'
  <2>1. Len(notifyQ') <= NotifyCap
    BY <1>7 DEF EspNowRecv, ShapeOK
  <2>. QED BY <1>7, <2>1 DEF EspNowRecv, WithinBounds, Listed
<1>8. CASE NotifyAdds
  <2>1. PICK added \in SUBSET (Peers \ Listed) :
          Cardinality(added) <= Room /\ Appends(peers', added)
    BY <1>8, NotifyChangesList
  <2>2. Cardinality(Listed)' <= MaxPeers
    BY <2>1, ListStaysWithin DEF Listed
  <2>3. Len(notifyQ') <= NotifyCap
    BY <1>8 DEF NotifyAdds, Notified, ShapeOK, WithinBounds
  <2>. QED BY <1>8, <2>2, <2>3 DEF NotifyAdds, WithinBounds
<1>9. CASE NotifyPanics
  <2>1. Listed' = {} /\ Cardinality({}) = 0
    BY <1>9, FS_EmptySet DEF NotifyPanics, AtBoot, Listed
  <2>2. [pc |-> "sleep", until |-> StartDelay, after |-> "look"] \in Sleeping
    BY DEF Sleeping
  <2>. QED BY <1>9, <2>1, <2>2 DEF NotifyPanics, AtBoot, WithinBounds
<1>10. CASE ScanStarts
  BY <1>10 DEF ScanStarts, WithinBounds, Listed
<1>11. CASE ScanFails
  BY <1>11 DEF ScanFails, ScanPause, WithinBounds, ShapeOK, Listed
<1>12. ASSUME NEW found \in SUBSET Peers, ScanFinds(found)
       PROVE  WithinBounds'
  <2>1. PICK list, added : ScanChanges(list, added)
    BY <1>12, ScanChangesList
  <2>2. Cardinality(Listed)' <= MaxPeers
    BY <2>1, ListStaysWithin DEF ScanChanges, KeepsOrder, Listed
  <2>3. contact' \in Sleeping \cup Ranging
    BY <1>12 DEF ScanFinds, WithinBounds, Ranging, Sleeping
  <2>4. scanAt' \in Nat
    BY <1>12, SMTT(60) DEF ScanFinds, ScanPause, ShapeOK
  <2>. QED BY <1>12, <2>2, <2>3, <2>4 DEF ScanFinds, WithinBounds
<1>13. CASE Tick
  BY <1>13 DEF Tick, WithinBounds, ShapeOK, Listed
<1>14. CASE UNCHANGED vars
  BY <1>14 DEF vars, WithinBounds, Listed
<1>. QED BY <1>2, <1>4, <1>5, <1>6, <1>7, <1>8, <1>9, <1>10, <1>11, <1>12, <1>13, <1>14
         DEF Next

(* The list and the channel keep within their capacities and no two entries  *)
(* share a place (peers.rs:46, 65, ftm.rs:74).                               *)
THEOREM PeersTyped == Spec => []TypeOK
<1>1. Init => WithinBounds
  <2>1. SUFFICES ASSUME Init PROVE WithinBounds
    OBVIOUS
  <2>2. Listed = {} /\ Cardinality({}) = 0
    BY <2>1, FS_EmptySet DEF Init, AtBoot, Listed
  <2>3. [pc |-> "sleep", until |-> StartDelay, after |-> "look"] \in Sleeping
    BY DEF Sleeping
  <2>. QED BY <2>1, <2>2, <2>3 DEF Init, AtBoot, WithinBounds
<1>. QED BY <1>1, BoundsPreserved, OvertakingInvariant, TypeParts, PTL DEF Spec

-----------------------------------------------------------------------------
(* After every look and every exchange the loop pauses at least MinGap, and  *)
(* otherwise not past the moment a listed peer is due (ftm.rs:236-258,       *)
(* 297-300).                                                                 *)
PausesWell ==
  contact' # contact /\ contact'.pc = "sleep" /\ ~NotifyPanics =>
    /\ contact'.until >= now + MinGap
    /\ \A p \in Listed :
         contact'.until <= Max({now + MinGap, peers'[p].next + 1})

LEMMA EntryTyped ==
  ASSUME NEW list, ListOK(list), NEW p \in DOMAIN list
  PROVE  list[p].next \in Nat /\ list[p].seen \in Nat /\ list[p].seq \in SeqNumbers
BY DEF ListOK, Entries

LEMMA BusyPauseIsPunctual ==
  ASSUME ShapeOK, ListOK(peers'), Listed' = Listed, NEW after,
         contact' = Asleep(BusyPause, after)
  PROVE  PausesWell
<1>1. contact'.until = now + MinGap
  BY BusyPauseIsMinGap DEF Asleep
<1>2. ASSUME NEW p \in Listed
      PROVE  now + MinGap <= Max({now + MinGap, peers'[p].next + 1})
  <2>1. peers'[p].next \in Nat
    BY <1>2, EntryTyped DEF Listed
  <2>2. now + MinGap \in Int /\ peers'[p].next + 1 \in Int
    BY <2>1 DEF ShapeOK
  <2>3. \A a, b \in Int : a <= Max({a, b})
    BY LargerOfTwo
  <2>. QED BY <2>2, <2>3, Zenon
<1>3. now + MinGap \in Int
  BY DEF ShapeOK
<1>. QED BY <1>1, <1>2, <1>3 DEF PausesWell

THEOREM LoopIsPunctual == Spec => Punctual
<1>1. ASSUME ShapeOK, ShapeOK', TypeOK, [Next]_vars
      PROVE  PausesWell
  <2> USE <1>1
  <2>1. SUFFICES ASSUME contact' # contact, contact'.pc = "sleep", ~NotifyPanics
                 PROVE  PausesWell
    BY DEF PausesWell
  <2>2. CASE ContactIdle
    <3>1. contact'.until = now + IdlePause /\ peers' = peers
      BY <2>2 DEF ContactIdle, Asleep
    <3>2. now + MinGap <= now + IdlePause
      BY IdlePauseBounds DEF ShapeOK
    <3>3. ASSUME NEW p \in Listed
          PROVE  now + IdlePause <= Max({now + MinGap, peers[p].next + 1})
      <4>0. peers[p].next \in Nat /\ now \in Nat
        BY <3>3, EntryTyped DEF Listed, ShapeOK
      <4>1. now + MinGap \in Int /\ peers[p].next + 1 \in Int /\ IdlePause \in Int /\ now \in Int
        BY <4>0, IdlePauseBounds
      <4>2. IdlePause <= MinGap \/ now + IdlePause <= peers[p].next + 1
        BY <3>3, IdlePauseBounds
      <4>. QED BY <4>1, <4>2, LargerOfTwo
    <3>4. now + MinGap \in Int /\ now + IdlePause \in Int
      BY IdlePauseBounds DEF ShapeOK
    <3>. QED BY <3>1, <3>2, <3>3, <3>4 DEF PausesWell
  <2>3. ASSUME NEW p \in Peers, NEW i \in Intervals, NEW muted \in BOOLEAN,
               ContactSkips(p, muted, i)
        PROVE  PausesWell
    <3>1. Listed' = Listed /\ contact' = Asleep(BusyPause, "look") /\ ListOK(peers')
      BY <2>3 DEF ContactSkips, ContactPeer, Listed, ShapeOK
    <3>. QED BY <3>1, BusyPauseIsPunctual
  <2>4. CASE ContactFails \/ ContactNotifies \/ ContactUnlisted
    <3>1. PICK after \in {"failed", "notified", "unlisted"} : ContactEnds(after)
      BY <2>4 DEF ContactFails, ContactNotifies, ContactUnlisted
    <3>2. Listed' = Listed /\ contact' = Asleep(BusyPause, after) /\ ListOK(peers')
      BY <3>1 DEF ContactEnds, Listed, ShapeOK
    <3>. QED BY <3>2, BusyPauseIsPunctual
  <2>5. ASSUME NEW p \in Peers, NEW i \in Intervals, ContactStarts(p, i)
        PROVE  PausesWell
    BY <2>1, <2>5 DEF ContactStarts
  <2>6. ASSUME NEW found \in SUBSET Peers, ScanFinds(found)
        PROVE  PausesWell
    BY <2>1, <2>6, SMTT(60) DEF ScanFinds, TypeOK, Ranging
  <2>. QED BY <2>1, <2>2, <2>3, <2>4, <2>5, <2>6
           DEF Next, EspNowRecv, NotifyAdds, ScanStarts, ScanFails, Tick, vars
<1>. QED BY <1>1, PeersTyped, OvertakingInvariant, PTL DEF Spec, Punctual, PausesWell

(* A peer leaves the list only when nothing was heard of it for longer than  *)
(* StaleAge, or with the whole list in a panic (scan.rs:109-112, ftm.rs:326).*)
THEOREM StaleLeave == Spec => OnlyStaleLeave
<1>1. ShapeOK /\ [Next]_vars =>
        \A p \in Listed : p \notin Listed' /\ ~NotifyPanics => peers[p].seen + StaleAge < now
  <2>0. SUFFICES ASSUME ShapeOK, [Next]_vars, NEW p \in Listed, p \notin Listed', ~NotifyPanics
                 PROVE  peers[p].seen + StaleAge < now
    OBVIOUS
  <2>1. PICK found \in SUBSET Peers : ScanFinds(found)
    <3>1. ASSUME NotifyAdds PROVE FALSE
      BY <2>0, <3>1, NotifyChangesList DEF Appends, Listed
    <3>2. ASSUME NEW q \in Peers, NEW i \in Intervals, NEW muted \in BOOLEAN,
                 ContactPeer(q, muted, i)
          PROVE  FALSE
      BY <2>0, <3>2 DEF ContactPeer, Listed
    <3>3. ASSUME peers' = peers PROVE FALSE
      BY <2>0, <3>3 DEF Listed
    <3>. QED BY <2>0, <3>1, <3>2, <3>3
             DEF Next, ContactIdle, ContactSkips, ContactStarts, ContactFails, ContactNotifies,
                 ContactUnlisted, ContactEnds, EspNowRecv, ScanStarts, ScanFails, Tick, vars
  <2>2. PICK list, added : ScanChanges(list, added)
    BY <2>0, <2>1, ScanChangesList
  <2>3. p \in DOMAIN list /\ p \notin Fresh(list) /\ list[p].seen \in {peers[p].seen, now}
    BY <2>0, <2>2 DEF ScanChanges, Appends, KeepsOrder, Listed
  <2>4. now \in Nat /\ peers[p].seen \in Nat
    BY <2>0 DEF ShapeOK, ListOK, Listed, Entries
  <2>5. now >= StaleAge /\ ~(list[p].seen >= now - StaleAge)
    BY <2>3 DEF Fresh
  <2>6. list[p].seen = peers[p].seen
    BY <2>3, <2>4, <2>5
  <2>. QED BY <2>4, <2>5, <2>6
<1>. QED BY <1>1, OvertakingInvariant, PTL DEF Spec, OnlyStaleLeave

-----------------------------------------------------------------------------
(* While the exchange lasts and the peer stays listed, its entry keeps the   *)
(* sequence number the exchange was begun with: only the contact loop counts *)
(* it up, and what is heard of a listed peer leaves it alone.                *)
ExchangeNamed ==
  contact.pc = "ftm" /\ contact.listed =>
    contact.peer \in Listed /\ peers[contact.peer].seq = contact.seq

LEMMA NamePreserved ==
  ASSUME ShapeOK, TypeOK, ExchangeNamed, [Next]_vars
  PROVE  ExchangeNamed'
<1>1. SUFFICES ASSUME contact'.pc = "ftm", contact'.listed
               PROVE  contact'.peer \in DOMAIN peers' /\ peers'[contact'.peer].seq = contact'.seq
  BY DEF ExchangeNamed, Listed
<1>2. ASSUME UNCHANGED <<contact, peers>>
      PROVE  contact'.peer \in DOMAIN peers' /\ peers'[contact'.peer].seq = contact'.seq
  BY <1>1, <1>2 DEF ExchangeNamed, Listed
<1>3. ASSUME NEW p \in Peers, NEW i \in Intervals, ContactStarts(p, i)
      PROVE  contact'.peer \in DOMAIN peers' /\ peers'[contact'.peer].seq = contact'.seq
  <2>1. p \in Listed /\ peers[p] \in Entries
    BY <1>3 DEF ContactStarts, ContactPeer, MostOverdue, Due, ShapeOK, ListOK, Listed
  <2>2. /\ peers' = [peers EXCEPT ![p].next = now + i, ![p].seq = (@ + 1) % SeqMod]
        /\ contact' = [pc |-> "ftm", peer |-> p, seq |-> (peers[p].seq + 1) % SeqMod,
                       listed |-> TRUE]
    BY <1>3 DEF ContactStarts, ContactPeer
  <2>3. p \in DOMAIN peers' /\ peers'[p].seq = (peers[p].seq + 1) % SeqMod
    BY <2>1, <2>2 DEF Listed, Entries
  <2>. QED BY <2>2, <2>3
<1>4. CASE NotifyAdds
  <2>1. PICK added \in SUBSET (Peers \ Listed) : Appends(peers', added)
    BY <1>4, NotifyChangesList
  <2>2. contact' = contact
    BY <1>4 DEF NotifyAdds
  <2>. QED BY <1>1, <2>1, <2>2 DEF ExchangeNamed, Appends
<1>5. ASSUME NEW found \in SUBSET Peers, ScanFinds(found)
      PROVE  contact'.peer \in DOMAIN peers' /\ peers'[contact'.peer].seq = contact'.seq
  <2>1. PICK list, added : ScanChanges(list, added)
    BY <1>5, ScanChangesList
  <2>2. contact' = contact /\ contact.peer \in DOMAIN peers'
    BY <1>1, <1>5 DEF ScanFinds, TypeOK, Ranging, Sleeping
  <2>3. contact.peer \in Listed /\ peers[contact.peer].seq = contact.seq
    BY <1>1, <2>2 DEF ExchangeNamed
  <2>. QED BY <2>1, <2>2, <2>3 DEF ScanChanges, Appends, KeepsOrder
<1>6. ~ContactIdle /\ ~ContactFails /\ ~ContactNotifies /\ ~ContactUnlisted /\ ~NotifyPanics
  BY <1>1 DEF ContactIdle, ContactFails, ContactNotifies, ContactUnlisted, ContactEnds, Asleep,
              NotifyPanics, AtBoot
<1>7. \A p \in Peers, i \in Intervals, muted \in BOOLEAN : ~ContactSkips(p, muted, i)
  BY <1>1 DEF ContactSkips, Asleep
<1>8. CASE ScanStarts \/ ScanFails \/ Tick \/ UNCHANGED vars
  BY <1>2, <1>8 DEF ScanStarts, ScanFails, Tick, vars
<1>9. ASSUME NEW p \in Peers, NEW s \in Seqs, EspNowRecv(p, s)
      PROVE  contact'.peer \in DOMAIN peers' /\ peers'[contact'.peer].seq = contact'.seq
  BY <1>2, <1>9 DEF EspNowRecv
<1>. QED BY <1>3, <1>4, <1>5, <1>6, <1>7, <1>8, <1>9 DEF Next

(* A notification carries the number its exchange was begun with, unless the *)
(* peer was dropped from the list meanwhile (ftm.rs:155-161, 276-278).       *)
THEOREM NotificationNamesExchange == Spec => SyncNamesExchange
<1>1. Init => ExchangeNamed
  BY DEF Init, AtBoot, ExchangeNamed
<1>2. ExchangeNamed /\ [Next]_vars =>
        (ContactNotifies /\ contact.listed => NotifiedSeq = contact.seq)
  BY DEF ExchangeNamed, ContactNotifies, ContactEnds, NotifiedSeq
<1>. QED BY <1>1, <1>2, NamePreserved, OvertakingInvariant, PeersTyped, PTL
         DEF Spec, SyncNamesExchange
=============================================================================
