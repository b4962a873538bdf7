------------------------ MODULE BlockDownload_proofs ------------------------
(* Proofs about BlockDownload: the maps, the lists and the counters of the   *)
(* block download scheduler agree in every reachable state, for any peers,   *)
(* blocks and limits.                                                        *)
EXTENDS BlockDownload, SequenceTheorems, TLAPS

-----------------------------------------------------------------------------
(* Lemmas about the lists.                                                   *)

\* Removing position i keeps the others in order: the list without its i-th
\* element (list::erase in MarkBlockAsReceived).
LEMMA RemoveAtElements ==
    ASSUME NEW S, NEW s \in Seq(S), NEW i \in 1 .. Len(s)
    PROVE  /\ RemoveAt(s, i) \in Seq(S)
           /\ Len(RemoveAt(s, i)) = Len(s) - 1
           /\ \A j \in 1 .. Len(s) - 1 :
                 RemoveAt(s, i)[j] = IF j < i THEN s[j] ELSE s[j + 1]
  <1> DEFINE a == SubSeq(s, 1, i - 1)
             c == SubSeq(s, i + 1, Len(s))
  <1>1. a \in Seq(S) /\ Len(a) = i - 1 /\ \A j \in 1 .. i - 1 : a[j] = s[j]
    OBVIOUS
  <1>2. c \in Seq(S) /\ Len(c) = Len(s) - i
        /\ \A j \in 1 .. Len(s) - i : c[j] = s[i + j]
    OBVIOUS
  <1>3. RemoveAt(s, i) = a \o c
    BY DEF RemoveAt
  <1> HIDE DEF a, c
  <1>4. /\ a \o c \in Seq(S)
        /\ Len(a \o c) = Len(a) + Len(c)
        /\ \A j \in 1 .. Len(a) + Len(c) :
              (a \o c)[j] = IF j <= Len(a) THEN a[j] ELSE c[j - Len(a)]
    BY <1>1, <1>2, ConcatProperties
  <1>5. ASSUME NEW j \in 1 .. Len(s) - 1
        PROVE  (a \o c)[j] = IF j < i THEN s[j] ELSE s[j + 1]
    <2>1. CASE j < i
      BY <1>1, <1>2, <1>4, <2>1
    <2>2. CASE ~(j < i)
      <3>1. j - (i - 1) \in 1 .. Len(s) - i /\ i + (j - (i - 1)) = j + 1
        BY <2>2
      <3>2. (a \o c)[j] = c[j - (i - 1)]
        BY <1>1, <1>2, <1>4, <2>2
      <3>3. c[j - (i - 1)] = s[i + (j - (i - 1))]
        BY <1>2, <3>1
      <3> QED
        BY <2>2, <3>1, <3>2, <3>3
    <2> QED
      BY <2>1, <2>2
  <1> QED
    BY <1>1, <1>2, <1>3, <1>4, <1>5

\* What MarkBlockAsReceived leaves of a list without repetitions.
LEMMA EraseProperties ==
    ASSUME NEW S, NEW s \in Seq(S), NoRepeat(s), NEW b, Occurs(s, b)
    PROVE  /\ Erase(s, b) \in Seq(S)
           /\ Len(Erase(s, b)) = Len(s) - 1
           /\ NoRepeat(Erase(s, b))
           /\ \A e : Occurs(Erase(s, b), e) <=> Occurs(s, e) /\ e # b
  <1> DEFINE i == Position(s, b)
             r == RemoveAt(s, i)
  <1>1. i \in 1 .. Len(s) /\ s[i] = b
    BY DEF Position, Occurs
  <1>2. /\ r \in Seq(S)
        /\ Len(r) = Len(s) - 1
        /\ \A j \in 1 .. Len(s) - 1 : r[j] = IF j < i THEN s[j] ELSE s[j + 1]
    BY <1>1, RemoveAtElements
  <1>3. Erase(s, b) = r
    BY DEF Erase
  <1> HIDE DEF i, r
  <1>4. NoRepeat(r)
    BY <1>1, <1>2, SMTT(20) DEF NoRepeat
  <1>5. ASSUME NEW e, Occurs(r, e)
        PROVE  Occurs(s, e) /\ e # b
    <2>1. PICK j \in 1 .. Len(s) - 1 : r[j] = e
      BY <1>2, <1>5 DEF Occurs
    <2>2. PICK k \in 1 .. Len(s) : k # i /\ s[k] = e
      <3>1. CASE j < i
        BY <1>1, <1>2, <2>1, <3>1
      <3>2. CASE ~(j < i)
        BY <1>1, <1>2, <2>1, <3>2
      <3> QED
        BY <3>1, <3>2
    <2> QED
      BY <1>1, <2>2 DEF Occurs, NoRepeat
  <1>6. ASSUME NEW e, Occurs(s, e), e # b
        PROVE  Occurs(r, e)
    <2>1. PICK k \in 1 .. Len(s) : s[k] = e
      BY <1>6 DEF Occurs
    <2>2. CASE k < i
      BY <1>1, <1>2, <2>1, <2>2 DEF Occurs
    <2>3. CASE k > i
      <3>1. k - 1 \in 1 .. Len(s) - 1 /\ ~(k - 1 < i) /\ (k - 1) + 1 = k
        BY <1>1, <2>1, <2>3
      <3>2. r[k - 1] = e
        BY <1>1, <1>2, <2>1, <3>1
      <3> QED
        BY <1>2, <3>1, <3>2 DEF Occurs
    <2> QED
      BY <1>1, <1>6, <2>1, <2>2, <2>3
  <1> QED
    BY <1>2, <1>3, <1>4, <1>5, <1>6

\* What appending a block that is not in the list does to it.
LEMMA AppendBlock ==
    ASSUME NEW S, NEW s \in Seq(S), NoRepeat(s), NEW b \in S, ~Occurs(s, b)
    PROVE  /\ Append(s, b) \in Seq(S)
           /\ Len(Append(s, b)) = Len(s) + 1
           /\ NoRepeat(Append(s, b))
           /\ \A e : Occurs(Append(s, b), e) <=> Occurs(s, e) \/ e = b
  <1> DEFINE r == Append(s, b)
  <1>1. /\ r \in Seq(S)
        /\ Len(r) = Len(s) + 1
        /\ \A j \in 1 .. Len(s) : r[j] = s[j]
        /\ r[Len(s) + 1] = b
    BY AppendProperties
  <1> HIDE DEF r
  <1>2. NoRepeat(r)
    BY <1>1 DEF NoRepeat, Occurs
  <1>3. \A e : Occurs(r, e) <=> Occurs(s, e) \/ e = b
    BY <1>1 DEF Occurs
  <1> QED
    BY <1>1, <1>2, <1>3 DEF r

\* What the request loop of SendMessages does to the queue: the first k blocks
\* and the rest share nothing and together are the queue.
LEMMA SplitQueue ==
    ASSUME NEW S, NEW s \in Seq(S), NoRepeat(s), NEW k \in 0 .. Len(s)
    PROVE  LET a == SubSeq(s, 1, k)
               r == SubSeq(s, k + 1, Len(s))
           IN  /\ a \in Seq(S) /\ Len(a) = k /\ NoRepeat(a)
               /\ r \in Seq(S) /\ Len(r) = Len(s) - k /\ NoRepeat(r)
               /\ \A e : Occurs(a, e) => Occurs(s, e)
               /\ \A e : Occurs(r, e) <=> Occurs(s, e) /\ ~Occurs(a, e)
  <1> DEFINE a == SubSeq(s, 1, k)
             r == SubSeq(s, k + 1, Len(s))
  <1>1. /\ a \in Seq(S) /\ Len(a) = k
        /\ \A j \in 1 .. k : a[j] = s[j]
    OBVIOUS
  <1>2. /\ r \in Seq(S) /\ Len(r) = Len(s) - k
        /\ \A j \in 1 .. Len(s) - k : r[j] = s[k + j]
    OBVIOUS
  <1> HIDE DEF a, r
  <1>3. NoRepeat(a) /\ NoRepeat(r)
    <2>1. NoRepeat(a)
      BY <1>1 DEF NoRepeat
    <2>2. ASSUME NEW i \in DOMAIN r, NEW j \in DOMAIN r, r[i] = r[j]
          PROVE  i = j
      <3>1. /\ i \in 1 .. Len(s) - k /\ j \in 1 .. Len(s) - k
            /\ k + i \in 1 .. Len(s) /\ k + j \in 1 .. Len(s)
        BY <1>2, SMTT(20)
      <3>2. s[k + i] = s[k + j]
        BY <1>2, <2>2, <3>1
      <3>3. k + i = k + j
        BY <3>1, <3>2 DEF NoRepeat
      <3> QED
        BY <3>1, <3>3
    <2> QED
      BY <2>1, <2>2 DEF NoRepeat
  <1>4. \A e : Occurs(a, e) => Occurs(s, e)
    BY <1>1 DEF Occurs
  <1>5. ASSUME NEW e, Occurs(r, e)
        PROVE  Occurs(s, e) /\ ~Occurs(a, e)
    <2>1. PICK j \in 1 .. Len(s) - k : s[k + j] = e
      BY <1>2, <1>5 DEF Occurs
    <2>2. k + j \in 1 .. Len(s)
      OBVIOUS
    <2>3. ASSUME NEW i \in 1 .. k, a[i] = e
          PROVE  FALSE
      <3>1. s[i] = e /\ i \in 1 .. Len(s) /\ i # k + j
        BY <1>1, <2>3
      <3> QED
        BY <2>1, <2>2, <3>1 DEF NoRepeat
    <2> QED
      BY <1>1, <2>1, <2>2, <2>3 DEF Occurs
  <1>6. ASSUME NEW e, Occurs(s, e), ~Occurs(a, e)
        PROVE  Occurs(r, e)
    <2>1. PICK j \in 1 .. Len(s) : s[j] = e
      BY <1>6 DEF Occurs
    <2>2. j > k
      BY <1>1, <1>6, <2>1 DEF Occurs
    <2>3. j - k \in 1 .. Len(s) - k /\ k + (j - k) = j
      BY <2>2
    <2>4. r[j - k] = e
      BY <1>2, <2>1, <2>3
    <2> QED
      BY <1>2, <2>3, <2>4 DEF Occurs
  <1> QED
    BY <1>1, <1>2, <1>3, <1>4, <1>5, <1>6 DEF a, r

\* What appending the requested blocks does to the list of blocks in flight.
LEMMA ConcatBlocks ==
    ASSUME NEW S, NEW s \in Seq(S), NEW a \in Seq(S), NoRepeat(s), NoRepeat(a),
           \A e : ~(Occurs(s, e) /\ Occurs(a, e))
    PROVE  /\ s \o a \in Seq(S)
           /\ Len(s \o a) = Len(s) + Len(a)
           /\ NoRepeat(s \o a)
           /\ \A e : Occurs(s \o a, e) <=> Occurs(s, e) \/ Occurs(a, e)
  <1> DEFINE c == s \o a
  <1>1. /\ c \in Seq(S)
        /\ Len(c) = Len(s) + Len(a)
        /\ \A j \in 1 .. Len(s) + Len(a) :
              c[j] = IF j <= Len(s) THEN s[j] ELSE a[j - Len(s)]
    BY ConcatProperties
  <1> HIDE DEF c
  <1>2. \A j \in 1 .. Len(s) : j \in 1 .. Len(c) /\ c[j] = s[j]
    BY <1>1
  <1>3. ASSUME NEW j \in 1 .. Len(a)
        PROVE  Len(s) + j \in 1 .. Len(c) /\ c[Len(s) + j] = a[j]
    <2>1. Len(s) + j \in 1 .. Len(s) + Len(a) /\ ~(Len(s) + j <= Len(s))
          /\ (Len(s) + j) - Len(s) = j
      OBVIOUS
    <2> QED
      BY <1>1, <2>1
  <1>4. ASSUME NEW j \in 1 .. Len(c)
        PROVE  \/ j \in 1 .. Len(s) /\ c[j] = s[j]
               \/ \E k \in 1 .. Len(a) : j = Len(s) + k /\ c[j] = a[k]
    <2>1. CASE j <= Len(s)
      BY <1>1, <2>1
    <2>2. CASE ~(j <= Len(s))
      <3>1. j - Len(s) \in 1 .. Len(a) /\ j = Len(s) + (j - Len(s))
        BY <1>1, <2>2
      <3>2. c[j] = a[j - Len(s)]
        BY <1>1, <2>2
      <3> QED
        BY <3>1, <3>2
    <2> QED
      BY <2>1, <2>2
  <1>5. \A e : Occurs(c, e) <=> Occurs(s, e) \/ Occurs(a, e)
    <2>1. ASSUME NEW e, Occurs(c, e)
          PROVE  Occurs(s, e) \/ Occurs(a, e)
      <3>1. PICK j \in 1 .. Len(c) : c[j] = e
        BY <1>1, <2>1 DEF Occurs
      <3>2. CASE j \in 1 .. Len(s) /\ c[j] = s[j]
        BY <3>1, <3>2 DEF Occurs
      <3>3. ASSUME NEW k \in 1 .. Len(a), c[j] = a[k]
            PROVE  Occurs(a, e)
        BY <3>1, <3>3 DEF Occurs
      <3> QED
        BY <1>4, <3>2, <3>3
    <2>2. ASSUME NEW e, Occurs(s, e)
          PROVE  Occurs(c, e)
      BY <1>1, <1>2, <2>2 DEF Occurs
    <2>3. ASSUME NEW e, Occurs(a, e)
          PROVE  Occurs(c, e)
      <3>1. PICK j \in 1 .. Len(a) : a[j] = e
        BY <2>3 DEF Occurs
      <3>2. Len(s) + j \in 1 .. Len(c) /\ c[Len(s) + j] = e
        BY <1>3, <3>1
      <3> QED
        BY <1>1, <3>2, SMTT(20) DEF Occurs
    <2> QED
      BY <2>1, <2>2, <2>3
  <1>6. /\ \A i, j \in 1 .. Len(s) : s[i] = s[j] => i = j
        /\ \A i, j \in 1 .. Len(a) : a[i] = a[j] => i = j
        /\ \A i \in 1 .. Len(s), j \in 1 .. Len(a) : s[i] # a[j]
    BY DEF NoRepeat, Occurs
  <1>7. ASSUME NEW i \in 1 .. Len(c), NEW j \in 1 .. Len(c), c[i] = c[j]
        PROVE  i = j
    <2>1. CASE i \in 1 .. Len(s) /\ c[i] = s[i]
      <3>1. CASE j \in 1 .. Len(s) /\ c[j] = s[j]
        BY <1>6, <1>7, <2>1, <3>1
      <3>2. ASSUME NEW k \in 1 .. Len(a), c[j] = a[k]
            PROVE  FALSE
        BY <1>6, <1>7, <2>1, <3>2
      <3> QED
        BY <1>4, <3>1, <3>2
    <2>2. ASSUME NEW k \in 1 .. Len(a), i = Len(s) + k, c[i] = a[k]
          PROVE  i = j
      <3>1. CASE j \in 1 .. Len(s) /\ c[j] = s[j]
        BY <1>6, <1>7, <2>2, <3>1
      <3>2. ASSUME NEW l \in 1 .. Len(a), j = Len(s) + l, c[j] = a[l]
            PROVE  k = l
        BY <1>6, <1>7, <2>2, <3>2
      <3> QED
        BY <1>4, <2>2, <3>1, <3>2
    <2> QED
      BY <1>4, <2>1, <2>2
  <1> QED
    BY <1>1, <1>5, <1>7 DEF NoRepeat, c
-----------------------------------------------------------------------------
(* Lemmas about the three views of an assignment: lists, counters, map.      *)

ListTypes(list, count, map) ==
    /\ list \in [Peer -> Seq(Block)]
    /\ count \in [Peer -> Int]
    /\ map \in [Block -> Peer \cup {NoPeer}]

\* MarkBlockAsReceived keeps the three views in agreement.
LEMMA EraseAgrees ==
    ASSUME NEW list, NEW count, NEW map, ListTypes(list, count, map),
           ListsAgree(list, count, map),
           NEW b \in Block, NEW p \in Peer, map[b] = p
    PROVE  LET l == [list EXCEPT ![p] = Erase(@, b)]
               c == [count EXCEPT ![p] = @ - 1]
               m == [map EXCEPT ![b] = NoPeer]
           IN  /\ ListTypes(l, c, m)
               /\ ListsAgree(l, c, m)
               /\ \A q \in Peer : Len(l[q]) <= Len(list[q])
  <1> DEFINE l == [list EXCEPT ![p] = Erase(@, b)]
             c == [count EXCEPT ![p] = @ - 1]
             m == [map EXCEPT ![b] = NoPeer]
  <1> USE DownloadAssumption DEF ListTypes
  <1>1. list[p] \in Seq(Block) /\ NoRepeat(list[p]) /\ Occurs(list[p], b)
    BY DEF ListsAgree
  <1>2. /\ Erase(list[p], b) \in Seq(Block)
        /\ Len(Erase(list[p], b)) = Len(list[p]) - 1
        /\ NoRepeat(Erase(list[p], b))
        /\ \A e : Occurs(Erase(list[p], b), e) <=> Occurs(list[p], e) /\ e # b
    BY <1>1, EraseProperties
  <1>3. ListTypes(l, c, m)
    BY <1>2
  <1>4. \A q \in Peer : NoRepeat(l[q]) /\ c[q] = Len(l[q])
    BY <1>1, <1>2 DEF ListsAgree
  <1>5. \A q \in Peer : Len(l[q]) <= Len(list[q])
    BY <1>1, <1>2
  <1>6. ASSUME NEW q \in Peer, NEW e \in Block
        PROVE  Occurs(l[q], e) <=> m[e] = q
    BY <1>2, NoPeer \notin Peer DEF ListsAgree
  <1> QED
    BY <1>3, <1>4, <1>5, <1>6 DEF ListsAgree

\* AddBlockToQueue keeps the three views in agreement.
LEMMA AppendAgrees ==
    ASSUME NEW list, NEW count, NEW map, ListTypes(list, count, map),
           ListsAgree(list, count, map),
           NEW b \in Block, NEW p \in Peer, map[b] = NoPeer
    PROVE  LET l == [list EXCEPT ![p] = Append(@, b)]
               c == [count EXCEPT ![p] = @ + 1]
               m == [map EXCEPT ![b] = p]
           IN  ListTypes(l, c, m) /\ ListsAgree(l, c, m)
  <1> DEFINE l == [list EXCEPT ![p] = Append(@, b)]
             c == [count EXCEPT ![p] = @ + 1]
             m == [map EXCEPT ![b] = p]
  <1> USE DownloadAssumption DEF ListTypes
  <1>1. \A q \in Peer : ~Occurs(list[q], b)
    BY DEF ListsAgree
  <1>2. list[p] \in Seq(Block) /\ NoRepeat(list[p])
    BY DEF ListsAgree
  <1>3. /\ Append(list[p], b) \in Seq(Block)
        /\ Len(Append(list[p], b)) = Len(list[p]) + 1
        /\ NoRepeat(Append(list[p], b))
        /\ \A e : Occurs(Append(list[p], b), e) <=> Occurs(list[p], e) \/ e = b
    BY <1>1, <1>2, AppendBlock
  <1>4. ListTypes(l, c, m)
    BY <1>3
  <1>5. \A q \in Peer : NoRepeat(l[q]) /\ c[q] = Len(l[q])
    BY <1>2, <1>3 DEF ListsAgree
  <1>6. ASSUME NEW q \in Peer, NEW e \in Block
        PROVE  Occurs(l[q], e) <=> m[e] = q
    BY <1>1, <1>3 DEF ListsAgree
  <1> QED
    BY <1>4, <1>5, <1>6 DEF ListsAgree

\* FinalizeNode keeps the three views in agreement.
ReleaseOf(list, count, map, p) ==
    LET l == [list EXCEPT ![p] = << >>]
        c == [count EXCEPT ![p] = 0]
        m == Released(map, list[p])
    IN  /\ ListTypes(l, c, m)
        /\ ListsAgree(l, c, m)
        /\ \A b \in Block : m[b] = IF map[b] = p THEN NoPeer ELSE map[b]

LEMMA ReleaseAgrees ==
    ASSUME NEW list, NEW count, NEW map, ListTypes(list, count, map),
           ListsAgree(list, count, map), NEW p \in Peer
    PROVE  ReleaseOf(list, count, map, p)
  <1> DEFINE l == [list EXCEPT ![p] = << >>]
             c == [count EXCEPT ![p] = 0]
             m == Released(map, list[p])
  <1> USE DownloadAssumption DEF ListTypes
  <1>1. \A b \in Block : m[b] = IF map[b] = p THEN NoPeer ELSE map[b]
    BY DEF ListsAgree, Released, ToSet, Occurs
  <1>2. ListTypes(l, c, m)
    BY DEF Released
  <1>3. \A q \in Peer : NoRepeat(l[q]) /\ c[q] = Len(l[q])
    BY DEF ListsAgree, NoRepeat
  <1>4. ASSUME NEW q \in Peer, NEW e \in Block
        PROVE  Occurs(l[q], e) <=> m[e] = q
    BY <1>1 DEF ListsAgree, Occurs
  <1> HIDE DEF l, c, m
  <1> QED
    BY <1>1, <1>2, <1>3, <1>4 DEF ListsAgree, ReleaseOf, l, c, m
\* The request loop takes the first k blocks out of a queue ...
DequeueOf(list, count, map, p, a) ==
    LET l == [list EXCEPT ![p] = SubSeq(@, Len(a) + 1, Len(@))]
        c == [count EXCEPT ![p] = @ - Len(a)]
        m == Released(map, a)
    IN  /\ ListTypes(l, c, m)
        /\ ListsAgree(l, c, m)
        /\ \A b \in Block : m[b] = IF Occurs(a, b) THEN NoPeer ELSE map[b]

LEMMA DequeueAgrees ==
    ASSUME NEW list, NEW count, NEW map, ListTypes(list, count, map),
           ListsAgree(list, count, map),
           NEW p \in Peer, NEW k \in 0 .. Len(list[p])
    PROVE  LET a == SubSeq(list[p], 1, k)
           IN  /\ DequeueOf(list, count, map, p, a)
               /\ a \in Seq(Block) /\ Len(a) = k /\ NoRepeat(a)
               /\ \A b \in Block : Occurs(a, b) => map[b] = p
  <1> DEFINE a == SubSeq(list[p], 1, k)
             r == SubSeq(list[p], k + 1, Len(list[p]))
             l == [list EXCEPT ![p] = r]
             c == [count EXCEPT ![p] = @ - k]
             m == Released(map, a)
  <1> USE DownloadAssumption DEF ListTypes
  <1>1. list[p] \in Seq(Block) /\ NoRepeat(list[p])
    BY DEF ListsAgree
  <1>2. /\ a \in Seq(Block) /\ Len(a) = k /\ NoRepeat(a)
        /\ r \in Seq(Block) /\ Len(r) = Len(list[p]) - k /\ NoRepeat(r)
        /\ \A e : Occurs(a, e) => Occurs(list[p], e)
        /\ \A e : Occurs(r, e) <=> Occurs(list[p], e) /\ ~Occurs(a, e)
    BY <1>1, SplitQueue
  <1> HIDE DEF a, r
  <1>3. \A b \in Block : m[b] = IF Occurs(a, b) THEN NoPeer ELSE map[b]
    BY DEF Released, ToSet, Occurs
  <1>4. \A b \in Block : Occurs(a, b) => map[b] = p
    BY <1>2 DEF ListsAgree
  <1>5. ListTypes(l, c, m)
    BY <1>2 DEF Released
  <1>6. \A q \in Peer : NoRepeat(l[q]) /\ c[q] = Len(l[q])
    BY <1>1, <1>2 DEF ListsAgree
  <1>7. ASSUME NEW q \in Peer, NEW e \in Block
        PROVE  Occurs(l[q], e) <=> m[e] = q
    BY <1>2, <1>3, <1>4 DEF ListsAgree
  <1>8. ListsAgree(l, c, m)
    BY <1>6, <1>7 DEF ListsAgree
  <1>9. /\ l = [list EXCEPT ![p] = SubSeq(@, Len(a) + 1, Len(@))]
        /\ c = [count EXCEPT ![p] = @ - Len(a)]
    BY <1>2 DEF r
  <1> HIDE DEF l, c, m
  <1> QED
    BY <1>2, <1>3, <1>4, <1>5, <1>8, <1>9 DEF DequeueOf, a, m

\* ... and puts them in flight.
EnqueueOf(list, count, map, p, a) ==
    LET l == [list EXCEPT ![p] = InFlightAfter(@, a)]
        c == [count EXCEPT ![p] = @ + Len(a)]
        m == [b \in Block |-> IF b \in ToSet(a) THEN p ELSE map[b]]
    IN  /\ ListTypes(l, c, m)
        /\ ListsAgree(l, c, m)
        /\ \A q \in Peer : Len(l[q]) =
              IF q = p THEN Len(list[p]) + Len(a) ELSE Len(list[q])
        /\ \A b \in Block : m[b] = IF Occurs(a, b) THEN p ELSE map[b]

LEMMA EnqueueAgrees ==
    ASSUME NEW list, NEW count, NEW map, ListTypes(list, count, map),
           ListsAgree(list, count, map),
           NEW p \in Peer, NEW a \in Seq(Block), NoRepeat(a),
           \A b \in Block : Occurs(a, b) => map[b] = NoPeer
    PROVE  EnqueueOf(list, count, map, p, a)
  <1> DEFINE t == InFlightAfter(list[p], a)
             l == [list EXCEPT ![p] = t]
             c == [count EXCEPT ![p] = @ + Len(a)]
             m == [b \in Block |-> IF b \in ToSet(a) THEN p ELSE map[b]]
  <1> USE DownloadAssumption DEF ListTypes
  <1>1. list[p] \in Seq(Block) /\ NoRepeat(list[p])
    BY DEF ListsAgree
  <1>2. ASSUME NEW e, Occurs(list[p], e), Occurs(a, e)
        PROVE  FALSE
    <2>1. e \in Block
      BY <1>2 DEF Occurs
    <2> QED
      BY <1>2, <2>1 DEF ListsAgree
  <1>3. /\ t \in Seq(Block)
        /\ Len(t) = Len(list[p]) + Len(a)
        /\ NoRepeat(t)
        /\ \A e : Occurs(t, e) <=> Occurs(list[p], e) \/ Occurs(a, e)
    BY <1>1, <1>2, ConcatBlocks DEF InFlightAfter
  <1> HIDE DEF t
  <1>4. \A b \in Block : m[b] = IF Occurs(a, b) THEN p ELSE map[b]
    BY DEF ToSet, Occurs
  <1>5. ListTypes(l, c, m)
    BY <1>3
  <1>6. ASSUME NEW q \in Peer
        PROVE  NoRepeat(l[q]) /\ c[q] = Len(l[q])
    <2>1. CASE q = p
      <3>1. l[q] = t /\ c[q] = count[p] + Len(a) /\ count[p] = Len(list[p])
        BY <2>1 DEF ListsAgree
      <3> QED
        BY <1>3, <3>1
    <2>2. CASE q # p
      BY <2>2 DEF ListsAgree
    <2> QED
      BY <2>1, <2>2
  <1>7. ASSUME NEW q \in Peer, NEW e \in Block
        PROVE  Occurs(l[q], e) <=> m[e] = q
    BY <1>3, <1>4 DEF ListsAgree
  <1>8. \A q \in Peer : Len(l[q]) =
           IF q = p THEN Len(list[p]) + Len(a) ELSE Len(list[q])
    BY <1>3
  <1>9. ListsAgree(l, c, m)
    BY <1>6, <1>7 DEF ListsAgree
  <1> HIDE DEF l, c, m
  <1> QED
    BY <1>4, <1>5, <1>8, <1>9 DEF EnqueueOf, l, c, m, t
-----------------------------------------------------------------------------
(* The inductive invariant.                                                  *)

OtherTypes ==
    /\ conn \in [Peer -> {"new", "up", "closing", "deleted"}]
    /\ fVersion \in [Peer -> BOOLEAN]
    /\ turn \in Turn
    /\ banned \subseteq Peer
    /\ nTime \in [Block -> Stamp]
    /\ nLastBlockReceive \in [Peer -> Stamp]
    /\ nLastBlockProcess \in [Peer -> Stamp]
    /\ nMisbehavior \in [Peer -> Nat]
    /\ fShouldBan \in [Peer -> BOOLEAN]
    /\ have \subseteq Block

Queues ==
    /\ ListTypes(vBlocksToDownload, nBlocksToDownload, mapBlocksToDownload)
    /\ ListsAgree(vBlocksToDownload, nBlocksToDownload, mapBlocksToDownload)

InFlight ==
    /\ ListTypes(vBlocksInFlight, nBlocksInFlight, mapBlocksInFlight)
    /\ ListsAgree(vBlocksInFlight, nBlocksInFlight, mapBlocksInFlight)

Inv ==
    /\ OtherTypes
    /\ Queues
    /\ InFlight
    /\ NoDanglingPeer
    /\ OneAssignment
    /\ TransitBound

\* The conjuncts of Inv are the invariants of BlockDownload, regrouped.
LEMMA InvMeaning ==
    Inv <=> TypeOK /\ QueuesAgree /\ NoDanglingPeer /\ OneAssignment
            /\ TransitBound
  BY DEF Inv, OtherTypes, Queues, InFlight, TypeOK, QueuesAgree, ListTypes

LEMMA InitInv == Init => Inv
  <1> SUFFICES ASSUME Init PROVE Inv
    OBVIOUS
  <1> USE DownloadAssumption DEF Init
  <1>1. OtherTypes
    BY DEF OtherTypes, Turn, Stamp, Now, Idle
  <1>2. Queues /\ InFlight
    BY DEF Queues, InFlight, ListTypes, ListsAgree, NoRepeat, Occurs
  <1>3. NoDanglingPeer /\ OneAssignment
    BY DEF NoDanglingPeer, OneAssignment
  <1>4. TransitBound
    BY DEF TransitBound
  <1> QED
    BY <1>1, <1>2, <1>3, <1>4 DEF Inv

\* Penalties leave the score well typed.
LEMMA MisbehavingTypes ==
    ASSUME NEW p \in Peer, NEW n \in Nat, OtherTypes, Misbehaving(p, n)
    PROVE  nMisbehavior' \in [Peer -> Nat] /\ fShouldBan' \in [Peer -> BOOLEAN]
  BY DownloadAssumption DEF OtherTypes, Misbehaving

\* MarkBlockAsReceived takes the block out of both maps and disturbs no other.
LEMMA MarkReceived ==
    ASSUME NEW b \in Block, NEW from \in Peer, Inv, MarkBlockAsReceived(b, from)
    PROVE  /\ Queues' /\ InFlight'
           /\ nTime' \in [Block -> Stamp]
           /\ nLastBlockReceive' \in [Peer -> Stamp]
           /\ \A e \in Block :
                 /\ mapBlocksToDownload'[e] \in {mapBlocksToDownload[e], NoPeer}
                 /\ mapBlocksInFlight'[e] \in {mapBlocksInFlight[e], NoPeer}
           /\ \A q \in Peer :
                 Len(vBlocksInFlight'[q]) <= Len(vBlocksInFlight[q])
  <1> USE DownloadAssumption DEF MarkBlockAsReceived
  <1>1. /\ Queues'
        /\ \A e \in Block :
              mapBlocksToDownload'[e] \in {mapBlocksToDownload[e], NoPeer}
    <2>1. CASE mapBlocksToDownload[b] = NoPeer
      BY <2>1 DEF Inv, Queues, queueVars
    <2>2. CASE mapBlocksToDownload[b] # NoPeer
      <3> DEFINE p == mapBlocksToDownload[b]
      <3>1. p \in Peer
        BY <2>2 DEF Inv, Queues, ListTypes
      <3>2. /\ vBlocksToDownload' =
                   [vBlocksToDownload EXCEPT ![p] = Erase(@, b)]
            /\ nBlocksToDownload' = [nBlocksToDownload EXCEPT ![p] = @ - 1]
            /\ mapBlocksToDownload' = [mapBlocksToDownload EXCEPT ![b] = NoPeer]
        BY <2>2
      <3>3. Queues'
        BY <3>1, <3>2, EraseAgrees DEF Inv, Queues
      <3> QED
        BY <3>2, <3>3 DEF Inv, Queues, ListTypes
    <2> QED
      BY <2>1, <2>2
  <1>2. /\ InFlight'
        /\ nTime' \in [Block -> Stamp]
        /\ nLastBlockReceive' \in [Peer -> Stamp]
        /\ \A e \in Block :
              mapBlocksInFlight'[e] \in {mapBlocksInFlight[e], NoPeer}
        /\ \A q \in Peer :
              Len(vBlocksInFlight'[q]) <= Len(vBlocksInFlight[q])
    <2>1. CASE mapBlocksInFlight[b] = NoPeer
      <3>1. UNCHANGED <<inFlightVars, nLastBlockReceive>>
        BY <2>1
      <3>2. \A q \in Peer : Len(vBlocksInFlight[q]) \in Nat
        BY DEF Inv, InFlight, ListTypes
      <3> QED
        BY <3>1, <3>2 DEF Inv, InFlight, OtherTypes, inFlightVars
    <2>2. CASE mapBlocksInFlight[b] # NoPeer
      <3> DEFINE p == mapBlocksInFlight[b]
      <3>1. p \in Peer
        BY <2>2 DEF Inv, InFlight, ListTypes
      <3>2. /\ vBlocksInFlight' = [vBlocksInFlight EXCEPT ![p] = Erase(@, b)]
            /\ nBlocksInFlight' = [nBlocksInFlight EXCEPT ![p] = @ - 1]
            /\ mapBlocksInFlight' = [mapBlocksInFlight EXCEPT ![b] = NoPeer]
            /\ nTime' = [nTime EXCEPT ![b] = -Horizon]
            /\ nLastBlockReceive' = IF p = from
                                    THEN [nLastBlockReceive EXCEPT ![p] = Now]
                                    ELSE nLastBlockReceive
        BY <2>2
      <3>3. /\ InFlight'
            /\ \A q \in Peer :
                  Len(vBlocksInFlight'[q]) <= Len(vBlocksInFlight[q])
        BY <3>1, <3>2, EraseAgrees DEF Inv, InFlight
      <3>4. nTime' \in [Block -> Stamp] /\ nLastBlockReceive' \in [Peer -> Stamp]
        BY <3>2 DEF Inv, OtherTypes, Stamp, Now
      <3> QED
        BY <3>2, <3>3, <3>4 DEF Inv, InFlight, ListTypes
    <2> QED
      BY <2>1, <2>2
  <1> QED
    BY <1>1, <1>2
\* A step that leaves the queues and the blocks in flight alone, and drops no
\* peer that is live, keeps the invariant.
LEMMA QuietStep ==
    ASSUME Inv, OtherTypes',
           UNCHANGED <<queueVars, vBlocksInFlight, nBlocksInFlight,
                       mapBlocksInFlight>>,
           \A p \in Peer : Live(p) => Live(p)'
    PROVE  Inv'
  <1> USE DEF queueVars
  <1>1. Queues' /\ InFlight'
    BY DEF Inv, Queues, InFlight, ListTypes, ListsAgree
  <1>2. NoDanglingPeer' /\ OneAssignment' /\ TransitBound'
    BY DownloadAssumption DEF Inv, Queues, InFlight, ListTypes, NoDanglingPeer, OneAssignment, TransitBound
  <1> QED
    BY <1>1, <1>2 DEF Inv

LEMMA FinalizeInv ==
    ASSUME Inv, NEW p \in Peer, FinalizeNode(p)
    PROVE  Inv'
  <1> USE DownloadAssumption
  <1>1. OtherTypes'
    BY DEF FinalizeNode, Inv, OtherTypes, Stamp, Now
  <1>2. /\ Queues'
        /\ \A b \in Block : mapBlocksToDownload'[b] =
              IF mapBlocksToDownload[b] = p THEN NoPeer ELSE mapBlocksToDownload[b]
    <2>1. /\ vBlocksToDownload' = [vBlocksToDownload EXCEPT ![p] = << >>]
          /\ nBlocksToDownload' = [nBlocksToDownload EXCEPT ![p] = 0]
          /\ mapBlocksToDownload' =
                 Released(mapBlocksToDownload, vBlocksToDownload[p])
      BY DEF FinalizeNode
    <2>2. /\ ListTypes(vBlocksToDownload, nBlocksToDownload, mapBlocksToDownload)
          /\ ListsAgree(vBlocksToDownload, nBlocksToDownload, mapBlocksToDownload)
      BY DEF Inv, Queues
    <2> HIDE DownloadAssumption
    <2>3. ReleaseOf(vBlocksToDownload, nBlocksToDownload, mapBlocksToDownload, p)
      BY <2>2, ReleaseAgrees
    <2> QED
      BY <2>1, <2>3 DEF ReleaseOf, Queues
  <1>3. /\ InFlight'
        /\ \A b \in Block : mapBlocksInFlight'[b] =
              IF mapBlocksInFlight[b] = p THEN NoPeer ELSE mapBlocksInFlight[b]
    <2>1. /\ vBlocksInFlight' = [vBlocksInFlight EXCEPT ![p] = << >>]
          /\ nBlocksInFlight' = [nBlocksInFlight EXCEPT ![p] = 0]
          /\ mapBlocksInFlight' = Released(mapBlocksInFlight, vBlocksInFlight[p])
      BY DEF FinalizeNode
    <2>2. /\ ListTypes(vBlocksInFlight, nBlocksInFlight, mapBlocksInFlight)
          /\ ListsAgree(vBlocksInFlight, nBlocksInFlight, mapBlocksInFlight)
      BY DEF Inv, InFlight
    <2> HIDE DownloadAssumption
    <2>3. ReleaseOf(vBlocksInFlight, nBlocksInFlight, mapBlocksInFlight, p)
      BY <2>2, ReleaseAgrees
    <2> QED
      BY <2>1, <2>3 DEF ReleaseOf, InFlight
  <1>4. \A q \in Peer \ {p} : Live(q) => Live(q)'
    BY DEF FinalizeNode, Live, Inv, OtherTypes
  <1>5. NoDanglingPeer'
    BY <1>2, <1>3, <1>4 DEF Inv, NoDanglingPeer, Queues, InFlight, ListTypes
  <1>6. OneAssignment'
    BY <1>2, <1>3 DEF Inv, OneAssignment
  <1>7. TransitBound'
    BY DEF FinalizeNode, Inv, TransitBound, InFlight, ListTypes
  <1> QED
    BY <1>1, <1>2, <1>3, <1>5, <1>6, <1>7 DEF Inv

LEMMA HandleInvInv ==
    ASSUME Inv, NEW p \in Peer, NEW b \in Block, HandleInv(p, b)
    PROVE  Inv'
  <1> USE DownloadAssumption DEF HandleInv, Handle
  <1>1. Live(p)
    OBVIOUS
  <1>2. CASE UNCHANGED <<queueVars, scoreVars>>
    <2>1. OtherTypes'
      BY <1>2 DEF Inv, OtherTypes, scoreVars, stampVars, inFlightVars, Turn
    <2> QED
      BY <1>1, <1>2, <2>1, QuietStep DEF inFlightVars, Live
  <1>3. CASE /\ mapBlocksToDownload[b] = NoPeer /\ mapBlocksInFlight[b] = NoPeer
             /\ Queue(p, b)
    <2>1. Queues'
      BY <1>3, AppendAgrees DEF Inv, Queues, Queue
    <2>2. InFlight'
      BY DEF Inv, InFlight, inFlightVars
    <2>3. PICK n \in Nat : Misbehaving(p, n)
      BY <1>3 DEF Queue
    <2>4. nMisbehavior' \in [Peer -> Nat] /\ fShouldBan' \in [Peer -> BOOLEAN]
      BY <2>3, MisbehavingTypes DEF Inv
    <2>5. OtherTypes'
      BY <2>4 DEF Inv, OtherTypes, stampVars, inFlightVars, Turn
    <2>6. NoDanglingPeer'
      BY <1>1, <1>3 DEF Inv, NoDanglingPeer, Queue, inFlightVars, Live, Queues, ListTypes
    <2>7. OneAssignment'
      BY <1>3 DEF Inv, OneAssignment, Queue, inFlightVars, Queues, ListTypes
    <2>8. TransitBound'
      BY DEF Inv, TransitBound, inFlightVars
    <2> QED
      BY <1>1, <2>1, <2>2, <2>5, <2>6, <2>7, <2>8 DEF Inv
  <1> QED
    BY <1>2, <1>3 DEF AddBlockToQueue

LEMMA HandleBlockInv ==
    ASSUME Inv, NEW p \in Peer, NEW b \in Block, NEW kept \in BOOLEAN,
           NEW evicted \in SUBSET have, NEW howmuch \in DoS,
           HandleBlock(p, b, kept, evicted, howmuch)
    PROVE  Inv'
  <1> USE DownloadAssumption DEF HandleBlock, Handle
  <1>2. /\ Queues' /\ InFlight'
        /\ nTime' \in [Block -> Stamp]
        /\ nLastBlockReceive' \in [Peer -> Stamp]
        /\ \A e \in Block :
              /\ mapBlocksToDownload'[e] \in {mapBlocksToDownload[e], NoPeer}
              /\ mapBlocksInFlight'[e] \in {mapBlocksInFlight[e], NoPeer}
        /\ \A q \in Peer :
              Len(vBlocksInFlight'[q]) <= Len(vBlocksInFlight[q])
    BY MarkReceived
  <1>3. nMisbehavior' \in [Peer -> Nat] /\ fShouldBan' \in [Peer -> BOOLEAN]
    BY MisbehavingTypes DEF Inv
  <1>4. OtherTypes'
    BY <1>2, <1>3 DEF Inv, OtherTypes, Turn
  <1>5. NoDanglingPeer' /\ OneAssignment'
    BY <1>2 DEF Inv, NoDanglingPeer, OneAssignment, Live
  <1>6. TransitBound'
    <2>1. \A q \in Peer : Len(vBlocksInFlight[q]) \in Nat
                          /\ Len(vBlocksInFlight'[q]) \in Nat
      BY <1>2 DEF Inv, InFlight, ListTypes
    <2> QED
      BY <1>2, <2>1 DEF Inv, TransitBound
  <1> QED
    BY <1>2, <1>4, <1>5, <1>6 DEF Inv
LEMMA SendMessagesInv ==
    ASSUME Inv, NEW p \in Peer, SendMessages(p)
    PROVE  Inv'
  <1> USE DownloadAssumption
  <1>1. turn' = Idle
    BY DEF SendMessages
  <1>3. CASE ~fVersion[p]
    <2>1. /\ UNCHANGED <<conn, banned, queueVars, inFlightVars,
                         nLastBlockReceive, fShouldBan>>
          /\ UNCHANGED <<fVersion, nLastBlockProcess, nMisbehavior, have>>
      BY <1>3 DEF SendMessages
    <2>2. OtherTypes'
      BY <1>1, <2>1 DEF Inv, OtherTypes, Turn, inFlightVars
    <2> QED
      BY <2>1, <2>2, QuietStep DEF inFlightVars, Live
  <1>4. CASE fVersion[p]
    <2> DEFINE ban == fShouldBan[p] /\ p \notin LocalPeer
               open == conn[p] = "up" /\ ~ban
               stalled == open /\ Stalls(p)
               asked == IF open /\ ~stalled THEN Requests(p) ELSE << >>
    <2>1. /\ fShouldBan' = [fShouldBan EXCEPT ![p] = FALSE]
          /\ banned' = IF ban THEN banned \cup {p} ELSE banned
          /\ conn' = IF ban \/ stalled THEN [conn EXCEPT ![p] = "closing"]
                     ELSE conn
          /\ nTime' = [b \in Block |->
                 IF b \in ToSet(asked) THEN Now ELSE nTime[b]]
          /\ nLastBlockReceive' = IF asked # << >> /\ nBlocksInFlight[p] = 0
                                  THEN [nLastBlockReceive EXCEPT ![p] = Now]
                                  ELSE nLastBlockReceive
          /\ UNCHANGED <<fVersion, nLastBlockProcess, nMisbehavior, have>>
      BY <1>4 DEF SendMessages
    <2>2. /\ vBlocksToDownload' = [vBlocksToDownload EXCEPT
                 ![p] = SubSeq(@, Len(asked) + 1, Len(@))]
          /\ nBlocksToDownload' = [nBlocksToDownload EXCEPT ![p] = @ - Len(asked)]
          /\ mapBlocksToDownload' = Released(mapBlocksToDownload, asked)
      BY <1>4 DEF SendMessages
    <2>3. /\ vBlocksInFlight' =
                 [vBlocksInFlight EXCEPT ![p] = InFlightAfter(@, asked)]
          /\ nBlocksInFlight' = [nBlocksInFlight EXCEPT ![p] = @ + Len(asked)]
          /\ mapBlocksInFlight' = [b \in Block |->
                 IF b \in ToSet(asked) THEN p ELSE mapBlocksInFlight[b]]
      BY <1>4 DEF SendMessages
    <2>4. /\ ListTypes(vBlocksToDownload, nBlocksToDownload, mapBlocksToDownload)
          /\ ListsAgree(vBlocksToDownload, nBlocksToDownload, mapBlocksToDownload)
          /\ ListTypes(vBlocksInFlight, nBlocksInFlight, mapBlocksInFlight)
          /\ ListsAgree(vBlocksInFlight, nBlocksInFlight, mapBlocksInFlight)
      BY DEF Inv, Queues, InFlight
    <2>5. PICK k \in 0 .. Len(vBlocksToDownload[p]) :
             /\ asked = SubSeq(vBlocksToDownload[p], 1, k)
             /\ Len(vBlocksInFlight[p]) + k <= MaxInTransit
      <3>1. /\ vBlocksToDownload[p] \in Seq(Block)
            /\ nBlocksToDownload[p] = Len(vBlocksToDownload[p])
            /\ Len(vBlocksToDownload[p]) \in Nat
            /\ nBlocksInFlight[p] = Len(vBlocksInFlight[p])
            /\ Len(vBlocksInFlight[p]) \in Nat
            /\ Len(vBlocksInFlight[p]) <= MaxInTransit
        BY <2>4 DEF ListTypes, ListsAgree, Inv, TransitBound
      <3>2. CASE open /\ ~stalled
        <4> DEFINE room == MaxInTransit - nBlocksInFlight[p]
                   n == IF nBlocksToDownload[p] < room
                        THEN nBlocksToDownload[p] ELSE room
        <4>1. /\ n \in 0 .. Len(vBlocksToDownload[p])
              /\ Len(vBlocksInFlight[p]) + n <= MaxInTransit
          BY <3>1
        <4>2. asked = SubSeq(vBlocksToDownload[p], 1, n)
          BY <3>2 DEF Requests
        <4> QED
          BY <4>1, <4>2
      <3>3. CASE ~(open /\ ~stalled)
        <4>1. asked = SubSeq(vBlocksToDownload[p], 1, 0)
          BY <3>1, <3>3, SubSeqEmpty
        <4>2. /\ 0 \in 0 .. Len(vBlocksToDownload[p])
              /\ Len(vBlocksInFlight[p]) + 0 <= MaxInTransit
          BY <3>1
        <4> HIDE DEF asked
        <4> QED
          BY <4>1, <4>2
      <3> QED
        BY <3>2, <3>3
    <2> HIDE DEF asked, ban, open, stalled
    <2>6. /\ DequeueOf(vBlocksToDownload, nBlocksToDownload, mapBlocksToDownload,
                       p, asked)
          /\ asked \in Seq(Block) /\ Len(asked) = k /\ NoRepeat(asked)
          /\ \A b \in Block : Occurs(asked, b) => mapBlocksToDownload[b] = p
      BY <2>4, <2>5, DequeueAgrees
    <2>7. \A b \in Block : Occurs(asked, b) => mapBlocksInFlight[b] = NoPeer
      BY <2>6 DEF Inv, OneAssignment
    <2>8. EnqueueOf(vBlocksInFlight, nBlocksInFlight, mapBlocksInFlight, p, asked)
      BY <2>4, <2>6, <2>7, EnqueueAgrees
    <2>9. /\ Queues'
          /\ \A b \in Block : mapBlocksToDownload'[b] =
                IF Occurs(asked, b) THEN NoPeer ELSE mapBlocksToDownload[b]
      BY <2>2, <2>6 DEF DequeueOf, Queues
    <2>10. /\ InFlight'
           /\ \A q \in Peer : Len(vBlocksInFlight'[q]) =
                 IF q = p THEN Len(vBlocksInFlight[p]) + Len(asked)
                 ELSE Len(vBlocksInFlight[q])
           /\ \A b \in Block : mapBlocksInFlight'[b] =
                 IF Occurs(asked, b) THEN p ELSE mapBlocksInFlight[b]
      BY <2>3, <2>8 DEF EnqueueOf, InFlight
    <2>11. OtherTypes'
      BY <1>1, <2>1 DEF Inv, OtherTypes, Turn, Stamp, Now
    <2>12. Live(p) /\ \A q \in Peer : Live(q) => Live(q)'
      BY <2>1 DEF SendMessages, Inv, OtherTypes, Live
    <2>13. NoDanglingPeer'
      BY <2>9, <2>10, <2>12 DEF Inv, NoDanglingPeer, Queues, InFlight, ListTypes
    <2>14. OneAssignment'
      BY <2>9, <2>10 DEF Inv, OneAssignment
    <2>15. TransitBound'
      BY <2>5, <2>6, <2>10 DEF Inv, TransitBound
    <2> QED
      BY <2>9, <2>10, <2>11, <2>13, <2>14, <2>15 DEF Inv
  <1> QED
    BY <1>3, <1>4

LEMMA NextInv == Inv /\ [Next]_vars => Inv'
  <1> SUFFICES ASSUME Inv, [Next]_vars
               PROVE  Inv'
    OBVIOUS
  <1> USE DownloadAssumption
  <1>1. ASSUME NEW p \in Peer, InitializeNode(p)
        PROVE  Inv'
    <2>1. OtherTypes'
      BY <1>1 DEF InitializeNode, Inv, OtherTypes, Live, inFlightVars, stampVars, scoreVars
    <2> QED
      BY <1>1, <2>1, QuietStep DEF InitializeNode, inFlightVars, Live, Inv, OtherTypes
  <1>2. ASSUME NEW p \in Peer, SocketClosed(p)
        PROVE  Inv'
    <2>1. OtherTypes'
      BY <1>2 DEF SocketClosed, Inv, OtherTypes, Live, inFlightVars, stampVars, scoreVars
    <2> QED
      BY <1>2, <2>1, QuietStep DEF SocketClosed, inFlightVars, Live, Inv, OtherTypes
  <1>3. ASSUME NEW p \in Peer, ReceiveMessage(p)
        PROVE  Inv'
    <2>1. OtherTypes'
      BY <1>3 DEF ReceiveMessage, Inv, OtherTypes, Live, inFlightVars, scoreVars, Turn, Stamp, Now
    <2> QED
      BY <1>3, <2>1, QuietStep DEF ReceiveMessage, inFlightVars, Live
  <1>4. ASSUME NEW p \in Peer, HandleVersion(p)
        PROVE  Inv'
    <2>1. OtherTypes'
      BY <1>4 DEF HandleVersion, Handle, Inv, OtherTypes, Live, inFlightVars, scoreVars, stampVars, Turn
    <2> QED
      BY <1>4, <2>1, QuietStep DEF HandleVersion, inFlightVars, Live
  <1>5. ASSUME NEW p \in Peer, NEW n \in DoS, HandleOther(p, n)
        PROVE  Inv'
    <2>1. nMisbehavior' \in [Peer -> Nat] /\ fShouldBan' \in [Peer -> BOOLEAN]
      BY <1>5, MisbehavingTypes DEF HandleOther, Inv
    <2>2. OtherTypes'
      BY <1>5, <2>1 DEF HandleOther, Handle, Inv, OtherTypes, Live, inFlightVars, stampVars, Turn
    <2> QED
      BY <1>5, <2>2, QuietStep DEF HandleOther, inFlightVars, Live
  <1>6. ASSUME NEW b \in Block, LocalAccept(b)
        PROVE  Inv'
    <2>1. OtherTypes'
      BY <1>6 DEF LocalAccept, nodeVars, Inv, OtherTypes, Live, inFlightVars, stampVars, scoreVars
    <2> QED
      BY <1>6, <2>1, QuietStep DEF LocalAccept, nodeVars, inFlightVars, Live
  <1>skip. ASSUME NEW p \in Peer, SkipSendMessages(p)
        PROVE  Inv'
    <2>1. OtherTypes'
      BY <1>skip DEF SkipSendMessages, Inv, OtherTypes, inFlightVars, scoreVars, stampVars, Turn
    <2> QED
      BY <1>skip, <2>1, QuietStep DEF SkipSendMessages, inFlightVars, Live
  <1>7. CASE Tick
    <2>1. \A t \in Stamp : Older(t) \in Stamp
      BY DEF Stamp, Now, Older
    <2>2. OtherTypes'
      BY <1>7, <2>1 DEF Tick, nodeVars, Inv, OtherTypes, Live, scoreVars
    <2> QED
      BY <1>7, <2>2, QuietStep DEF Tick, nodeVars, Live
  <1>8. CASE UNCHANGED vars
    <2>1. OtherTypes'
      BY <1>8 DEF vars, nodeVars, Inv, OtherTypes, Live, inFlightVars, stampVars, scoreVars
    <2> QED
      BY <1>8, <2>1, QuietStep DEF vars, nodeVars, inFlightVars, Live
  <1> QED
    BY <1>1, <1>2, <1>3, <1>4, <1>5, <1>6, <1>7, <1>8, <1>skip, FinalizeInv,
       HandleInvInv, HandleBlockInv, SendMessagesInv
    DEF Next, HandleMessage, InactivityTimeout

\* In every reachable state the scheduler's variables have their types, for any
\* set of peers, blocks and limits.
THEOREM TypeCorrect == Spec => []TypeOK
  <1>1. Inv => TypeOK
    BY InvMeaning
  <1> QED
    BY InitInv, NextInv, <1>1, PTL DEF Spec

\* The lists, the counters and the maps of the scheduler agree in every
\* reachable state: no iterator stored in a map is ever stale.
THEOREM QueuesAlwaysAgree == Spec => []QueuesAgree
  <1>1. Inv => QueuesAgree
    BY InvMeaning
  <1> QED
    BY InitInv, NextInv, <1>1, PTL DEF Spec

\* No map entry ever refers to a peer whose state FinalizeNode has dropped, also
\* when a node is deleted while the message handler still works on it.
THEOREM PeersStayLive == Spec => []NoDanglingPeer
  <1>1. Inv => NoDanglingPeer
    BY InvMeaning
  <1> QED
    BY InitInv, NextInv, <1>1, PTL DEF Spec

\* A block is never queued and in flight at once, and no peer ever has more than
\* MaxInTransit requests open.
THEOREM RequestsBounded == Spec => [](OneAssignment /\ TransitBound)
  <1>1. Inv => OneAssignment /\ TransitBound
    BY InvMeaning
  <1> QED
    BY InitInv, NextInv, <1>1, PTL DEF Spec
-----------------------------------------------------------------------------
(* The order of the requests.                                                *)

\* A list whose elements carry ascending time stamps.
InOrder(s, time) ==
    \A i, j \in DOMAIN s : i < j => time[s[i]] <= time[s[j]]

\* Erasing an element keeps the others in order, if their stamps are kept.
LEMMA EraseInOrder ==
    ASSUME NEW s \in Seq(Block), NEW b, Occurs(s, b), NoRepeat(s),
           NEW time \in [Block -> Int], NEW after \in [Block -> Int],
           InOrder(s, time), \A e \in Block \ {b} : after[e] = time[e]
    PROVE  InOrder(Erase(s, b), after)
  <1> DEFINE i == Position(s, b)
             r == RemoveAt(s, i)
  <1>1. i \in 1 .. Len(s) /\ s[i] = b
    BY DEF Position, Occurs
  <1>2. /\ r \in Seq(Block)
        /\ Len(r) = Len(s) - 1
        /\ \A j \in 1 .. Len(s) - 1 : r[j] = IF j < i THEN s[j] ELSE s[j + 1]
    BY <1>1, RemoveAtElements
  <1>3. Erase(s, b) = r
    BY DEF Erase
  <1> HIDE DEF i, r
  <1>dom. /\ DOMAIN r = 1 .. Len(s) - 1
        /\ DOMAIN s = 1 .. Len(s)
        /\ Len(s) \in Nat
    BY <1>2
  <1> DEFINE Old(j) == IF j < i THEN j ELSE j + 1
  <1>4. ASSUME NEW j \in DOMAIN r
        PROVE  /\ Old(j) \in DOMAIN s /\ Old(j) # i
               /\ r[j] = s[Old(j)] /\ r[j] \in Block \ {b}
    <2>1. j \in 1 .. Len(s) - 1
      BY <1>dom
    <2>2. Old(j) \in 1 .. Len(s) /\ Old(j) # i /\ r[j] = s[Old(j)]
      <3>1. i \in Nat /\ j \in Nat
        BY <1>1, <2>1
      <3>2. CASE j < i
        <4>1. r[j] = s[j]
          BY <1>2, <2>1, <3>2
        <4>2. j \in 1 .. Len(s)
          BY <1>dom, <2>1
        <4>3. Old(j) = j /\ j # i
          BY <3>1, <3>2
        <4> QED
          BY <4>1, <4>2, <4>3
      <3>3. CASE ~(j < i)
        <4>1. r[j] = s[j + 1] /\ Old(j) = j + 1
          BY <1>2, <2>1, <3>3
        <4>2. j + 1 \in 1 .. Len(s)
          BY <1>dom, <2>1, SMTT(20)
        <4>3. j + 1 # i
          BY <3>1, <3>3
        <4> QED
          BY <4>1, <4>2, <4>3
      <3> QED
        BY <3>2, <3>3
    <2> HIDE DEF Old
    <2>3. s[Old(j)] # s[i] /\ s[Old(j)] \in Block
      <3>1. \A k \in 1 .. Len(s) : s[k] = s[i] => k = i
        BY <1>1, <1>dom DEF NoRepeat
      <3>2. s[Old(j)] # s[i]
        BY <2>2, <3>1
      <3>3. s[Old(j)] \in Block
        BY <2>2
      <3> QED
        BY <3>2, <3>3
    <2>4. Old(j) \in DOMAIN s
      BY <1>dom, <2>2
    <2>5. r[j] \in Block /\ r[j] # b
      BY <1>1, <2>2, <2>3
    <2> QED
      BY <2>2, <2>4, <2>5
  <1>5. ASSUME NEW j \in DOMAIN r, NEW k \in DOMAIN r, j < k
        PROVE  after[r[j]] <= after[r[k]]
    <2>1. Old(j) < Old(k)
      <3>1. i \in Nat /\ j \in Nat /\ k \in Nat
        BY <1>1, <1>dom, SMTT(20)
      <3> QED
        BY <1>5, <3>1
    <2> HIDE DEF Old
    <2>2. time[s[Old(j)]] <= time[s[Old(k)]]
      BY <1>4, <2>1 DEF InOrder
    <2>3. after[r[j]] = time[s[Old(j)]] /\ after[r[k]] = time[s[Old(k)]]
      BY <1>4
    <2> QED
      BY <2>2, <2>3
  <1> QED
    BY <1>3, <1>5 DEF InOrder

\* New requests go behind the old ones and carry the latest stamp.
LEMMA AppendInOrder ==
    ASSUME NEW s \in Seq(Block), NEW a \in Seq(Block),
           NEW time \in [Block -> Stamp], InOrder(s, time),
           \A e : ~(Occurs(s, e) /\ Occurs(a, e))
    PROVE  InOrder(s \o a,
                   [e \in Block |-> IF e \in ToSet(a) THEN Now ELSE time[e]])
  <1> DEFINE c == s \o a
             after == [e \in Block |-> IF e \in ToSet(a) THEN Now ELSE time[e]]
  <1>1. /\ c \in Seq(Block)
        /\ Len(c) = Len(s) + Len(a)
        /\ \A j \in 1 .. Len(s) + Len(a) :
              c[j] = IF j <= Len(s) THEN s[j] ELSE a[j - Len(s)]
    BY ConcatProperties
  <1> HIDE DEF c
  <1>2. ASSUME NEW j \in DOMAIN c, j <= Len(s)
        PROVE  j \in DOMAIN s /\ c[j] = s[j] /\ after[c[j]] = time[s[j]]
               /\ time[s[j]] <= Now /\ time[s[j]] \in Int
    <2>1. j \in DOMAIN s /\ c[j] = s[j] /\ s[j] \in Block
      BY <1>1, <1>2
    <2>2. s[j] \notin ToSet(a)
      BY <2>1 DEF Occurs, ToSet
    <2> QED
      BY <2>1, <2>2 DEF Stamp, Now
  <1>3. ASSUME NEW j \in DOMAIN c, ~(j <= Len(s))
        PROVE  after[c[j]] = Now
    <2>1. j - Len(s) \in DOMAIN a /\ c[j] = a[j - Len(s)]
      BY <1>1, <1>3
    <2>2. c[j] \in ToSet(a) /\ c[j] \in Block
      BY <2>1 DEF ToSet
    <2> QED
      BY <2>2
  <1> HIDE DEF after
  <1>4. ASSUME NEW j \in DOMAIN c, NEW k \in DOMAIN c, j < k
        PROVE  after[c[j]] <= after[c[k]]
    <2>0. j \in Nat /\ k \in Nat /\ Len(s) \in Nat
      BY <1>1
    <2>1. CASE k <= Len(s)
      <3>1. j <= Len(s)
        BY <1>4, <2>0, <2>1
      <3>2. after[c[j]] = time[s[j]] /\ after[c[k]] = time[s[k]]
            /\ j \in DOMAIN s /\ k \in DOMAIN s
        BY <1>2, <2>1, <3>1
      <3> QED
        BY <1>4, <3>2 DEF InOrder
    <2>2. CASE ~(k <= Len(s))
      <3>1. after[c[k]] = Now
        BY <1>3, <2>2
      <3>2. after[c[j]] = Now \/ (after[c[j]] <= Now /\ after[c[j]] \in Int)
        BY <1>2, <1>3
      <3> QED
        BY <3>1, <3>2 DEF Now
    <2> QED
      BY <2>1, <2>2
  <1> QED
    BY <1>4 DEF InOrder, c, after

\* Ageing the stamps keeps their order, also where they stop at Horizon.
LEMMA OlderMonotone ==
    ASSUME NEW t \in Stamp, NEW u \in Stamp, t <= u
    PROVE  Older(t) <= Older(u)
  BY DownloadAssumption DEF Older, Stamp, Now

\* What SendMessages asks of a peer: blocks that were in flight nowhere.
LEMMA SendMessagesRequests ==
    ASSUME Inv, NEW p \in Peer, SendMessages(p), fVersion[p]
    PROVE  \E asked \in Seq(Block) :
              /\ \A b \in Block : Occurs(asked, b) => mapBlocksInFlight[b] = NoPeer
              /\ vBlocksInFlight' =
                     [vBlocksInFlight EXCEPT ![p] = InFlightAfter(@, asked)]
              /\ nTime' = [b \in Block |->
                     IF b \in ToSet(asked) THEN Now ELSE nTime[b]]
  <1> USE DownloadAssumption
  <1> DEFINE open == conn[p] = "up" /\ ~(fShouldBan[p] /\ p \notin LocalPeer)
             stalled == open /\ Stalls(p)
             asked == IF open /\ ~stalled THEN Requests(p) ELSE << >>
  <1>1. /\ vBlocksInFlight' =
               [vBlocksInFlight EXCEPT ![p] = InFlightAfter(@, asked)]
        /\ nTime' = [b \in Block |-> IF b \in ToSet(asked) THEN Now ELSE nTime[b]]
    BY DEF SendMessages
  <1>2. /\ vBlocksToDownload[p] \in Seq(Block)
        /\ ListTypes(vBlocksToDownload, nBlocksToDownload, mapBlocksToDownload)
        /\ ListsAgree(vBlocksToDownload, nBlocksToDownload, mapBlocksToDownload)
        /\ nBlocksToDownload[p] = Len(vBlocksToDownload[p])
        /\ nBlocksInFlight[p] = Len(vBlocksInFlight[p])
        /\ vBlocksInFlight[p] \in Seq(Block)
        /\ Len(vBlocksInFlight[p]) <= MaxInTransit
    BY DEF Inv, Queues, InFlight, ListTypes, ListsAgree, TransitBound
  <1>3. PICK k \in 0 .. Len(vBlocksToDownload[p]) :
           asked = SubSeq(vBlocksToDownload[p], 1, k)
    <2>1. CASE open /\ ~stalled
      <3> DEFINE room == MaxInTransit - nBlocksInFlight[p]
                 n == IF nBlocksToDownload[p] < room
                      THEN nBlocksToDownload[p] ELSE room
      <3>1. n \in 0 .. Len(vBlocksToDownload[p])
        BY <1>2
      <3>2. asked = SubSeq(vBlocksToDownload[p], 1, n)
        BY <2>1 DEF Requests
      <3> QED
        BY <3>1, <3>2
    <2>2. CASE ~(open /\ ~stalled)
      <3>1. asked = SubSeq(vBlocksToDownload[p], 1, 0)
        BY <1>2, <2>2, SubSeqEmpty
      <3>2. 0 \in 0 .. Len(vBlocksToDownload[p])
        BY <1>2
      <3> HIDE DEF asked
      <3> QED
        BY <3>1, <3>2
    <2> QED
      BY <2>1, <2>2
  <1> HIDE DEF asked, open, stalled
  <1>4. /\ asked \in Seq(Block)
        /\ \A b \in Block : Occurs(asked, b) => mapBlocksToDownload[b] = p
    BY <1>2, <1>3, DequeueAgrees
  <1>5. \A b \in Block : Occurs(asked, b) => mapBlocksInFlight[b] = NoPeer
    BY <1>4 DEF Inv, OneAssignment
  <1> QED
    BY <1>1, <1>4, <1>5

\* An element of a peer's list is in flight from that peer alone.
LEMMA InFlightOnce ==
    ASSUME Inv, NEW p \in Peer, NEW i \in DOMAIN vBlocksInFlight[p]
    PROVE  /\ vBlocksInFlight[p][i] \in Block
           /\ mapBlocksInFlight[vBlocksInFlight[p][i]] = p
  <1>1. vBlocksInFlight[p] \in Seq(Block)
    BY DEF Inv, InFlight, ListTypes
  <1>2. vBlocksInFlight[p][i] \in Block
    BY <1>1
  <1> QED
    BY <1>2 DEF Inv, InFlight, ListsAgree, Occurs

\* A list and the stamps of its blocks left alone stay in order.
LEMMA OrderKept ==
    ASSUME Inv, FrontIsOldest, NEW p \in Peer,
           vBlocksInFlight'[p] = vBlocksInFlight[p],
           \A b \in Block : mapBlocksInFlight[b] = p => nTime'[b] = nTime[b]
    PROVE  InOrder(vBlocksInFlight'[p], nTime')
  <1>1. InOrder(vBlocksInFlight[p], nTime)
    BY DEF FrontIsOldest, InOrder
  <1>2. \A i \in DOMAIN vBlocksInFlight[p] :
           nTime'[vBlocksInFlight[p][i]] = nTime[vBlocksInFlight[p][i]]
    BY InFlightOnce
  <1> QED
    BY <1>1, <1>2 DEF InOrder

LEMMA OrderInductive == Inv /\ FrontIsOldest /\ [Next]_vars => FrontIsOldest'
  <1> SUFFICES ASSUME Inv, FrontIsOldest, [Next]_vars, NEW q \in Peer
               PROVE  InOrder(vBlocksInFlight'[q], nTime')
    BY DEF FrontIsOldest, InOrder
  <1> USE DownloadAssumption
  <1>0. /\ InOrder(vBlocksInFlight[q], nTime)
        /\ vBlocksInFlight \in [Peer -> Seq(Block)]
        /\ nTime \in [Block -> Stamp]
        /\ nTime \in [Block -> Int]
    BY DEF FrontIsOldest, InOrder, Inv, InFlight, ListTypes, OtherTypes, Stamp
  <1>1. CASE UNCHANGED <<vBlocksInFlight, nTime>>
    BY <1>1, OrderKept
  <1>2. ASSUME NEW p \in Peer, FinalizeNode(p)
        PROVE  InOrder(vBlocksInFlight'[q], nTime')
    <2>1. /\ vBlocksInFlight' = [vBlocksInFlight EXCEPT ![p] = << >>]
          /\ nTime' = [b \in Block |-> IF b \in ToSet(vBlocksInFlight[p])
                                       THEN -Horizon ELSE nTime[b]]
      BY <1>2 DEF FinalizeNode
    <2>2. CASE q = p
      BY <1>0, <2>1, <2>2 DEF InOrder
    <2>3. CASE q # p
      <3>1. \A b \in Block : mapBlocksInFlight[b] = q => b \notin ToSet(vBlocksInFlight[p])
        BY <2>3, InFlightOnce DEF ToSet
      <3>2. \A b \in Block : mapBlocksInFlight[b] = q => nTime'[b] = nTime[b]
        BY <2>1, <3>1
      <3>3. vBlocksInFlight'[q] = vBlocksInFlight[q]
        BY <1>0, <2>1, <2>3
      <3> QED
        BY <3>2, <3>3, OrderKept
    <2> QED
      BY <2>2, <2>3
  <1>3. ASSUME NEW p \in Peer, NEW b \in Block, MarkBlockAsReceived(b, p)
        PROVE  InOrder(vBlocksInFlight'[q], nTime')
    <2>1. CASE mapBlocksInFlight[b] = NoPeer
      BY <1>1, <1>3, <2>1 DEF MarkBlockAsReceived, inFlightVars
    <2>2. CASE mapBlocksInFlight[b] # NoPeer
      <3> DEFINE r == mapBlocksInFlight[b]
      <3>1. /\ vBlocksInFlight' = [vBlocksInFlight EXCEPT ![r] = Erase(@, b)]
            /\ nTime' = [nTime EXCEPT ![b] = -Horizon]
        BY <1>3, <2>2 DEF MarkBlockAsReceived
      <3>2. r \in Peer
        BY <2>2 DEF Inv, InFlight, ListTypes
      <3>3. \A e \in Block \ {b} : nTime'[e] = nTime[e]
        BY <1>0, <3>1
      <3>4. CASE q = r
        <4>1. Occurs(vBlocksInFlight[q], b) /\ NoRepeat(vBlocksInFlight[q])
          BY <3>4 DEF Inv, InFlight, ListsAgree
        <4>2. nTime' \in [Block -> Int]
          BY <1>0, <3>1
        <4>3. vBlocksInFlight'[q] = Erase(vBlocksInFlight[q], b)
          BY <1>0, <3>1, <3>4
        <4>4. InOrder(Erase(vBlocksInFlight[q], b), nTime')
          <5> HIDE DEF r
          <5>1. vBlocksInFlight[q] \in Seq(Block)
            BY <1>0
          <5> QED
            BY <1>0, <3>3, <4>1, <4>2, <5>1, EraseInOrder
        <4> QED
          BY <4>3, <4>4
      <3>5. CASE q # r
        <4>1. vBlocksInFlight'[q] = vBlocksInFlight[q]
          BY <1>0, <3>1, <3>5
        <4> QED
          BY <3>3, <3>5, <4>1, OrderKept
      <3> QED
        BY <3>4, <3>5
    <2> QED
      BY <2>1, <2>2
  <1>4. ASSUME NEW p \in Peer, SendMessages(p)
        PROVE  InOrder(vBlocksInFlight'[q], nTime')
    <2>1. CASE ~fVersion[p]
      BY <1>1, <1>4, <2>1 DEF SendMessages, inFlightVars
    <2>2. CASE fVersion[p]
      <3>1. PICK asked \in Seq(Block) :
               /\ \A b \in Block : Occurs(asked, b) => mapBlocksInFlight[b] = NoPeer
               /\ vBlocksInFlight' =
                      [vBlocksInFlight EXCEPT ![p] = InFlightAfter(@, asked)]
               /\ nTime' = [b \in Block |->
                      IF b \in ToSet(asked) THEN Now ELSE nTime[b]]
        BY <1>4, <2>2, SendMessagesRequests
      <3>2. CASE q = p
        <4>1. ASSUME NEW e, Occurs(vBlocksInFlight[q], e), Occurs(asked, e)
              PROVE  FALSE
          <5>1. e \in Block /\ mapBlocksInFlight[e] = q
            BY <4>1, InFlightOnce DEF Occurs
          <5> QED
            BY <3>1, <4>1, <5>1
        <4>2. vBlocksInFlight'[q] = vBlocksInFlight[q] \o asked
          BY <1>0, <3>1, <3>2 DEF InFlightAfter
        <4>3. vBlocksInFlight[q] \in Seq(Block)
          BY <1>0
        <4>4. \A e : ~(Occurs(vBlocksInFlight[q], e) /\ Occurs(asked, e))
          BY <4>1
        <4>5. InOrder(vBlocksInFlight[q] \o asked,
                      [b \in Block |-> IF b \in ToSet(asked) THEN Now ELSE nTime[b]])
          BY <1>0, <4>3, <4>4, AppendInOrder
        <4> QED
          BY <3>1, <4>2, <4>5
      <3>3. CASE q # p
        <4>1. vBlocksInFlight'[q] = vBlocksInFlight[q]
          BY <1>0, <3>1, <3>3
        <4>2. \A b \in Block : mapBlocksInFlight[b] = q => ~Occurs(asked, b)
          BY <3>1
        <4>3. \A b \in Block : mapBlocksInFlight[b] = q => nTime'[b] = nTime[b]
          BY <3>1, <4>2 DEF Occurs, ToSet
        <4> QED
          BY <4>1, <4>3, OrderKept
      <3> QED
        BY <3>2, <3>3
    <2> QED
      BY <2>1, <2>2
  <1>5. CASE Tick
    <2>1. /\ vBlocksInFlight' = vBlocksInFlight
          /\ nTime' = [b \in Block |-> Older(nTime[b])]
      BY <1>5 DEF Tick
    <2>2. ASSUME NEW i \in DOMAIN vBlocksInFlight[q],
                 NEW j \in DOMAIN vBlocksInFlight[q], i < j
          PROVE  nTime'[vBlocksInFlight[q][i]] <= nTime'[vBlocksInFlight[q][j]]
      <3>1. vBlocksInFlight[q][i] \in Block /\ vBlocksInFlight[q][j] \in Block
        BY InFlightOnce
      <3>2. nTime[vBlocksInFlight[q][i]] <= nTime[vBlocksInFlight[q][j]]
        BY <1>0, <2>2 DEF InOrder
      <3>3. nTime[vBlocksInFlight[q][i]] \in Stamp /\ nTime[vBlocksInFlight[q][j]] \in Stamp
        BY <1>0, <3>1
      <3> QED
        BY <2>1, <3>1, <3>2, <3>3, OlderMonotone
    <2> QED
      BY <2>1, <2>2 DEF InOrder
  <1>6. ASSUME NEW p \in Peer,
               InitializeNode(p) \/ SocketClosed(p) \/ InactivityTimeout(p)
               \/ ReceiveMessage(p) \/ HandleVersion(p)
               \/ (\E n \in DoS : HandleOther(p, n))
               \/ (\E b \in Block : HandleInv(p, b))
               \/ SkipSendMessages(p)
        PROVE  UNCHANGED <<vBlocksInFlight, nTime>>
    BY <1>6 DEF InitializeNode, SocketClosed, InactivityTimeout, ReceiveMessage,
                HandleVersion, HandleOther, HandleInv, SkipSendMessages,
                inFlightVars
  <1>7. ASSUME \/ \E b \in Block : LocalAccept(b)
               \/ UNCHANGED vars
        PROVE  UNCHANGED <<vBlocksInFlight, nTime>>
    BY <1>7 DEF LocalAccept, inFlightVars, vars
  <1> QED
    BY <1>1, <1>2, <1>3, <1>4, <1>5, <1>6, <1>7 DEF Next, HandleMessage, HandleBlock

\* The stall test of SendMessages reads the front of the list only: in every
\* reachable state that is the oldest request, whatever was received, erased and
\* requested in between.
THEOREM FrontAlwaysOldest == Spec => []FrontIsOldest
  <1>1. Init => FrontIsOldest
    BY DEF Init, FrontIsOldest
  <1> QED
    BY InitInv, NextInv, OrderInductive, <1>1, PTL DEF Spec
=============================================================================
