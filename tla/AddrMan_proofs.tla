--------------------------- MODULE AddrMan_proofs ---------------------------
(* The tables of CAddrMan agree for any services, hosts, sources, buckets    *)
(* and limits: what Check_() tests holds between any two operations.         *)
EXTENDS AddrMan, FiniteSetTheorems, TLAPS

Ids(m) == DOMAIN m.mapInfo
HostAt(m, id) == HostOf[m.mapInfo[id].svc]
NewOf(m) == {id \in Ids(m) : ~ m.mapInfo[id].fInTried}
TriedOf(m) == {id \in Ids(m) : m.mapInfo[id].fInTried}

\* The fields of CAddrMan.  The counters may be negative here, as an operation
\* decrements before it increments.
Object ==
    [nIdCount : Nat, mapInfo : UNION {[S -> Entry] : S \in SUBSET Nat},
     mapAddr : UNION {[H -> Nat] : H \in SUBSET Host}, vRandom : Seq(Nat),
     nNew : Int, vvNew : [NewBuckets -> SUBSET Nat],
     nTried : Int, vvTried : [TriedBuckets -> Seq(Nat)]]

\* mapAddr and vRandom are the entries, by host and in some order.
Indexed(m) ==
    /\ m \in Object
    /\ Ids(m) \subseteq 0 .. m.nIdCount - 1
    /\ DOMAIN m.mapAddr = {HostAt(m, id) : id \in Ids(m)}
    /\ \A id \in Ids(m) : m.mapAddr[HostAt(m, id)] = id
    /\ \A id \in Ids(m) : /\ m.mapInfo[id].nRandomPos \in 1 .. Len(m.vRandom)
                          /\ m.vRandom[m.mapInfo[id].nRandomPos] = id
    /\ \A p \in 1 .. Len(m.vRandom) : /\ m.vRandom[p] \in Ids(m)
                                      /\ m.mapInfo[m.vRandom[p]].nRandomPos = p

\* The new buckets hold the entries of N and each counts its buckets.
NewTable(m, N) ==
    /\ \A b \in NewBuckets : m.vvNew[b] \subseteq N
    /\ \A b \in NewBuckets : Cardinality(m.vvNew[b]) <= NewBucketSize
    /\ \A id \in N : /\ IsFiniteSet(BucketsOf(m, id))
                     /\ m.mapInfo[id].nRefCount = Cardinality(BucketsOf(m, id))
                     /\ m.mapInfo[id].nRefCount \in 1 .. NewPerAddress
    /\ m.nNew = Cardinality(N)

\* The tried buckets hold the entries of T, each once and in its own bucket.
TriedTable(m, T) ==
    /\ \A k \in TriedBuckets :
        /\ Len(m.vvTried[k]) <= TriedBucketSize
        /\ \A p \in 1 .. Len(m.vvTried[k]) :
              /\ m.vvTried[k][p] \in T
              /\ TriedBucketOf[m.mapInfo[m.vvTried[k][p]].svc] = k
        /\ \A p, q \in 1 .. Len(m.vvTried[k]) : m.vvTried[k][p] = m.vvTried[k][q] => p = q
    /\ \A id \in T :
        /\ m.mapInfo[id].nRefCount = 0
        /\ \E p \in 1 .. Len(m.vvTried[TriedBucketOf[m.mapInfo[id].svc]]) :
              m.vvTried[TriedBucketOf[m.mapInfo[id].svc]][p] = id
    /\ m.nTried = Cardinality(T)

InOrder(m) == Indexed(m) /\ NewTable(m, NewOf(m)) /\ TriedTable(m, TriedOf(m))

\* What Add_ has of an entry that is about to join bucket b: its reference is
\* counted already.
Joining(m, x, b) ==
    /\ Indexed(m) /\ TriedTable(m, TriedOf(m))
    /\ x \in NewOf(m) /\ b \in NewBuckets /\ x \notin m.vvNew[b]
    /\ \A c \in NewBuckets : m.vvNew[c] \subseteq NewOf(m)
    /\ \A c \in NewBuckets : Cardinality(m.vvNew[c]) <= NewBucketSize
    /\ \A id \in NewOf(m) : /\ IsFiniteSet(BucketsOf(m, id))
                            /\ m.mapInfo[id].nRefCount = Cardinality(BucketsOf(m, id))
                                                         + (IF id = x THEN 1 ELSE 0)
                            /\ m.mapInfo[id].nRefCount \in 1 .. NewPerAddress
    /\ m.nNew = Cardinality(NewOf(m))

LEMMA EntryFields ==
    ASSUME NEW e \in Entry
    PROVE  /\ e.svc \in Svc /\ e.source \in Source /\ e.nRefCount \in Nat
           /\ e.fInTried \in BOOLEAN /\ e.nRandomPos \in Nat
  BY DEF Entry

LEMMA ObjectFields ==
    ASSUME NEW m \in Object
    PROVE  /\ m.nIdCount \in Nat /\ Ids(m) \subseteq Nat
           /\ m.mapInfo \in [Ids(m) -> Entry]
           /\ DOMAIN m.mapAddr \subseteq Host /\ m.mapAddr \in [DOMAIN m.mapAddr -> Nat]
           /\ m.vRandom \in Seq(Nat) /\ m.nNew \in Int /\ m.nTried \in Int
           /\ m.vvNew \in [NewBuckets -> SUBSET Nat]
           /\ m.vvTried \in [TriedBuckets -> Seq(Nat)]
<1>1. /\ m.nIdCount \in Nat /\ m.vRandom \in Seq(Nat) /\ m.nNew \in Int /\ m.nTried \in Int
      /\ m.vvNew \in [NewBuckets -> SUBSET Nat]
      /\ m.vvTried \in [TriedBuckets -> Seq(Nat)]
  BY DEF Object
<1>2. PICK S \in SUBSET Nat : m.mapInfo \in [S -> Entry]
  BY DEF Object
<1>3. PICK H \in SUBSET Host : m.mapAddr \in [H -> Nat]
  BY DEF Object
<1> QED
  BY <1>1, <1>2, <1>3 DEF Ids

-----------------------------------------------------------------------------
(* What the operations do to the fields.                                     *)

\* Only a reference count changes.
LEMMA RecountFields ==
    ASSUME NEW m \in Object, NEW id \in Ids(m), NEW n \in Nat
    PROVE  LET r == Recounted(m, id, n) IN
           /\ r \in Object /\ Ids(r) = Ids(m)
           /\ r.nIdCount = m.nIdCount /\ r.mapAddr = m.mapAddr /\ r.vRandom = m.vRandom
           /\ r.nNew = m.nNew /\ r.vvNew = m.vvNew
           /\ r.nTried = m.nTried /\ r.vvTried = m.vvTried
           /\ \A j \in Ids(m) :
                 /\ r.mapInfo[j].svc = m.mapInfo[j].svc
                 /\ r.mapInfo[j].source = m.mapInfo[j].source
                 /\ r.mapInfo[j].fInTried = m.mapInfo[j].fInTried
                 /\ r.mapInfo[j].nRandomPos = m.mapInfo[j].nRandomPos
                 /\ r.mapInfo[j].nRefCount = IF j = id THEN n ELSE m.mapInfo[j].nRefCount
<1> DEFINE r == Recounted(m, id, n)
           info == [m.mapInfo EXCEPT ![id].nRefCount = n]
<1>1. r = [m EXCEPT !.mapInfo = info]
  BY DEF Recounted
<1>2. m.mapInfo \in [Ids(m) -> Entry] /\ Ids(m) \in SUBSET Nat
  BY ObjectFields
<1>3. info \in [Ids(m) -> Entry]
  BY <1>2 DEF Entry
<1>4. \A j \in Ids(m) :
         /\ info[j].svc = m.mapInfo[j].svc
         /\ info[j].source = m.mapInfo[j].source
         /\ info[j].fInTried = m.mapInfo[j].fInTried
         /\ info[j].nRandomPos = m.mapInfo[j].nRandomPos
         /\ info[j].nRefCount = IF j = id THEN n ELSE m.mapInfo[j].nRefCount
  BY <1>2 DEF Entry
<1> HIDE DEF info
<1>5. info \in UNION {[S -> Entry] : S \in SUBSET Nat}
  BY <1>2, <1>3
<1>6. /\ r \in Object /\ r.mapInfo = info
      /\ r.nIdCount = m.nIdCount /\ r.mapAddr = m.mapAddr /\ r.vRandom = m.vRandom
      /\ r.nNew = m.nNew /\ r.vvNew = m.vvNew
      /\ r.nTried = m.nTried /\ r.vvTried = m.vvTried
  BY <1>1, <1>5 DEF Object
<1> HIDE DEF r
<1> QED
  BY <1>3, <1>4, <1>6 DEF r, Ids

\* Create gives the entry the next id and the last place of vRandom.
Created(m, r, svc, source) ==
    /\ r \in Object /\ Ids(r) = Ids(m) \cup {m.nIdCount}
    /\ r.nIdCount = m.nIdCount + 1
    /\ r.mapAddr = With(m.mapAddr, HostOf[svc], m.nIdCount)
    /\ r.vRandom = Append(m.vRandom, m.nIdCount)
    /\ r.nNew = m.nNew /\ r.vvNew = m.vvNew
    /\ r.nTried = m.nTried /\ r.vvTried = m.vvTried
    /\ \A j \in Ids(m) \ {m.nIdCount} : r.mapInfo[j] = m.mapInfo[j]
    /\ r.mapInfo[m.nIdCount].svc = svc
    /\ r.mapInfo[m.nIdCount].source = source
    /\ r.mapInfo[m.nIdCount].nRefCount = 0
    /\ r.mapInfo[m.nIdCount].fInTried = FALSE
    /\ r.mapInfo[m.nIdCount].nRandomPos = Len(m.vRandom) + 1

LEMMA CreateFields ==
    ASSUME NEW m \in Object, NEW svc \in Svc, NEW source \in Source
    PROVE  Created(m, Create(m, svc, source), svc, source)
<1> PICK n, r : n = m.nIdCount /\ r = Create(m, svc, source)
  OBVIOUS
<1> DEFINE e == [svc |-> svc, source |-> source, nRefCount |-> 0,
                 fInTried |-> FALSE, nRandomPos |-> Len(m.vRandom) + 1]
           info == With(m.mapInfo, n, e)
           addr == With(m.mapAddr, HostOf[svc], n)
           random == Append(m.vRandom, n)
<1>1. r = [m EXCEPT !.nIdCount = n + 1, !.mapInfo = info, !.mapAddr = addr, !.vRandom = random]
  BY DEF Create
<1>2. /\ n \in Nat /\ m.mapInfo \in [Ids(m) -> Entry] /\ Ids(m) \in SUBSET Nat
      /\ m.vRandom \in Seq(Nat) /\ Len(m.vRandom) \in Nat
      /\ DOMAIN m.mapAddr \subseteq Host /\ m.mapAddr \in [DOMAIN m.mapAddr -> Nat]
  BY ObjectFields
<1>3. HostOf[svc] \in Host
  BY AddrManAssumption
<1>4. e \in Entry
  BY <1>2 DEF Entry
<1>5. /\ info \in [Ids(m) \cup {n} -> Entry] /\ info[n] = e
      /\ \A j \in Ids(m) \ {n} : info[j] = m.mapInfo[j]
  <2> HIDE DEF e
  <2> QED
    BY <1>2, <1>4 DEF With, Ids
<1>6. addr \in [DOMAIN m.mapAddr \cup {HostOf[svc]} -> Nat]
  BY <1>2 DEF With
<1>7. random \in Seq(Nat)
  BY <1>2
<1>8. /\ e.svc = svc /\ e.source = source /\ e.nRefCount = 0 /\ e.fInTried = FALSE
      /\ e.nRandomPos = Len(m.vRandom) + 1
  OBVIOUS
<1> HIDE DEF info, addr, random, e
<1>9. info \in UNION {[S -> Entry] : S \in SUBSET Nat}
  BY <1>2, <1>5
<1>10. addr \in UNION {[S -> Nat] : S \in SUBSET Host}
  BY <1>2, <1>3, <1>6
<1>11. n + 1 \in Nat
  BY <1>2
<1>12. /\ r \in Object /\ r.mapInfo = info /\ r.nIdCount = n + 1
       /\ r.mapAddr = addr /\ r.vRandom = random
       /\ r.nNew = m.nNew /\ r.vvNew = m.vvNew
       /\ r.nTried = m.nTried /\ r.vvTried = m.vvTried
  BY <1>1, <1>7, <1>9, <1>10, <1>11 DEF Object
<1>13. Ids(r) = Ids(m) \cup {n}
  BY <1>5, <1>12 DEF Ids
<1> QED
  BY <1>5, <1>8, <1>12, <1>13 DEF addr, random, Created

\* A table of entries with one position changed.
LEMMA Repositioned ==
    ASSUME NEW S, NEW f \in [S -> Entry], NEW x \in S, NEW p \in Nat
    PROVE  LET g == [f EXCEPT ![x].nRandomPos = p] IN
           /\ g \in [S -> Entry]
           /\ \A y \in S :
                 /\ g[y].svc = f[y].svc /\ g[y].source = f[y].source
                 /\ g[y].fInTried = f[y].fInTried /\ g[y].nRefCount = f[y].nRefCount
                 /\ g[y].nRandomPos = IF y = x THEN p ELSE f[y].nRandomPos
  BY DEF Entry

\* SwapRandom exchanges two places of vRandom and the positions of two entries.
LEMMA SwapFields ==
    ASSUME NEW m, Indexed(m), NEW i \in 1 .. Len(m.vRandom), NEW j \in 1 .. Len(m.vRandom)
    PROVE  LET r == SwapRandom(m, i, j) IN
           /\ r \in Object /\ Ids(r) = Ids(m)
           /\ r.nIdCount = m.nIdCount /\ r.mapAddr = m.mapAddr
           /\ r.nNew = m.nNew /\ r.vvNew = m.vvNew
           /\ r.nTried = m.nTried /\ r.vvTried = m.vvTried
           /\ r.vRandom = [m.vRandom EXCEPT ![i] = m.vRandom[j], ![j] = m.vRandom[i]]
           /\ \A x \in Ids(m) :
                 /\ r.mapInfo[x].svc = m.mapInfo[x].svc
                 /\ r.mapInfo[x].source = m.mapInfo[x].source
                 /\ r.mapInfo[x].fInTried = m.mapInfo[x].fInTried
                 /\ r.mapInfo[x].nRefCount = m.mapInfo[x].nRefCount
                 /\ r.mapInfo[x].nRandomPos =
                       IF x = m.vRandom[j] THEN i
                       ELSE IF x = m.vRandom[i] THEN j ELSE m.mapInfo[x].nRandomPos
<1> DEFINE r == SwapRandom(m, i, j)
           info == [m.mapInfo EXCEPT ![m.vRandom[i]].nRandomPos = j,
                                     ![m.vRandom[j]].nRandomPos = i]
           random == [m.vRandom EXCEPT ![i] = m.vRandom[j], ![j] = m.vRandom[i]]
<1>1. r = [m EXCEPT !.mapInfo = info, !.vRandom = random]
  BY DEF SwapRandom
<1>2. /\ m \in Object /\ m.mapInfo \in [Ids(m) -> Entry] /\ Ids(m) \in SUBSET Nat
      /\ m.vRandom \in Seq(Nat) /\ Len(m.vRandom) \in Nat
      /\ m.vRandom[i] \in Ids(m) /\ m.vRandom[j] \in Ids(m) /\ i \in Nat /\ j \in Nat
  BY ObjectFields DEF Indexed
<1>3. /\ info \in [Ids(m) -> Entry]
      /\ \A x \in Ids(m) :
            /\ info[x].svc = m.mapInfo[x].svc
            /\ info[x].source = m.mapInfo[x].source
            /\ info[x].fInTried = m.mapInfo[x].fInTried
            /\ info[x].nRefCount = m.mapInfo[x].nRefCount
            /\ info[x].nRandomPos =
                  IF x = m.vRandom[j] THEN i
                  ELSE IF x = m.vRandom[i] THEN j ELSE m.mapInfo[x].nRandomPos
  <2> DEFINE mid == [m.mapInfo EXCEPT ![m.vRandom[i]].nRandomPos = j]
  <2>1. info = [mid EXCEPT ![m.vRandom[j]].nRandomPos = i]
    OBVIOUS
  <2>2. /\ mid \in [Ids(m) -> Entry]
        /\ \A x \in Ids(m) :
              /\ mid[x].svc = m.mapInfo[x].svc
              /\ mid[x].source = m.mapInfo[x].source
              /\ mid[x].fInTried = m.mapInfo[x].fInTried
              /\ mid[x].nRefCount = m.mapInfo[x].nRefCount
              /\ mid[x].nRandomPos =
                    IF x = m.vRandom[i] THEN j ELSE m.mapInfo[x].nRandomPos
    BY <1>2 DEF Entry
  <2> HIDE DEF mid
  <2>3. /\ [mid EXCEPT ![m.vRandom[j]].nRandomPos = i] \in [Ids(m) -> Entry]
        /\ \A x \in Ids(m) :
              LET e == [mid EXCEPT ![m.vRandom[j]].nRandomPos = i][x] IN
              /\ e.svc = mid[x].svc /\ e.source = mid[x].source
              /\ e.fInTried = mid[x].fInTried /\ e.nRefCount = mid[x].nRefCount
              /\ e.nRandomPos = IF x = m.vRandom[j] THEN i ELSE mid[x].nRandomPos
    BY <1>2, <2>2, Repositioned
  <2> HIDE DEF info
  <2> QED
    BY <2>1, <2>2, <2>3
<1>4. random \in Seq(Nat)
  BY <1>2
<1> HIDE DEF info, random
<1>5. info \in UNION {[S -> Entry] : S \in SUBSET Nat}
  BY <1>2, <1>3
<1>6. /\ r \in Object /\ r.mapInfo = info /\ r.vRandom = random
      /\ r.nIdCount = m.nIdCount /\ r.mapAddr = m.mapAddr
      /\ r.nNew = m.nNew /\ r.vvNew = m.vvNew
      /\ r.nTried = m.nTried /\ r.vvTried = m.vvTried
  BY <1>1, <1>2, <1>4, <1>5 DEF Object
<1>7. Ids(r) = Ids(m)
  BY <1>3, <1>6 DEF Ids
<1> HIDE DEF r
<1> QED
  BY <1>3, <1>6, <1>7 DEF r, random

\* Without the entry id, ShrinkNew leaves the indexes of the others in order.
LEMMA DeletedIndexed ==
    ASSUME NEW m, Indexed(m), NEW id \in Ids(m)
    PROVE  LET d == Deleted(m, id) IN
           /\ Indexed(d) /\ Ids(d) = Ids(m) \ {id} /\ d.nIdCount = m.nIdCount
           /\ d.nNew = m.nNew - 1 /\ d.vvNew = m.vvNew
           /\ d.nTried = m.nTried /\ d.vvTried = m.vvTried
           /\ \A x \in Ids(m) \ {id} :
                 /\ d.mapInfo[x].svc = m.mapInfo[x].svc
                 /\ d.mapInfo[x].source = m.mapInfo[x].source
                 /\ d.mapInfo[x].fInTried = m.mapInfo[x].fInTried
                 /\ d.mapInfo[x].nRefCount = m.mapInfo[x].nRefCount
<1> DEFINE n == Len(m.vRandom)
           p == m.mapInfo[id].nRandomPos
           last == SwapRandom(m, p, n)
           random == SubSeq(last.vRandom, 1, Len(last.vRandom) - 1)
           addr == Without(m.mapAddr, HostAt(m, id))
           info == Without(last.mapInfo, id)
           d == Deleted(m, id)
<1>1. d = [last EXCEPT !.vRandom = random, !.mapAddr = addr, !.mapInfo = info, !.nNew = @ - 1]
  BY DEF Deleted, HostAt
<1>2. /\ m \in Object /\ Ids(m) \in SUBSET Nat /\ m.mapInfo \in [Ids(m) -> Entry]
      /\ m.mapAddr \in [DOMAIN m.mapAddr -> Nat] /\ DOMAIN m.mapAddr \subseteq Host
      /\ m.vRandom \in Seq(Nat) /\ n \in Nat /\ m.nNew \in Int
  <2>1. m \in Object
    BY DEF Indexed
  <2> QED
    BY <2>1, ObjectFields
<1>3. p \in 1 .. n /\ n \in 1 .. n /\ m.vRandom[p] = id
  BY <1>2 DEF Indexed
<1>4. /\ last \in Object /\ Ids(last) = Ids(m) /\ last.nIdCount = m.nIdCount
      /\ last.nNew = m.nNew /\ last.vvNew = m.vvNew
      /\ last.nTried = m.nTried /\ last.vvTried = m.vvTried
      /\ last.vRandom = [m.vRandom EXCEPT ![p] = m.vRandom[n], ![n] = m.vRandom[p]]
      /\ \A x \in Ids(m) :
            /\ last.mapInfo[x].svc = m.mapInfo[x].svc
            /\ last.mapInfo[x].source = m.mapInfo[x].source
            /\ last.mapInfo[x].fInTried = m.mapInfo[x].fInTried
            /\ last.mapInfo[x].nRefCount = m.mapInfo[x].nRefCount
            /\ last.mapInfo[x].nRandomPos =
                  IF x = m.vRandom[n] THEN p
                  ELSE IF x = m.vRandom[p] THEN n ELSE m.mapInfo[x].nRandomPos
  <2> HIDE DEF p
  <2> QED
    BY <1>3, SwapFields
<1>5. /\ random \in Seq(Nat) /\ Len(random) = n - 1
      /\ \A q \in 1 .. n - 1 : random[q] = IF q = p THEN m.vRandom[n] ELSE m.vRandom[q]
  <2>1. /\ last.vRandom \in Seq(Nat) /\ Len(last.vRandom) = n
        /\ \A q \in 1 .. n - 1 :
              last.vRandom[q] = IF q = p THEN m.vRandom[n] ELSE m.vRandom[q]
    BY <1>2, <1>3, <1>4
  <2> DEFINE w == last.vRandom
  <2>2. w \in Seq(Nat) /\ Len(w) = n /\ n \in Nat \ {0}
    BY <1>2, <1>3, <2>1
  <2>3. random = SubSeq(w, 1, n - 1)
    BY <2>2
  <2> HIDE DEF n, w, random
  <2>4. /\ random \in Seq(Nat) /\ Len(random) = n - 1
        /\ \A q \in 1 .. n - 1 : random[q] = w[q]
    BY <2>2, <2>3
  <2> QED
    BY <2>1, <2>4 DEF w
<1>6. /\ addr \in [DOMAIN m.mapAddr \ {HostAt(m, id)} -> Nat]
      /\ \A h \in DOMAIN m.mapAddr \ {HostAt(m, id)} : addr[h] = m.mapAddr[h]
  BY <1>2 DEF Without, Restrict
<1>7. /\ info \in [Ids(m) \ {id} -> Entry]
      /\ \A x \in Ids(m) \ {id} : info[x] = last.mapInfo[x]
  <2>1. last.mapInfo \in [Ids(m) -> Entry]
    BY <1>4, ObjectFields
  <2> HIDE DEF last
  <2> QED
    BY <2>1 DEF Without, Restrict
<1> HIDE DEF random, addr, info, last
<1>8. info \in UNION {[S -> Entry] : S \in SUBSET Nat}
  BY <1>2, <1>7
<1>9. addr \in UNION {[S -> Nat] : S \in SUBSET Host}
  BY <1>2, <1>6
<1>10. /\ d \in Object /\ d.mapInfo = info /\ d.mapAddr = addr /\ d.vRandom = random
       /\ d.nIdCount = m.nIdCount /\ d.nNew = m.nNew - 1 /\ d.vvNew = m.vvNew
       /\ d.nTried = m.nTried /\ d.vvTried = m.vvTried
  <2>1. last.nNew - 1 \in Int
    BY <1>2, <1>4
  <2>2. last \in Object /\ random \in Seq(Nat)
    BY <1>4, <1>5
  <2>3. /\ d \in Object /\ d.mapInfo = info /\ d.mapAddr = addr /\ d.vRandom = random
        /\ d.nIdCount = last.nIdCount /\ d.nNew = last.nNew - 1 /\ d.vvNew = last.vvNew
        /\ d.nTried = last.nTried /\ d.vvTried = last.vvTried
    BY <1>1, <1>8, <1>9, <2>1, <2>2 DEF Object
  <2> QED
    BY <1>4, <2>3
<1>11. Ids(d) = Ids(m) \ {id}
  BY <1>7, <1>10 DEF Ids
<1> HIDE DEF d
<1>12. \A x \in Ids(m) \ {id} :
          /\ d.mapInfo[x].svc = m.mapInfo[x].svc
          /\ d.mapInfo[x].source = m.mapInfo[x].source
          /\ d.mapInfo[x].fInTried = m.mapInfo[x].fInTried
          /\ d.mapInfo[x].nRefCount = m.mapInfo[x].nRefCount
          /\ d.mapInfo[x].nRandomPos =
                IF x = m.vRandom[n] THEN p ELSE m.mapInfo[x].nRandomPos
  BY <1>3, <1>4, <1>7, <1>10
<1>13. Ids(d) \subseteq 0 .. d.nIdCount - 1
  BY <1>10, <1>11 DEF Indexed
<1>14. \A x, y \in Ids(m) : HostAt(m, x) = HostAt(m, y) => x = y
  BY DEF Indexed
<1>15. \A x \in Ids(d) : HostAt(d, x) = HostAt(m, x)
  BY <1>11, <1>12 DEF HostAt
<1>16. DOMAIN d.mapAddr = {HostAt(d, x) : x \in Ids(d)}
  <2>1. DOMAIN d.mapAddr = DOMAIN m.mapAddr \ {HostAt(m, id)}
    BY <1>6, <1>10
  <2>2. DOMAIN m.mapAddr = {HostAt(m, x) : x \in Ids(m)}
    BY DEF Indexed
  <2> QED
    BY <1>11, <1>14, <1>15, <2>1, <2>2
<1>17. \A x \in Ids(d) : d.mapAddr[HostAt(d, x)] = x
  <2>1. DOMAIN m.mapAddr = {HostAt(m, x) : x \in Ids(m)}
    BY DEF Indexed
  <2>2. \A x \in Ids(m) : m.mapAddr[HostAt(m, x)] = x
    BY DEF Indexed
  <2> SUFFICES ASSUME NEW x \in Ids(d) PROVE d.mapAddr[HostAt(d, x)] = x
    OBVIOUS
  <2>3. x \in Ids(m) /\ x # id /\ HostAt(m, x) \in DOMAIN m.mapAddr \ {HostAt(m, id)}
    BY <1>11, <1>14, <2>1
  <2> QED
    BY <1>6, <1>10, <1>15, <2>2, <2>3
<1>18. \A x \in Ids(m) : /\ m.mapInfo[x].nRandomPos \in 1 .. n
                          /\ m.vRandom[m.mapInfo[x].nRandomPos] = x
  BY DEF Indexed
<1>19. \A q \in 1 .. n : m.vRandom[q] \in Ids(m) /\ m.mapInfo[m.vRandom[q]].nRandomPos = q
  BY DEF Indexed
<1> HIDE DEF p
<1>20. ASSUME NEW x \in Ids(d)
       PROVE  /\ d.mapInfo[x].nRandomPos \in 1 .. Len(d.vRandom)
              /\ d.vRandom[d.mapInfo[x].nRandomPos] = x
  <2>1. x \in Ids(m) /\ x # id
    BY <1>11
  <2>2. CASE x = m.vRandom[n]
    <3>1. p # n /\ p \in 1 .. n - 1 /\ d.mapInfo[x].nRandomPos = p
      BY <1>2, <1>3, <1>12, <2>1, <2>2
    <3> QED
      BY <1>5, <1>10, <2>2, <3>1
  <2>3. CASE x # m.vRandom[n]
    <3> PICK q : q = m.mapInfo[x].nRandomPos
      OBVIOUS
    <3>1. q \in 1 .. n /\ m.vRandom[q] = x /\ d.mapInfo[x].nRandomPos = q
      BY <1>12, <1>18, <2>1, <2>3
    <3>2. q # n /\ q # p
      BY <1>3, <2>1, <2>3, <3>1
    <3>3. q \in 1 .. n - 1
      BY <1>2, <3>1, <3>2
    <3> QED
      BY <1>5, <1>10, <3>1, <3>2, <3>3
  <2> QED
    BY <2>2, <2>3
<1>21. ASSUME NEW q \in 1 .. Len(d.vRandom)
       PROVE  d.vRandom[q] \in Ids(d) /\ d.mapInfo[d.vRandom[q]].nRandomPos = q
  <2>1. q \in 1 .. n - 1 /\ q \in 1 .. n /\ q # n
    BY <1>2, <1>5, <1>10
  <2>2. CASE q = p
    <3>1. d.vRandom[q] = m.vRandom[n] /\ m.vRandom[n] \in Ids(m)
      BY <1>3, <1>5, <1>10, <1>19, <2>1, <2>2
    <3>2. m.vRandom[n] # id
      BY <1>3, <1>19, <2>1, <2>2
    <3> QED
      BY <1>11, <1>12, <2>2, <3>1, <3>2
  <2>3. CASE q # p
    <3>1. d.vRandom[q] = m.vRandom[q] /\ m.vRandom[q] \in Ids(m)
      BY <1>5, <1>10, <1>19, <2>1, <2>3
    <3>2. m.vRandom[q] # id /\ m.vRandom[q] # m.vRandom[n]
      BY <1>3, <1>19, <2>1, <2>3
    <3> QED
      BY <1>11, <1>12, <1>19, <2>1, <3>1, <3>2
  <2> QED
    BY <2>2, <2>3
<1>22. Indexed(d)
  BY <1>10, <1>13, <1>16, <1>17, <1>20, <1>21 DEF Indexed
<1> QED
  BY <1>10, <1>11, <1>12, <1>22 DEF d

-----------------------------------------------------------------------------
(* Add_: an entry joins a new bucket, which may push another one out.        *)

LEMMA IdsFinite ==
    ASSUME NEW m, Indexed(m), NEW S \in SUBSET Ids(m)
    PROVE  IsFiniteSet(S)
<1>1. m.nIdCount \in Nat
  BY ObjectFields DEF Indexed
<1>2. IsFiniteSet(0 .. m.nIdCount - 1)
  BY <1>1, FS_Interval
<1>3. S \in SUBSET (0 .. m.nIdCount - 1)
  BY DEF Indexed
<1> QED
  BY <1>2, <1>3, FS_Subset

\* The tried buckets of objects that agree on the tried entries.
LEMMA TriedSame ==
    ASSUME NEW m, NEW r, NEW T, TriedTable(m, T),
           r.vvTried = m.vvTried, r.nTried = m.nTried,
           \A id \in T : /\ r.mapInfo[id].svc = m.mapInfo[id].svc
                         /\ r.mapInfo[id].nRefCount = m.mapInfo[id].nRefCount
    PROVE  TriedTable(r, T)
<1> PICK v, n : v = m.vvTried /\ n = m.nTried
  OBVIOUS
<1>1. /\ \A k \in TriedBuckets :
          /\ Len(v[k]) <= TriedBucketSize
          /\ \A p \in 1 .. Len(v[k]) : v[k][p] \in T /\ TriedBucketOf[m.mapInfo[v[k][p]].svc] = k
          /\ \A p, q \in 1 .. Len(v[k]) : v[k][p] = v[k][q] => p = q
      /\ \A id \in T :
          /\ m.mapInfo[id].nRefCount = 0
          /\ \E p \in 1 .. Len(v[TriedBucketOf[m.mapInfo[id].svc]]) :
                v[TriedBucketOf[m.mapInfo[id].svc]][p] = id
      /\ n = Cardinality(T) /\ r.vvTried = v /\ r.nTried = n
  BY DEF TriedTable
<1>2. \A k \in TriedBuckets : \A p \in 1 .. Len(v[k]) :
          v[k][p] \in T /\ TriedBucketOf[r.mapInfo[v[k][p]].svc] = k
  BY <1>1
<1>3. \A id \in T :
          /\ r.mapInfo[id].nRefCount = 0
          /\ \E p \in 1 .. Len(v[TriedBucketOf[r.mapInfo[id].svc]]) :
                v[TriedBucketOf[r.mapInfo[id].svc]][p] = id
  BY <1>1
<1> QED
  BY <1>1, <1>2, <1>3 DEF TriedTable

LEMMA RecountIndexed ==
    ASSUME NEW m, Indexed(m), NEW id \in Ids(m), NEW n \in Nat
    PROVE  Indexed(Recounted(m, id, n))
<1> PICK r : r = Recounted(m, id, n)
  OBVIOUS
<1>1. m \in Object
  BY DEF Indexed
<1>2. /\ r \in Object /\ Ids(r) = Ids(m)
      /\ r.nIdCount = m.nIdCount /\ r.mapAddr = m.mapAddr /\ r.vRandom = m.vRandom
      /\ \A j \in Ids(m) : /\ r.mapInfo[j].svc = m.mapInfo[j].svc
                           /\ r.mapInfo[j].nRandomPos = m.mapInfo[j].nRandomPos
  BY <1>1, RecountFields
<1>3. \A j \in Ids(m) : HostAt(r, j) = HostAt(m, j)
  BY <1>2 DEF HostAt
<1>4. DOMAIN r.mapAddr = {HostAt(r, j) : j \in Ids(r)}
  <2>1. DOMAIN m.mapAddr = {HostAt(m, j) : j \in Ids(m)}
    BY DEF Indexed
  <2> QED
    BY <1>2, <1>3, <2>1
<1>5. Ids(r) \subseteq 0 .. r.nIdCount - 1
  BY <1>2 DEF Indexed
<1>6. \A j \in Ids(r) : /\ r.mapAddr[HostAt(r, j)] = j
                        /\ r.mapInfo[j].nRandomPos \in 1 .. Len(r.vRandom)
                        /\ r.vRandom[r.mapInfo[j].nRandomPos] = j
  BY <1>2, <1>3 DEF Indexed
<1>7. \A p \in 1 .. Len(r.vRandom) : /\ r.vRandom[p] \in Ids(r)
                                     /\ r.mapInfo[r.vRandom[p]].nRandomPos = p
  BY <1>2 DEF Indexed
<1> QED
  BY <1>2, <1>4, <1>5, <1>6, <1>7 DEF Indexed

\* One new bucket changes.
Rebucketed(m, b, B) == [m EXCEPT !.vvNew[b] = B]

LEMMA RebucketIndexed ==
    ASSUME NEW m, Indexed(m), NEW b \in NewBuckets, NEW B \in SUBSET Nat
    PROVE  LET r == Rebucketed(m, b, B) IN
           /\ Indexed(r) /\ r.mapInfo = m.mapInfo /\ Ids(r) = Ids(m)
           /\ r.nIdCount = m.nIdCount
           /\ r.nNew = m.nNew /\ r.nTried = m.nTried /\ r.vvTried = m.vvTried
           /\ r.vvNew[b] = B
           /\ \A c \in NewBuckets \ {b} : r.vvNew[c] = m.vvNew[c]
<1> DEFINE buckets == [m.vvNew EXCEPT ![b] = B]
           r == Rebucketed(m, b, B)
<1>1. m \in Object /\ m.vvNew \in [NewBuckets -> SUBSET Nat]
  BY ObjectFields DEF Indexed
<1>2. /\ buckets \in [NewBuckets -> SUBSET Nat] /\ buckets[b] = B
      /\ \A c \in NewBuckets \ {b} : buckets[c] = m.vvNew[c]
  BY <1>1
<1>3. r = [m EXCEPT !.vvNew = buckets]
  BY DEF Rebucketed
<1> HIDE DEF buckets
<1>4. /\ r \in Object /\ r.vvNew = buckets /\ r.mapInfo = m.mapInfo
      /\ r.nIdCount = m.nIdCount /\ r.mapAddr = m.mapAddr /\ r.vRandom = m.vRandom
      /\ r.nNew = m.nNew /\ r.nTried = m.nTried /\ r.vvTried = m.vvTried
  BY <1>1, <1>2, <1>3 DEF Object
<1> HIDE DEF r
<1>5. Indexed(r) /\ Ids(r) = Ids(m)
  BY <1>4 DEF Indexed, Ids, HostAt
<1> QED
  BY <1>2, <1>4, <1>5 DEF r

\* The entries of r are some of m with the same address, source and table.
Within(r, m) ==
    /\ Ids(r) \subseteq Ids(m)
    /\ \A j \in Ids(r) : /\ r.mapInfo[j].svc = m.mapInfo[j].svc
                         /\ r.mapInfo[j].source = m.mapInfo[j].source
                         /\ r.mapInfo[j].fInTried = m.mapInfo[j].fInTried

LEMMA WithinTables ==
    ASSUME NEW m, NEW r, Within(r, m)
    PROVE  NewOf(r) = NewOf(m) \cap Ids(r) /\ TriedOf(r) = TriedOf(m) \cap Ids(r)
  BY DEF Within, NewOf, TriedOf

\* ShrinkNew takes one entry out of the bucket, and deletes it if it was in no
\* other one.
LEMMA ShrinkJoining ==
    ASSUME NEW m, NEW x, NEW b, Joining(m, x, b), NEW id \in m.vvNew[b]
    PROVE  LET s == ShrinkNew(m, b, id) IN
           /\ Joining(s, x, b) /\ Within(s, m) /\ s.nIdCount = m.nIdCount
           /\ s.vvNew[b] = m.vvNew[b] \ {id}
           /\ Ids(s) = Ids(m) \/ Ids(s) = Ids(m) \ {id}
<1> DEFINE n == m.mapInfo[id].nRefCount - 1
           fewer == Recounted(m, id, n)
           q == IF fewer.mapInfo[id].nRefCount = 0 THEN Deleted(fewer, id) ELSE fewer
           s == ShrinkNew(m, b, id)
<1>1. /\ m \in Object /\ Indexed(m) /\ b \in NewBuckets /\ x \in NewOf(m)
      /\ id # x /\ id \in NewOf(m) /\ id \in Ids(m) /\ x \in Ids(m)
  BY DEF Joining, Indexed, NewOf
<1>2. /\ IsFiniteSet(BucketsOf(m, id)) /\ b \in BucketsOf(m, id)
      /\ m.mapInfo[id].nRefCount = Cardinality(BucketsOf(m, id))
      /\ m.mapInfo[id].nRefCount \in 1 .. NewPerAddress
      /\ NewPerAddress \in Nat
  <2>1. Cardinality(BucketsOf(m, id)) + 0 = Cardinality(BucketsOf(m, id))
    <3>1. IsFiniteSet(BucketsOf(m, id))
      BY <1>1 DEF Joining
    <3> QED
      BY <3>1, FS_CardinalityType
  <2> QED
    BY <1>1, <2>1, AddrManAssumption DEF Joining, BucketsOf
<1>3. n \in Nat /\ n <= NewPerAddress
  BY <1>2
<1>4. /\ fewer \in Object /\ Indexed(fewer) /\ Ids(fewer) = Ids(m)
      /\ fewer.nIdCount = m.nIdCount /\ fewer.nNew = m.nNew /\ fewer.vvNew = m.vvNew
      /\ fewer.nTried = m.nTried /\ fewer.vvTried = m.vvTried
      /\ \A j \in Ids(m) :
            /\ fewer.mapInfo[j].svc = m.mapInfo[j].svc
            /\ fewer.mapInfo[j].source = m.mapInfo[j].source
            /\ fewer.mapInfo[j].fInTried = m.mapInfo[j].fInTried
            /\ fewer.mapInfo[j].nRefCount = IF j = id THEN n ELSE m.mapInfo[j].nRefCount
  <2> HIDE DEF n
  <2> QED
    BY <1>1, <1>3, RecountFields, RecountIndexed
<1> HIDE DEF fewer
<1>5. /\ Indexed(q) /\ Ids(q) = IF n = 0 THEN Ids(m) \ {id} ELSE Ids(m)
      /\ q.nIdCount = m.nIdCount /\ q.vvNew = m.vvNew
      /\ q.nNew = IF n = 0 THEN m.nNew - 1 ELSE m.nNew
      /\ q.nTried = m.nTried /\ q.vvTried = m.vvTried
      /\ \A j \in Ids(q) :
            /\ q.mapInfo[j].svc = m.mapInfo[j].svc
            /\ q.mapInfo[j].source = m.mapInfo[j].source
            /\ q.mapInfo[j].fInTried = m.mapInfo[j].fInTried
            /\ q.mapInfo[j].nRefCount = IF j = id THEN n ELSE m.mapInfo[j].nRefCount
  <2>1. fewer.mapInfo[id].nRefCount = n
    BY <1>1, <1>4
  <2> HIDE DEF n
  <2>2. CASE n = 0
    <3>1. q = Deleted(fewer, id)
      BY <2>1, <2>2
    <3> HIDE DEF q
    <3> QED
      BY <1>1, <1>4, <2>2, <3>1, DeletedIndexed
  <2>3. CASE n # 0
    <3>1. q = fewer
      BY <2>1, <2>3
    <3> HIDE DEF q
    <3> QED
      BY <1>4, <2>3, <3>1
  <2> QED
    BY <2>2, <2>3
<1>6. s = Rebucketed(q, b, q.vvNew[b] \ {id})
  BY DEF ShrinkNew, Rebucketed, fewer
<1> HIDE DEF q, s
<1>7. m.vvNew \in [NewBuckets -> SUBSET Nat]
  BY <1>1, ObjectFields
<1>8. /\ Indexed(s) /\ s.mapInfo = q.mapInfo /\ Ids(s) = Ids(q)
      /\ s.nIdCount = m.nIdCount /\ s.nNew = q.nNew
      /\ s.nTried = m.nTried /\ s.vvTried = m.vvTried
      /\ s.vvNew[b] = m.vvNew[b] \ {id}
      /\ \A c \in NewBuckets \ {b} : s.vvNew[c] = m.vvNew[c]
  <2> PICK B : B = q.vvNew[b] \ {id}
    OBVIOUS
  <2>1. B \in SUBSET Nat
    BY <1>1, <1>5, <1>7
  <2>2. s = Rebucketed(q, b, B)
    BY <1>6
  <2>3. b \in NewBuckets /\ Indexed(q)
    BY <1>1, <1>5
  <2>4. /\ Indexed(s) /\ s.mapInfo = q.mapInfo /\ Ids(s) = Ids(q)
        /\ s.nIdCount = q.nIdCount
        /\ s.nNew = q.nNew /\ s.nTried = q.nTried /\ s.vvTried = q.vvTried
        /\ s.vvNew[b] = B
        /\ \A c \in NewBuckets \ {b} : s.vvNew[c] = q.vvNew[c]
    BY ONLY <2>1, <2>2, <2>3, RebucketIndexed
  <2> QED
    BY <1>5, <2>4
<1>9. Within(s, m)
  BY <1>5, <1>8 DEF Within
<1>10. /\ BucketsOf(s, id) = BucketsOf(m, id) \ {b}
       /\ \A j : j # id => BucketsOf(s, j) = BucketsOf(m, j)
  BY <1>1, <1>8 DEF BucketsOf
<1>11. IsFiniteSet(BucketsOf(s, id)) /\ Cardinality(BucketsOf(s, id)) = n
  BY <1>2, <1>10, FS_RemoveElement
<1>12. /\ NewOf(s) = NewOf(m) \cap Ids(s) /\ TriedOf(s) = TriedOf(m) \cap Ids(s)
  BY <1>9, WithinTables
<1>13. TriedOf(s) = TriedOf(m)
  BY <1>1, <1>5, <1>8, <1>12 DEF NewOf, TriedOf
<1>14. TriedTable(s, TriedOf(s))
  <2>1. \A j \in TriedOf(m) : /\ s.mapInfo[j].svc = m.mapInfo[j].svc
                              /\ s.mapInfo[j].nRefCount = m.mapInfo[j].nRefCount
    BY <1>1, <1>5, <1>8, <1>13 DEF TriedOf, NewOf
  <2>2. TriedTable(m, TriedOf(m))
    BY DEF Joining
  <2> QED
    BY <1>8, <1>13, <2>1, <2>2, TriedSame
<1>15. x \in NewOf(s) /\ x \notin s.vvNew[b]
  BY <1>1, <1>5, <1>8, <1>12 DEF Joining
<1>16. \A c \in NewBuckets : s.vvNew[c] \subseteq NewOf(s)
  <2> SUFFICES ASSUME NEW c \in NewBuckets, NEW j \in s.vvNew[c] PROVE j \in NewOf(s)
    OBVIOUS
  <2>1. j \in m.vvNew[c] /\ j \in NewOf(m)
    BY <1>1, <1>8 DEF Joining
  <2>2. CASE j # id
    BY <1>5, <1>8, <1>12, <2>1, <2>2 DEF NewOf
  <2>3. CASE j = id
    <3>1. c \in BucketsOf(s, id)
      BY <2>3 DEF BucketsOf
    <3>2. n # 0
      BY <1>11, <3>1, FS_EmptySet
    <3> QED
      BY <1>1, <1>5, <1>8, <1>12, <2>3, <3>2
  <2> QED
    BY <2>2, <2>3
<1>17. \A c \in NewBuckets : Cardinality(s.vvNew[c]) <= NewBucketSize
  <2>1. \A c \in NewBuckets : Cardinality(m.vvNew[c]) <= NewBucketSize
    BY DEF Joining
  <2>2. m.vvNew[b] \in SUBSET Ids(m)
    BY <1>1 DEF Joining, NewOf
  <2>3. IsFiniteSet(m.vvNew[b])
    BY <1>1, <2>2, IdsFinite
  <2>4. /\ Cardinality(m.vvNew[b] \ {id}) = Cardinality(m.vvNew[b]) - 1
        /\ Cardinality(m.vvNew[b]) \in Nat /\ NewBucketSize \in Nat
    BY <2>3, FS_RemoveElement, FS_CardinalityType, AddrManAssumption
  <2>5. Cardinality(m.vvNew[b] \ {id}) <= NewBucketSize
    BY <1>1, <2>1, <2>4
  <2> QED
    BY <1>8, <2>1, <2>5
<1>18. \A j \in NewOf(s) :
          /\ IsFiniteSet(BucketsOf(s, j))
          /\ s.mapInfo[j].nRefCount = Cardinality(BucketsOf(s, j)) + (IF j = x THEN 1 ELSE 0)
          /\ s.mapInfo[j].nRefCount \in 1 .. NewPerAddress
  <2> SUFFICES ASSUME NEW j \in NewOf(s)
               PROVE  /\ IsFiniteSet(BucketsOf(s, j))
                      /\ s.mapInfo[j].nRefCount = Cardinality(BucketsOf(s, j))
                                                  + (IF j = x THEN 1 ELSE 0)
                      /\ s.mapInfo[j].nRefCount \in 1 .. NewPerAddress
    OBVIOUS
  <2>1. j \in NewOf(m) /\ j \in Ids(q)
    BY <1>8, <1>12
  <2>2. CASE j = id
    <3>1. n # 0 /\ n \in 1 .. NewPerAddress /\ n + 0 = n
      BY <1>2, <1>3, <1>5, <2>1, <2>2
    <3> QED
      BY <1>1, <1>5, <1>8, <1>11, <2>1, <2>2, <3>1
  <2>3. CASE j # id
    BY <1>5, <1>8, <1>10, <2>1, <2>3 DEF Joining
  <2> QED
    BY <2>2, <2>3
<1>19. s.nNew = Cardinality(NewOf(s))
  <2>1. IsFiniteSet(NewOf(m)) /\ m.nNew = Cardinality(NewOf(m)) /\ m.nNew \in Int
    BY <1>1, IdsFinite, ObjectFields DEF NewOf, Joining
  <2>2. CASE n = 0
    <3>1. NewOf(s) = NewOf(m) \ {id} /\ s.nNew = m.nNew - 1
      BY <1>5, <1>8, <1>12, <2>2 DEF NewOf
    <3> QED
      BY <1>1, <2>1, <3>1, FS_RemoveElement
  <2>3. CASE n # 0
    BY <1>5, <1>8, <1>12, <2>1, <2>3 DEF NewOf
  <2> QED
    BY <2>2, <2>3
<1>20. Joining(s, x, b)
  BY <1>1, <1>8, <1>14, <1>15, <1>16, <1>17, <1>18, <1>19 DEF Joining
<1> HIDE DEF n
<1> QED
  BY <1>5, <1>8, <1>9, <1>20 DEF s

\* The set of entries an addition may cost: at most one, and a new one.
Spared(m, x) == {{}} \cup {{id} : id \in NewOf(m) \ {x}}

LEMMA ShrunkJoining ==
    ASSUME NEW m, NEW x, NEW b, Joining(m, x, b), NEW s \in Shrunk(m, b)
    PROVE  /\ Joining(s, x, b) /\ Within(s, m) /\ s.nIdCount = m.nIdCount
           /\ Cardinality(s.vvNew[b]) + 1 <= NewBucketSize
           /\ \E S \in Spared(m, x) : Ids(s) = Ids(m) \ S
<1>1. /\ Indexed(m) /\ b \in NewBuckets /\ m.vvNew[b] \subseteq NewOf(m)
      /\ x \notin m.vvNew[b] /\ Cardinality(m.vvNew[b]) <= NewBucketSize
      /\ NewBucketSize \in Nat
  BY AddrManAssumption DEF Joining
<1>2. IsFiniteSet(m.vvNew[b]) /\ Cardinality(m.vvNew[b]) \in Nat
  <2>1. m.vvNew[b] \in SUBSET Ids(m)
    BY <1>1 DEF NewOf
  <2> QED
    BY <1>1, <2>1, IdsFinite, FS_CardinalityType
<1>3. CASE Cardinality(m.vvNew[b]) = NewBucketSize
  <2>1. PICK id \in m.vvNew[b] : s = ShrinkNew(m, b, id)
    BY <1>3 DEF Shrunk
  <2>2. /\ Joining(s, x, b) /\ Within(s, m) /\ s.nIdCount = m.nIdCount
        /\ s.vvNew[b] = m.vvNew[b] \ {id}
        /\ Ids(s) = Ids(m) \/ Ids(s) = Ids(m) \ {id}
    BY <2>1, ShrinkJoining
  <2>3. Cardinality(s.vvNew[b]) = NewBucketSize - 1
    BY <1>2, <1>3, <2>2, FS_RemoveElement
  <2>4. id \in NewOf(m) \ {x}
    BY <1>1
  <2>5. {} \in Spared(m, x) /\ {id} \in Spared(m, x) /\ Ids(m) = Ids(m) \ {}
    BY <2>4 DEF Spared
  <2>6. Cardinality(s.vvNew[b]) + 1 <= NewBucketSize
    BY <1>1, <2>3
  <2> QED
    BY <2>2, <2>5, <2>6
<1>4. CASE Cardinality(m.vvNew[b]) # NewBucketSize
  <2>1. s = m
    BY <1>4 DEF Shrunk
  <2>2. Within(m, m)
    BY DEF Within
  <2>3. {} \in Spared(m, x) /\ Ids(m) = Ids(m) \ {}
    BY DEF Spared
  <2>4. Cardinality(m.vvNew[b]) + 1 <= NewBucketSize
    BY <1>1, <1>2, <1>4
  <2> QED
    BY <2>1, <2>2, <2>3, <2>4
<1> QED
  BY <1>3, <1>4

\* The end of Add_ leaves the tables in order.
LEMMA JoinedInOrder ==
    ASSUME NEW m, NEW x, NEW b,
           Joining(Recounted(m, x, m.mapInfo[x].nRefCount + 1), x, b),
           NEW r \in Joined(m, x, b)
    PROVE  LET c == Recounted(m, x, m.mapInfo[x].nRefCount + 1) IN
           /\ InOrder(r) /\ Within(r, c) /\ r.nIdCount = c.nIdCount
           /\ \E S \in Spared(c, x) : Ids(r) = Ids(c) \ S
<1> DEFINE c == Recounted(m, x, m.mapInfo[x].nRefCount + 1)
<1>1. PICK s \in Shrunk(c, b) : r = [s EXCEPT !.vvNew[b] = @ \cup {x}]
  BY DEF Joined
<1>2. Joining(c, x, b)
  OBVIOUS
<1> HIDE DEF c
<1>3. /\ Joining(s, x, b) /\ Within(s, c) /\ s.nIdCount = c.nIdCount
      /\ Cardinality(s.vvNew[b]) + 1 <= NewBucketSize
      /\ \E S \in Spared(c, x) : Ids(s) = Ids(c) \ S
  BY <1>2, ShrunkJoining
<1>4. /\ Indexed(s) /\ b \in NewBuckets /\ s \in Object /\ x \in Ids(s) /\ x \in NewOf(s)
      /\ x \notin s.vvNew[b] /\ s.vvNew[b] \subseteq NewOf(s)
  BY <1>3 DEF Joining, Indexed, NewOf
<1> PICK B : B = s.vvNew[b] \cup {x}
  OBVIOUS
<1>5. B \in SUBSET Nat
  <2>1. NewOf(s) \subseteq Nat
    BY <1>4, ObjectFields DEF NewOf
  <2> QED
    BY <1>4, <2>1
<1>6. r = Rebucketed(s, b, B)
  BY <1>1 DEF Rebucketed
<1>7. /\ Indexed(r) /\ r.mapInfo = s.mapInfo /\ Ids(r) = Ids(s)
      /\ r.nIdCount = s.nIdCount
      /\ r.nNew = s.nNew /\ r.nTried = s.nTried /\ r.vvTried = s.vvTried
      /\ r.vvNew[b] = B
      /\ \A d \in NewBuckets \ {b} : r.vvNew[d] = s.vvNew[d]
  <2>1. Indexed(s) /\ b \in NewBuckets
    BY <1>4
  <2> QED
    BY ONLY <1>5, <1>6, <2>1, RebucketIndexed
<1>8. NewOf(r) = NewOf(s) /\ TriedOf(r) = TriedOf(s)
  BY <1>7 DEF NewOf, TriedOf
<1>9. TriedTable(r, TriedOf(r))
  BY <1>3, <1>7, <1>8, TriedSame DEF Joining
<1>10. /\ BucketsOf(r, x) = BucketsOf(s, x) \cup {b} /\ b \notin BucketsOf(s, x)
       /\ \A j : j # x => BucketsOf(r, j) = BucketsOf(s, j)
  BY <1>4, <1>7 DEF BucketsOf
<1>11. IsFiniteSet(s.vvNew[b]) /\ Cardinality(B) = Cardinality(s.vvNew[b]) + 1
  <2>1. s.vvNew[b] \in SUBSET Ids(s)
    BY <1>4 DEF NewOf
  <2> QED
    BY <1>4, <2>1, IdsFinite, FS_AddElement
<1>12. \A d \in NewBuckets : r.vvNew[d] \subseteq NewOf(r)
  BY <1>3, <1>4, <1>7, <1>8 DEF Joining
<1>13. \A d \in NewBuckets : Cardinality(r.vvNew[d]) <= NewBucketSize
  BY <1>3, <1>7, <1>11 DEF Joining
<1>14. ASSUME NEW j \in NewOf(r)
       PROVE  /\ IsFiniteSet(BucketsOf(r, j))
              /\ r.mapInfo[j].nRefCount = Cardinality(BucketsOf(r, j))
              /\ r.mapInfo[j].nRefCount \in 1 .. NewPerAddress
  <2>1. /\ IsFiniteSet(BucketsOf(s, j))
        /\ r.mapInfo[j].nRefCount = Cardinality(BucketsOf(s, j)) + (IF j = x THEN 1 ELSE 0)
        /\ r.mapInfo[j].nRefCount \in 1 .. NewPerAddress
        /\ Cardinality(BucketsOf(s, j)) \in Nat
    BY <1>3, <1>7, <1>8, FS_CardinalityType DEF Joining
  <2>2. CASE j = x
    BY <1>10, <2>1, <2>2, FS_AddElement
  <2>3. CASE j # x
    BY <1>10, <2>1, <2>3
  <2> QED
    BY <2>2, <2>3
<1>15. r.nNew = Cardinality(NewOf(r))
  BY <1>3, <1>7, <1>8 DEF Joining
<1>16. InOrder(r)
  BY <1>7, <1>9, <1>12, <1>13, <1>14, <1>15 DEF InOrder, NewTable
<1>17. Within(r, c)
  BY <1>3, <1>7 DEF Within
<1> QED
  BY <1>3, <1>7, <1>16, <1>17 DEF c

\* An entry that may join a bucket, one more reference counted.
LEMMA RecountJoining ==
    ASSUME NEW m, NEW x \in NewOf(m), NEW b \in NewBuckets, x \notin m.vvNew[b],
           Indexed(m), TriedTable(m, TriedOf(m)),
           \A d \in NewBuckets : m.vvNew[d] \subseteq NewOf(m),
           \A d \in NewBuckets : Cardinality(m.vvNew[d]) <= NewBucketSize,
           \A id \in NewOf(m) : /\ IsFiniteSet(BucketsOf(m, id))
                                /\ m.mapInfo[id].nRefCount = Cardinality(BucketsOf(m, id))
                                /\ m.mapInfo[id].nRefCount <= NewPerAddress
                                /\ id # x => m.mapInfo[id].nRefCount # 0,
           m.mapInfo[x].nRefCount # NewPerAddress,
           m.nNew = Cardinality(NewOf(m))
    PROVE  Joining(Recounted(m, x, m.mapInfo[x].nRefCount + 1), x, b)
<1> PICK n : n = m.mapInfo[x].nRefCount + 1
  OBVIOUS
<1> PICK r : r = Recounted(m, x, n)
  OBVIOUS
<1>1. /\ m \in Object /\ x \in Ids(m) /\ ~ m.mapInfo[x].fInTried
      /\ m.mapInfo \in [Ids(m) -> Entry]
  BY ObjectFields DEF Indexed, NewOf
<1>2. /\ m.mapInfo[x].nRefCount \in Nat /\ n \in 1 .. NewPerAddress /\ n \in Nat
      /\ NewPerAddress \in Nat
  <2>1. m.mapInfo[x].nRefCount \in Nat
    BY <1>1, EntryFields
  <2>2. NewPerAddress \in Nat
    BY AddrManAssumption
  <2>3. m.mapInfo[x].nRefCount <= NewPerAddress /\ m.mapInfo[x].nRefCount # NewPerAddress
    OBVIOUS
  <2> QED
    BY ONLY <2>1, <2>2, <2>3, n = m.mapInfo[x].nRefCount + 1
<1>3. /\ r \in Object /\ Ids(r) = Ids(m)
      /\ r.nNew = m.nNew /\ r.vvNew = m.vvNew
      /\ r.nTried = m.nTried /\ r.vvTried = m.vvTried
      /\ \A j \in Ids(m) :
            /\ r.mapInfo[j].svc = m.mapInfo[j].svc
            /\ r.mapInfo[j].fInTried = m.mapInfo[j].fInTried
            /\ r.mapInfo[j].nRefCount = IF j = x THEN n ELSE m.mapInfo[j].nRefCount
  BY ONLY <1>1, <1>2, r = Recounted(m, x, n), RecountFields
<1>4. Indexed(r)
  BY <1>1, <1>2, RecountIndexed
<1>5. NewOf(r) = NewOf(m) /\ TriedOf(r) = TriedOf(m)
  BY <1>3 DEF NewOf, TriedOf
<1>6. \A j : BucketsOf(r, j) = BucketsOf(m, j)
  BY <1>3 DEF BucketsOf
<1>7. TriedTable(r, TriedOf(r))
  <2>1. \A id \in TriedOf(m) : /\ r.mapInfo[id].svc = m.mapInfo[id].svc
                               /\ r.mapInfo[id].nRefCount = m.mapInfo[id].nRefCount
    BY <1>1, <1>3 DEF TriedOf
  <2> QED
    BY <1>3, <1>5, <2>1, TriedSame
<1>8. ASSUME NEW id \in NewOf(r)
      PROVE  /\ IsFiniteSet(BucketsOf(r, id))
             /\ r.mapInfo[id].nRefCount = Cardinality(BucketsOf(r, id))
                                          + (IF id = x THEN 1 ELSE 0)
             /\ r.mapInfo[id].nRefCount \in 1 .. NewPerAddress
  <2>1. /\ id \in Ids(m) /\ IsFiniteSet(BucketsOf(r, id))
        /\ m.mapInfo[id].nRefCount = Cardinality(BucketsOf(r, id))
        /\ m.mapInfo[id].nRefCount \in Nat
        /\ m.mapInfo[id].nRefCount <= NewPerAddress
        /\ id # x => m.mapInfo[id].nRefCount # 0
    BY <1>5, <1>6, FS_CardinalityType DEF NewOf
  <2>2. CASE id = x
    BY <1>2, <1>3, <2>1, <2>2
  <2>3. CASE id # x
    <3>1. r.mapInfo[id].nRefCount = m.mapInfo[id].nRefCount
      BY <1>3, <2>1, <2>3
    <3> QED
      BY <1>2, <2>1, <2>3, <3>1
  <2> QED
    BY <2>2, <2>3
<1>9. Joining(r, x, b)
  BY <1>3, <1>4, <1>5, <1>7, <1>8 DEF Joining
<1> QED
  BY <1>9

\* What the tables become when an entry joins: nobody else changes its table.
LEMMA AgainInOrder ==
    ASSUME InOrder(am), NEW svc, NEW source, AddAgain(svc, source)
    PROVE  /\ InOrder(am') /\ am'.nIdCount = am.nIdCount /\ Within(am', am)
           /\ \E x \in NewOf(am) : /\ HostOf[svc] \in DOMAIN am.mapAddr
                                   /\ am.mapAddr[HostOf[svc]] = x
                                   /\ \E S \in Spared(am, x) : Ids(am') = Ids(am) \ S
<1> DEFINE b == NewBucketOf[HostOf[svc]][source]
<1>1. PICK x \in Find(am, HostOf[svc]) : MayJoin(x, b) /\ am' \in Joined(am, x, b)
  BY DEF AddAgain
<1>2. /\ x \in Ids(am) /\ x \in NewOf(am)
      /\ HostOf[svc] \in DOMAIN am.mapAddr /\ am.mapAddr[HostOf[svc]] = x
      /\ x \notin am.vvNew[b] /\ am.mapInfo[x].nRefCount # NewPerAddress
  BY <1>1 DEF Find, MayJoin, NewOf, Ids
<1>3. b \in NewBuckets
  <2>1. svc \in Svc /\ source \in Source
    BY AddrManAssumption DEF AddAgain
  <2>2. HostOf[svc] \in Host
    BY <2>1, AddrManAssumption
  <2> QED
    BY <2>1, <2>2, AddrManAssumption
<1> HIDE DEF b
<1>4. /\ Indexed(am) /\ TriedTable(am, TriedOf(am)) /\ am \in Object
      /\ \A d \in NewBuckets : am.vvNew[d] \subseteq NewOf(am)
      /\ \A d \in NewBuckets : Cardinality(am.vvNew[d]) <= NewBucketSize
      /\ am.nNew = Cardinality(NewOf(am))
  BY DEF InOrder, NewTable, Indexed
<1>5. \A id \in NewOf(am) : /\ IsFiniteSet(BucketsOf(am, id))
                            /\ am.mapInfo[id].nRefCount = Cardinality(BucketsOf(am, id))
                            /\ am.mapInfo[id].nRefCount <= NewPerAddress
                            /\ id # x => am.mapInfo[id].nRefCount # 0
  BY AddrManAssumption DEF InOrder, NewTable
<1> PICK n : n = am.mapInfo[x].nRefCount + 1
  OBVIOUS
<1> PICK c : c = Recounted(am, x, n)
  OBVIOUS
<1>6. Joining(c, x, b)
  BY <1>2, <1>3, <1>4, <1>5, RecountJoining
<1>7. n \in Nat
  <2>1. am.mapInfo \in [Ids(am) -> Entry]
    BY <1>4, ObjectFields
  <2> QED
    BY <1>2, <2>1, EntryFields
<1>8. /\ c.nIdCount = am.nIdCount /\ Ids(c) = Ids(am)
      /\ \A j \in Ids(am) : /\ c.mapInfo[j].svc = am.mapInfo[j].svc
                            /\ c.mapInfo[j].source = am.mapInfo[j].source
                            /\ c.mapInfo[j].fInTried = am.mapInfo[j].fInTried
  BY ONLY <1>2, <1>4, <1>7, c = Recounted(am, x, n), RecountFields
<1>9. /\ InOrder(am') /\ Within(am', c) /\ am'.nIdCount = c.nIdCount
      /\ \E S \in Spared(c, x) : Ids(am') = Ids(c) \ S
  BY <1>1, <1>6, JoinedInOrder
<1>10. NewOf(c) = NewOf(am)
  BY <1>8 DEF NewOf
<1>11. Within(am', am)
  BY <1>8, <1>9 DEF Within
<1>12. \E S \in Spared(am, x) : Ids(am') = Ids(am) \ S
  BY <1>8, <1>9, <1>10 DEF Spared
<1> QED
  BY <1>2, <1>8, <1>9, <1>11, <1>12

\* A host that had no entry has one, in no bucket yet.
LEMMA CreateIndexed ==
    ASSUME NEW m, Indexed(m), NEW svc \in Svc, NEW source \in Source,
           Find(m, HostOf[svc]) = {}
    PROVE  LET r == Create(m, svc, source) IN
           /\ Indexed(r) /\ m.nIdCount \notin Ids(m)
           /\ \A j \in Ids(m) : HostAt(m, j) # HostOf[svc]
<1> PICK n : n = m.nIdCount
  OBVIOUS
<1> PICK r : r = Create(m, svc, source)
  OBVIOUS
<1> PICK h : h = HostOf[svc]
  OBVIOUS
<1>1. /\ m \in Object /\ n \in Nat /\ Len(m.vRandom) \in Nat /\ m.vRandom \in Seq(Nat)
      /\ m.mapAddr \in [DOMAIN m.mapAddr -> Nat]
  <2>1. m \in Object
    BY DEF Indexed
  <2>2. m.nIdCount \in Nat /\ m.vRandom \in Seq(Nat) /\ m.mapAddr \in [DOMAIN m.mapAddr -> Nat]
    BY <2>1, ObjectFields
  <2> QED
    BY <2>1, <2>2
<1>2. n \notin Ids(m)
  BY <1>1 DEF Indexed
<1>3. \A j \in Ids(m) : HostAt(m, j) # h
  <2>1. ASSUME NEW j \in Ids(m), HostAt(m, j) = h PROVE FALSE
    <3>1. h \in DOMAIN m.mapAddr /\ m.mapAddr[h] = j
      BY <2>1 DEF Indexed
    <3>2. j \in Find(m, h)
      BY <2>1, <3>1 DEF Find, Ids
    <3> QED
      BY <3>2
  <2> QED
    BY <2>1
<1>4. /\ r \in Object /\ Ids(r) = Ids(m) \cup {n}
      /\ r.nIdCount = n + 1
      /\ r.mapAddr = With(m.mapAddr, h, n)
      /\ r.vRandom = Append(m.vRandom, n)
      /\ \A j \in Ids(m) \ {n} : r.mapInfo[j] = m.mapInfo[j]
      /\ r.mapInfo[n].svc = svc
      /\ r.mapInfo[n].nRandomPos = Len(m.vRandom) + 1
  <2>1. m \in Object /\ svc \in Svc /\ source \in Source
    BY <1>1
  <2>2. /\ r \in Object /\ Ids(r) = Ids(m) \cup {n}
        /\ r.nIdCount = n + 1
        /\ r.mapAddr = With(m.mapAddr, HostOf[svc], n)
        /\ r.vRandom = Append(m.vRandom, n)
        /\ \A j \in Ids(m) \ {n} : r.mapInfo[j] = m.mapInfo[j]
        /\ r.mapInfo[n].svc = svc
        /\ r.mapInfo[n].nRandomPos = Len(m.vRandom) + 1
    <3>1. Created(m, r, svc, source)
      BY <2>1, CreateFields
    <3> QED
      BY ONLY <3>1, n = m.nIdCount, h = HostOf[svc] DEF Created
  <2> QED
    BY <2>2
<1>5. HostAt(r, n) = h /\ \A j \in Ids(m) : HostAt(r, j) = HostAt(m, j)
  BY <1>2, <1>4 DEF HostAt
<1>6. /\ DOMAIN r.mapAddr = DOMAIN m.mapAddr \cup {h} /\ r.mapAddr[h] = n
      /\ \A g \in DOMAIN m.mapAddr \ {h} : r.mapAddr[g] = m.mapAddr[g]
  BY <1>4 DEF With
<1>7. Ids(r) \subseteq 0 .. r.nIdCount - 1
  <2>1. Ids(m) \subseteq 0 .. n - 1
    BY DEF Indexed
  <2> QED
    BY <1>1, <1>4, <2>1
<1>8. DOMAIN r.mapAddr = {HostAt(r, j) : j \in Ids(r)}
  <2>1. DOMAIN m.mapAddr = {HostAt(m, j) : j \in Ids(m)}
    BY DEF Indexed
  <2> QED
    BY <1>4, <1>5, <1>6, <2>1
<1>9. \A j \in Ids(r) : r.mapAddr[HostAt(r, j)] = j
  <2> SUFFICES ASSUME NEW j \in Ids(r) PROVE r.mapAddr[HostAt(r, j)] = j
    OBVIOUS
  <2>1. CASE j = n
    BY <1>5, <1>6, <2>1
  <2>2. CASE j \in Ids(m)
    <3>1. HostAt(m, j) \in DOMAIN m.mapAddr \ {h} /\ m.mapAddr[HostAt(m, j)] = j
      BY <1>3, <2>2 DEF Indexed
    <3> QED
      BY <1>5, <1>6, <2>2, <3>1
  <2> QED
    BY <1>4, <2>1, <2>2
<1>10. /\ Len(r.vRandom) = Len(m.vRandom) + 1
       /\ r.vRandom[Len(m.vRandom) + 1] = n
       /\ \A p \in 1 .. Len(m.vRandom) : r.vRandom[p] = m.vRandom[p]
  BY <1>1, <1>4
<1>11. \A j \in Ids(m) : /\ m.mapInfo[j].nRandomPos \in 1 .. Len(m.vRandom)
                         /\ m.vRandom[m.mapInfo[j].nRandomPos] = j
  BY DEF Indexed
<1>12. \A p \in 1 .. Len(m.vRandom) : /\ m.vRandom[p] \in Ids(m)
                                      /\ m.mapInfo[m.vRandom[p]].nRandomPos = p
  BY DEF Indexed
<1>13. \A j \in Ids(r) : /\ r.mapInfo[j].nRandomPos \in 1 .. Len(r.vRandom)
                         /\ r.vRandom[r.mapInfo[j].nRandomPos] = j
  <2> SUFFICES ASSUME NEW j \in Ids(r)
               PROVE  /\ r.mapInfo[j].nRandomPos \in 1 .. Len(r.vRandom)
                      /\ r.vRandom[r.mapInfo[j].nRandomPos] = j
    OBVIOUS
  <2>1. CASE j = n
    BY <1>1, <1>4, <1>10, <2>1
  <2>2. CASE j \in Ids(m)
    <3>1. r.mapInfo[j] = m.mapInfo[j]
      BY <1>2, <1>4, <2>2
    <3> PICK q, L : q = m.mapInfo[j].nRandomPos /\ L = Len(m.vRandom)
      OBVIOUS
    <3>2. q \in 1 .. L /\ m.vRandom[q] = j /\ L \in Nat
      BY <1>1, <1>11, <2>2
    <3>3. q \in 1 .. L + 1
      BY <3>2
    <3> QED
      BY <1>10, <3>1, <3>2, <3>3
  <2> QED
    BY <1>4, <2>1, <2>2
<1>14. \A p \in 1 .. Len(r.vRandom) : /\ r.vRandom[p] \in Ids(r)
                                      /\ r.mapInfo[r.vRandom[p]].nRandomPos = p
  <2> SUFFICES ASSUME NEW p \in 1 .. Len(r.vRandom)
               PROVE  /\ r.vRandom[p] \in Ids(r)
                      /\ r.mapInfo[r.vRandom[p]].nRandomPos = p
    OBVIOUS
  <2>1. p = Len(m.vRandom) + 1 \/ p \in 1 .. Len(m.vRandom)
    BY <1>1, <1>10
  <2>2. CASE p = Len(m.vRandom) + 1
    BY <1>4, <1>10, <2>2
  <2>3. CASE p \in 1 .. Len(m.vRandom)
    <3>1. r.vRandom[p] = m.vRandom[p] /\ m.vRandom[p] \in Ids(m)
      BY <1>10, <1>12, <2>3
    <3>2. r.mapInfo[m.vRandom[p]] = m.mapInfo[m.vRandom[p]]
      BY <1>2, <1>4, <3>1
    <3> QED
      BY <1>4, <1>12, <2>3, <3>1, <3>2
  <2> QED
    BY <2>1, <2>2, <2>3
<1>15. Indexed(r)
  BY <1>4, <1>7, <1>8, <1>9, <1>13, <1>14 DEF Indexed
<1> QED
  BY <1>2, <1>3, <1>15

\* One of the counters changes.
LEMMA CountedIndexed ==
    ASSUME NEW m, Indexed(m), NEW n \in Int
    PROVE  LET r == [m EXCEPT !.nNew = n] IN
           /\ Indexed(r) /\ r.mapInfo = m.mapInfo /\ Ids(r) = Ids(m)
           /\ r.nIdCount = m.nIdCount /\ r.nNew = n
           /\ r.vvNew = m.vvNew /\ r.nTried = m.nTried /\ r.vvTried = m.vvTried
<1> DEFINE r == [m EXCEPT !.nNew = n]
<1>1. m \in Object
  BY DEF Indexed
<1>2. /\ r \in Object /\ r.nNew = n /\ r.mapInfo = m.mapInfo
      /\ r.nIdCount = m.nIdCount /\ r.mapAddr = m.mapAddr /\ r.vRandom = m.vRandom
      /\ r.vvNew = m.vvNew /\ r.nTried = m.nTried /\ r.vvTried = m.vvTried
  BY <1>1 DEF Object
<1> HIDE DEF r
<1>3. Indexed(r) /\ Ids(r) = Ids(m)
  BY <1>2 DEF Indexed, Ids, HostAt
<1> QED
  BY <1>2, <1>3 DEF r

\* A new host has an entry in one new bucket.
LEMMA NewInOrder ==
    ASSUME InOrder(am), NEW svc \in Svc, NEW source \in Source, AddNew(svc, source)
    PROVE  LET x == am.nIdCount IN
           /\ InOrder(am') /\ am'.nIdCount = x + 1 /\ x + 1 <= MaxId
           /\ x \in Ids(am') /\ x \notin Ids(am)
           /\ HostAt(am', x) = HostOf[svc] /\ ~ am'.mapInfo[x].fInTried
           /\ \A j \in Ids(am) : HostAt(am, j) # HostOf[svc]
           /\ \A j \in Ids(am') \ {x} : /\ HostAt(am', j) = HostAt(am, j)
                                        /\ am'.mapInfo[j].fInTried = am.mapInfo[j].fInTried
           /\ \E S \in Spared(am, x) : Ids(am') = (Ids(am) \cup {x}) \ S
<1> PICK x, c : x = am.nIdCount /\ c = Create(am, svc, source)
  OBVIOUS
<1> PICK n : n = c.nNew + 1
  OBVIOUS
<1> PICK m : m = [c EXCEPT !.nNew = n]
  OBVIOUS
<1> PICK b : b = NewBucketOf[HostOf[svc]][source]
  OBVIOUS
<1>1. /\ am' \in Joined(m, x, b) /\ Find(am, HostOf[svc]) = {} /\ x < MaxId
  <2>1. m = [c EXCEPT !.nNew = @ + 1]
    OBVIOUS
  <2> QED
    BY <2>1 DEF AddNew
<1>2. b \in NewBuckets /\ HostOf[svc] \in Host
  BY AddrManAssumption
<1>3. /\ Indexed(am) /\ am \in Object /\ TriedTable(am, TriedOf(am))
      /\ \A d \in NewBuckets : am.vvNew[d] \subseteq NewOf(am)
      /\ \A d \in NewBuckets : Cardinality(am.vvNew[d]) <= NewBucketSize
      /\ am.nNew = Cardinality(NewOf(am))
  BY DEF InOrder, NewTable, Indexed
<1>4. /\ Indexed(c) /\ x \notin Ids(am)
      /\ \A j \in Ids(am) : HostAt(am, j) # HostOf[svc]
  BY <1>1, <1>3, CreateIndexed
<1>5. /\ x \in Nat /\ am.nNew \in Int /\ MaxId \in Nat /\ NewPerAddress \in Nat \ {0}
      /\ am.mapInfo \in [Ids(am) -> Entry]
  BY <1>3, ObjectFields, AddrManAssumption
<1>6. Created(am, c, svc, source)
  BY <1>3, CreateFields
<1>7. /\ c \in Object /\ Ids(c) = Ids(am) \cup {x}
      /\ c.nIdCount = x + 1 /\ c.nNew = am.nNew /\ c.vvNew = am.vvNew
      /\ c.nTried = am.nTried /\ c.vvTried = am.vvTried
      /\ \A j \in Ids(am) : c.mapInfo[j] = am.mapInfo[j]
      /\ c.mapInfo[x].svc = svc /\ c.mapInfo[x].nRefCount = 0
      /\ c.mapInfo[x].fInTried = FALSE
  BY <1>4, <1>6 DEF Created
<1>8. /\ Indexed(m) /\ m.mapInfo = c.mapInfo /\ Ids(m) = Ids(c)
      /\ m.nIdCount = c.nIdCount /\ m.nNew = n
      /\ m.vvNew = c.vvNew /\ m.nTried = c.nTried /\ m.vvTried = c.vvTried
  <2>1. n \in Int
    BY <1>5, <1>7
  <2> QED
    BY <1>4, <2>1, CountedIndexed
<1>9. x \in NewOf(m) /\ NewOf(m) = NewOf(am) \cup {x} /\ TriedOf(m) = TriedOf(am)
  BY <1>4, <1>7, <1>8 DEF NewOf, TriedOf
<1>10. TriedTable(m, TriedOf(m))
  <2>1. \A id \in TriedOf(am) : /\ m.mapInfo[id].svc = am.mapInfo[id].svc
                                /\ m.mapInfo[id].nRefCount = am.mapInfo[id].nRefCount
    BY <1>7, <1>8 DEF TriedOf
  <2>2. m.vvTried = am.vvTried /\ m.nTried = am.nTried /\ TriedTable(am, TriedOf(am))
    BY <1>3, <1>7, <1>8
  <2> QED
    BY ONLY <1>9, <2>1, <2>2, TriedSame
<1>11. \A j : BucketsOf(m, j) = BucketsOf(am, j)
  BY <1>7, <1>8 DEF BucketsOf
<1>12. x \notin NewOf(am) /\ BucketsOf(m, x) = {} /\ x \notin m.vvNew[b]
  <2>1. x \notin NewOf(am)
    BY <1>4 DEF NewOf
  <2> QED
    BY <1>2, <1>3, <1>7, <1>8, <1>11, <2>1 DEF BucketsOf
<1>13. ASSUME NEW id \in NewOf(m)
       PROVE  /\ IsFiniteSet(BucketsOf(m, id))
              /\ m.mapInfo[id].nRefCount = Cardinality(BucketsOf(m, id))
              /\ m.mapInfo[id].nRefCount <= NewPerAddress
              /\ id # x => m.mapInfo[id].nRefCount # 0
  <2>1. CASE id = x
    <3>1. m.mapInfo[x].nRefCount = 0
      BY <1>7, <1>8
    <3> QED
      BY ONLY <1>5, <1>12, <2>1, <3>1, FS_EmptySet
  <2>2. CASE id # x
    <3>1. id \in NewOf(am) /\ id \in Ids(am) /\ m.mapInfo[id] = am.mapInfo[id]
      BY <1>7, <1>8, <1>9, <2>2 DEF NewOf
    <3>2. /\ IsFiniteSet(BucketsOf(am, id))
          /\ am.mapInfo[id].nRefCount = Cardinality(BucketsOf(am, id))
          /\ am.mapInfo[id].nRefCount \in 1 .. NewPerAddress
      BY <3>1 DEF InOrder, NewTable
    <3> QED
      BY <1>5, <1>11, <3>1, <3>2
  <2> QED
    BY <2>1, <2>2
<1>14. m.nNew = Cardinality(NewOf(m))
  <2>1. IsFiniteSet(NewOf(am))
    BY <1>3, IdsFinite DEF NewOf
  <2> QED
    BY <1>3, <1>7, <1>8, <1>9, <1>12, <2>1, FS_AddElement
<1>15. \A d \in NewBuckets : /\ m.vvNew[d] \subseteq NewOf(m)
                             /\ Cardinality(m.vvNew[d]) <= NewBucketSize
  BY <1>3, <1>7, <1>8, <1>9
<1>16. m.mapInfo[x].nRefCount # NewPerAddress /\ m.mapInfo[x].nRefCount + 1 \in Nat
  BY <1>5, <1>7, <1>8
<1> PICK r : r = Recounted(m, x, m.mapInfo[x].nRefCount + 1)
  OBVIOUS
<1>17. Joining(r, x, b)
  BY ONLY r = Recounted(m, x, m.mapInfo[x].nRefCount + 1), <1>2, <1>8, <1>9, <1>10, <1>12,
     <1>13, <1>14, <1>15, <1>16, RecountJoining
<1>18. /\ InOrder(am') /\ Within(am', r) /\ am'.nIdCount = r.nIdCount
       /\ \E S \in Spared(r, x) : Ids(am') = Ids(r) \ S
  BY ONLY <1>1, <1>17, r = Recounted(m, x, m.mapInfo[x].nRefCount + 1), JoinedInOrder
<1>19. /\ Ids(r) = Ids(m) /\ r.nIdCount = m.nIdCount
       /\ \A j \in Ids(m) : /\ r.mapInfo[j].svc = m.mapInfo[j].svc
                            /\ r.mapInfo[j].fInTried = m.mapInfo[j].fInTried
  <2>1. m \in Object /\ x \in Ids(m)
    BY <1>7, <1>8 DEF Indexed
  <2> QED
    BY ONLY <1>16, <2>1, r = Recounted(m, x, m.mapInfo[x].nRefCount + 1), RecountFields
<1>20. NewOf(r) = NewOf(m)
  BY <1>19 DEF NewOf
<1>21. PICK S \in Spared(am, x) : Ids(am') = (Ids(am) \cup {x}) \ S
  <2>1. Spared(r, x) = Spared(am, x)
    BY <1>9, <1>12, <1>20 DEF Spared
  <2>2. Ids(r) = Ids(am) \cup {x}
    BY <1>7, <1>8, <1>19
  <2> QED
    BY ONLY <1>18, <2>1, <2>2
<1>22. x \in Ids(am')
  BY <1>21 DEF Spared
<1>23. \A j \in Ids(am') : /\ HostAt(am', j) = HostAt(m, j)
                           /\ am'.mapInfo[j].fInTried = m.mapInfo[j].fInTried
  BY ONLY <1>18, <1>19 DEF Within, HostAt
<1>24. HostAt(am', x) = HostOf[svc] /\ ~ am'.mapInfo[x].fInTried
  BY <1>7, <1>8, <1>22, <1>23 DEF HostAt
<1>25. \A j \in Ids(am') \ {x} : /\ HostAt(am', j) = HostAt(am, j)
                                 /\ am'.mapInfo[j].fInTried = am.mapInfo[j].fInTried
  BY <1>7, <1>8, <1>21, <1>23 DEF HostAt
<1>26. am'.nIdCount = x + 1 /\ x + 1 <= MaxId
  <2>1. am'.nIdCount = x + 1
    BY ONLY <1>7, <1>8, <1>18, <1>19
  <2> QED
    BY ONLY <1>1, <1>5, <2>1
<1> QED
  BY <1>4, <1>18, <1>21, <1>22, <1>24, <1>25, <1>26

-----------------------------------------------------------------------------
(* Good: an entry moves from its new buckets to its tried one.               *)

SameIndexes(m, r) ==
    /\ r \in Object /\ Ids(r) = Ids(m)
    /\ r.nIdCount = m.nIdCount /\ r.mapAddr = m.mapAddr /\ r.vRandom = m.vRandom
    /\ \A j \in Ids(m) : /\ r.mapInfo[j].svc = m.mapInfo[j].svc
                         /\ r.mapInfo[j].source = m.mapInfo[j].source
                         /\ r.mapInfo[j].nRandomPos = m.mapInfo[j].nRandomPos

LEMMA SameIndexed ==
    ASSUME NEW m, NEW r, Indexed(m), SameIndexes(m, r)
    PROVE  Indexed(r)
<1>1. /\ r \in Object /\ Ids(r) = Ids(m)
      /\ r.nIdCount = m.nIdCount /\ r.mapAddr = m.mapAddr /\ r.vRandom = m.vRandom
      /\ \A j \in Ids(m) : /\ r.mapInfo[j].svc = m.mapInfo[j].svc
                           /\ r.mapInfo[j].nRandomPos = m.mapInfo[j].nRandomPos
  BY DEF SameIndexes
<1>2. \A j \in Ids(m) : HostAt(r, j) = HostAt(m, j)
  BY <1>1 DEF HostAt
<1>3. DOMAIN r.mapAddr = {HostAt(r, j) : j \in Ids(r)}
  <2>1. DOMAIN m.mapAddr = {HostAt(m, j) : j \in Ids(m)}
    BY DEF Indexed
  <2> QED
    BY <1>1, <1>2, <2>1
<1>4. Ids(r) \subseteq 0 .. r.nIdCount - 1
  BY <1>1 DEF Indexed
<1>5. \A j \in Ids(r) : /\ r.mapAddr[HostAt(r, j)] = j
                        /\ r.mapInfo[j].nRandomPos \in 1 .. Len(r.vRandom)
                        /\ r.vRandom[r.mapInfo[j].nRandomPos] = j
  BY <1>1, <1>2 DEF Indexed
<1>6. \A p \in 1 .. Len(r.vRandom) : /\ r.vRandom[p] \in Ids(r)
                                     /\ r.mapInfo[r.vRandom[p]].nRandomPos = p
  BY <1>1 DEF Indexed
<1> QED
  BY <1>1, <1>3, <1>4, <1>5, <1>6 DEF Indexed

\* The new buckets of objects that agree on the new entries.
LEMMA NewSame ==
    ASSUME NEW m, NEW r, NEW N, NewTable(m, N),
           r.vvNew = m.vvNew, r.nNew = m.nNew,
           \A id \in N : r.mapInfo[id].nRefCount = m.mapInfo[id].nRefCount
    PROVE  NewTable(r, N)
<1>1. \A id : BucketsOf(r, id) = BucketsOf(m, id)
  BY DEF BucketsOf
<1> QED
  BY <1>1 DEF NewTable

\* Entry id is in no new bucket any more and its references are gone.
UnbucketedOf(m, r, id) ==
    /\ SameIndexes(m, r)
    /\ r.nNew = m.nNew - 1 /\ r.nTried = m.nTried /\ r.vvTried = m.vvTried
    /\ \A b \in NewBuckets : r.vvNew[b] = m.vvNew[b] \ {id}
    /\ \A j \in Ids(m) : /\ r.mapInfo[j].fInTried = m.mapInfo[j].fInTried
                         /\ j # id => r.mapInfo[j].nRefCount = m.mapInfo[j].nRefCount
    /\ r.mapInfo[id].nRefCount = 0

LEMMA UnbucketedFields ==
    ASSUME NEW m \in Object, NEW id \in Ids(m),
           m.mapInfo[id].nRefCount = Cardinality(BucketsOf(m, id))
    PROVE  UnbucketedOf(m, Unbucketed(m, id), id)
<1> PICK r : r = Unbucketed(m, id)
  OBVIOUS
<1> PICK buckets : buckets = [b \in NewBuckets |-> m.vvNew[b] \ {id}]
  OBVIOUS
<1> DEFINE n == m.mapInfo[id].nRefCount - Cardinality(BucketsOf(m, id))
           info == [m.mapInfo EXCEPT ![id].nRefCount = n]
<1>1. r = [m EXCEPT !.vvNew = buckets, !.mapInfo = info, !.nNew = m.nNew - 1]
  BY DEF Unbucketed
<1>2. /\ m.mapInfo \in [Ids(m) -> Entry] /\ Ids(m) \in SUBSET Nat /\ m.nNew - 1 \in Int
      /\ m.vvNew \in [NewBuckets -> SUBSET Nat]
  BY ObjectFields
<1>3. n = 0
  <2>1. m.mapInfo[id].nRefCount \in Nat
    BY <1>2, EntryFields
  <2> QED
    BY <2>1
<1> HIDE DEF n
<1>4. info \in [Ids(m) -> Entry]
  BY <1>2, <1>3 DEF Entry
<1>5. \A j \in Ids(m) :
         /\ info[j].svc = m.mapInfo[j].svc
         /\ info[j].source = m.mapInfo[j].source
         /\ info[j].fInTried = m.mapInfo[j].fInTried
         /\ info[j].nRandomPos = m.mapInfo[j].nRandomPos
         /\ info[j].nRefCount = IF j = id THEN n ELSE m.mapInfo[j].nRefCount
  BY <1>2 DEF Entry
<1> HIDE DEF info
<1>6. info \in UNION {[S -> Entry] : S \in SUBSET Nat}
  BY <1>2, <1>4
<1>7. buckets \in [NewBuckets -> SUBSET Nat]
  BY <1>2
<1> PICK less : less = m.nNew - 1
  OBVIOUS
<1>8. /\ r \in Object /\ r.mapInfo = info /\ r.vvNew = buckets /\ r.nNew = less
      /\ r.nIdCount = m.nIdCount /\ r.mapAddr = m.mapAddr /\ r.vRandom = m.vRandom
      /\ r.nTried = m.nTried /\ r.vvTried = m.vvTried
  <2>1. r = [m EXCEPT !.vvNew = buckets, !.mapInfo = info, !.nNew = less] /\ less \in Int
    BY <1>1, <1>2
  <2> QED
    BY ONLY <1>6, <1>7, <2>1, m \in Object DEF Object
<1>9. Ids(r) = Ids(m)
  BY <1>4, <1>8 DEF Ids
<1>10. SameIndexes(m, r)
  BY <1>5, <1>8, <1>9 DEF SameIndexes
<1>11. UnbucketedOf(m, r, id)
  BY <1>3, <1>5, <1>8, <1>10 DEF UnbucketedOf
<1> QED
  BY <1>11

\* The tables while entry id is in neither: it is still marked new.
Between(m, id) ==
    /\ Indexed(m) /\ id \in NewOf(m) /\ m.mapInfo[id].nRefCount = 0
    /\ NewTable(m, NewOf(m) \ {id}) /\ TriedTable(m, TriedOf(m))

LEMMA UnbucketedBetween ==
    ASSUME NEW m, InOrder(m), NEW id \in NewOf(m)
    PROVE  Between(Unbucketed(m, id), id)
<1> PICK r : r = Unbucketed(m, id)
  OBVIOUS
<1>1. /\ Indexed(m) /\ m \in Object /\ id \in Ids(m) /\ TriedTable(m, TriedOf(m))
      /\ m.vvNew \in [NewBuckets -> SUBSET Nat] /\ m.nNew \in Int
  BY ObjectFields DEF InOrder, Indexed, NewOf
<1>2. /\ \A b \in NewBuckets : m.vvNew[b] \subseteq NewOf(m)
      /\ \A b \in NewBuckets : Cardinality(m.vvNew[b]) <= NewBucketSize
      /\ \A j \in NewOf(m) : /\ IsFiniteSet(BucketsOf(m, j))
                             /\ m.mapInfo[j].nRefCount = Cardinality(BucketsOf(m, j))
                             /\ m.mapInfo[j].nRefCount \in 1 .. NewPerAddress
      /\ m.nNew = Cardinality(NewOf(m))
  BY DEF InOrder, NewTable
<1>3. UnbucketedOf(m, r, id)
  BY <1>1, <1>2, UnbucketedFields
<1>4. /\ SameIndexes(m, r) /\ Ids(r) = Ids(m)
      /\ r.nNew = m.nNew - 1 /\ r.nTried = m.nTried /\ r.vvTried = m.vvTried
      /\ \A b \in NewBuckets : r.vvNew[b] = m.vvNew[b] \ {id}
      /\ \A j \in Ids(m) : /\ r.mapInfo[j].fInTried = m.mapInfo[j].fInTried
                           /\ r.mapInfo[j].svc = m.mapInfo[j].svc
                           /\ j # id => r.mapInfo[j].nRefCount = m.mapInfo[j].nRefCount
      /\ r.mapInfo[id].nRefCount = 0
  BY <1>3 DEF UnbucketedOf, SameIndexes
<1>5. Indexed(r)
  BY <1>1, <1>4, SameIndexed
<1>6. NewOf(r) = NewOf(m) /\ TriedOf(r) = TriedOf(m)
  BY <1>4 DEF NewOf, TriedOf
<1>7. TriedTable(r, TriedOf(r))
  <2>1. \A j \in TriedOf(m) : /\ r.mapInfo[j].svc = m.mapInfo[j].svc
                              /\ r.mapInfo[j].nRefCount = m.mapInfo[j].nRefCount
    BY <1>4 DEF TriedOf, NewOf
  <2> QED
    BY ONLY <1>1, <1>4, <1>6, <2>1, TriedSame
<1>8. \A j : j # id => BucketsOf(r, j) = BucketsOf(m, j)
  BY <1>4 DEF BucketsOf
<1>9. \A b \in NewBuckets : r.vvNew[b] \subseteq NewOf(m) \ {id}
  BY <1>2, <1>4
<1>10. \A b \in NewBuckets : Cardinality(r.vvNew[b]) <= NewBucketSize
  <2> SUFFICES ASSUME NEW b \in NewBuckets PROVE Cardinality(r.vvNew[b]) <= NewBucketSize
    OBVIOUS
  <2>1. IsFiniteSet(m.vvNew[b]) /\ m.vvNew[b] \ {id} \in SUBSET m.vvNew[b]
    BY <1>1, <1>2, IdsFinite DEF NewOf
  <2>2. /\ Cardinality(m.vvNew[b] \ {id}) <= Cardinality(m.vvNew[b])
        /\ IsFiniteSet(m.vvNew[b] \ {id})
    BY <2>1, FS_Subset
  <2>3. /\ Cardinality(m.vvNew[b]) \in Nat /\ Cardinality(m.vvNew[b] \ {id}) \in Nat
        /\ NewBucketSize \in Nat
    BY <2>1, <2>2, FS_CardinalityType, AddrManAssumption
  <2>4. Cardinality(m.vvNew[b]) <= NewBucketSize
    BY <1>2
  <2>5. Cardinality(m.vvNew[b] \ {id}) <= NewBucketSize
    BY ONLY <2>2, <2>3, <2>4
  <2> QED
    BY <1>4, <2>5
<1>11. r.nNew = Cardinality(NewOf(m) \ {id})
  <2>1. IsFiniteSet(NewOf(m))
    BY <1>1, IdsFinite DEF NewOf
  <2> QED
    BY <1>2, <1>4, <2>1, FS_RemoveElement
<1>12. \A j \in NewOf(m) \ {id} : /\ IsFiniteSet(BucketsOf(r, j))
                                  /\ r.mapInfo[j].nRefCount = Cardinality(BucketsOf(r, j))
                                  /\ r.mapInfo[j].nRefCount \in 1 .. NewPerAddress
  BY <1>2, <1>4, <1>8 DEF NewOf
<1>13. NewTable(r, NewOf(r) \ {id})
  BY ONLY <1>6, <1>9, <1>10, <1>11, <1>12 DEF NewTable
<1>14. Between(r, id)
  BY <1>4, <1>5, <1>6, <1>7, <1>13 DEF Between
<1> QED
  BY <1>14

\* The tried buckets and the entries that are in one change.
Retried(m, v, n, info) == [m EXCEPT !.vvTried = v, !.nTried = n, !.mapInfo = info]

RetriedAs(m, r, v, n, info) ==
    /\ SameIndexes(m, r) /\ r.mapInfo = info
    /\ r.nNew = m.nNew /\ r.vvNew = m.vvNew
    /\ r.vvTried = v /\ r.nTried = n

LEMMA RetriedFields ==
    ASSUME NEW m \in Object, NEW v \in [TriedBuckets -> Seq(Nat)], NEW n \in Int,
           NEW info \in [Ids(m) -> Entry],
           \A j \in Ids(m) : /\ info[j].svc = m.mapInfo[j].svc
                             /\ info[j].source = m.mapInfo[j].source
                             /\ info[j].nRandomPos = m.mapInfo[j].nRandomPos
    PROVE  RetriedAs(m, Retried(m, v, n, info), v, n, info)
<1> PICK r : r = Retried(m, v, n, info)
  OBVIOUS
<1>1. info \in UNION {[S -> Entry] : S \in SUBSET Nat}
  BY ObjectFields
<1>2. /\ r \in Object /\ r.mapInfo = info /\ r.vvTried = v /\ r.nTried = n
      /\ r.nIdCount = m.nIdCount /\ r.mapAddr = m.mapAddr /\ r.vRandom = m.vRandom
      /\ r.nNew = m.nNew /\ r.vvNew = m.vvNew
  BY <1>1 DEF Object, Retried
<1>3. Ids(r) = Ids(m)
  BY <1>2 DEF Ids
<1>4. SameIndexes(m, r)
  BY <1>2, <1>3 DEF SameIndexes
<1> QED
  BY <1>2, <1>4 DEF RetriedAs

\* The ids of T are each once in the bucket that at gives them.
Placed(v, T, at) ==
    /\ \A k \in TriedBuckets :
        /\ Len(v[k]) <= TriedBucketSize
        /\ \A p \in 1 .. Len(v[k]) : v[k][p] \in T /\ at[v[k][p]] = k
        /\ \A p, q \in 1 .. Len(v[k]) : v[k][p] = v[k][q] => p = q
    /\ \A id \in T : \E p \in 1 .. Len(v[at[id]]) : v[at[id]][p] = id

TriedAt(m) == [id \in Ids(m) |-> TriedBucketOf[m.mapInfo[id].svc]]

LEMMA TriedTablePlaced ==
    ASSUME NEW m, NEW T, T \subseteq Ids(m)
    PROVE  TriedTable(m, T) <=> /\ Placed(m.vvTried, T, TriedAt(m))
                                /\ \A id \in T : m.mapInfo[id].nRefCount = 0
                                /\ m.nTried = Cardinality(T)
<1>1. PICK at : at = TriedAt(m)
  OBVIOUS
<1>2. \A id \in Ids(m) : at[id] = TriedBucketOf[m.mapInfo[id].svc]
  BY <1>1 DEF TriedAt
<1>3. PICK v : v = m.vvTried
  OBVIOUS
<1>4. ASSUME TriedTable(m, T) PROVE Placed(v, T, at)
  <2>1. /\ \A k \in TriedBuckets :
               /\ Len(v[k]) <= TriedBucketSize
               /\ \A p \in 1 .. Len(v[k]) :
                     v[k][p] \in T /\ TriedBucketOf[m.mapInfo[v[k][p]].svc] = k
               /\ \A p, q \in 1 .. Len(v[k]) : v[k][p] = v[k][q] => p = q
        /\ \A id \in T : \E p \in 1 .. Len(v[TriedBucketOf[m.mapInfo[id].svc]]) :
               v[TriedBucketOf[m.mapInfo[id].svc]][p] = id
    BY <1>3, <1>4 DEF TriedTable
  <2> QED
    BY <1>2, <2>1 DEF Placed
<1>5. ASSUME Placed(v, T, at),
             \A id \in T : m.mapInfo[id].nRefCount = 0,
             m.nTried = Cardinality(T)
      PROVE  TriedTable(m, T)
  <2>1. /\ \A k \in TriedBuckets :
               /\ Len(v[k]) <= TriedBucketSize
               /\ \A p \in 1 .. Len(v[k]) :
                     v[k][p] \in T /\ TriedBucketOf[m.mapInfo[v[k][p]].svc] = k
               /\ \A p, q \in 1 .. Len(v[k]) : v[k][p] = v[k][q] => p = q
        /\ \A id \in T : \E p \in 1 .. Len(v[TriedBucketOf[m.mapInfo[id].svc]]) :
               v[TriedBucketOf[m.mapInfo[id].svc]][p] = id
    BY <1>2, <1>5 DEF Placed
  <2> QED
    BY <1>3, <1>5, <2>1 DEF TriedTable
<1>6. TriedTable(m, T) => (\A id \in T : m.mapInfo[id].nRefCount = 0) /\ m.nTried = Cardinality(T)
  BY DEF TriedTable
<1> QED
  BY <1>1, <1>3, <1>4, <1>5, <1>6

\* An id is appended to its bucket.
LEMMA PlacedAppend ==
    ASSUME NEW v \in [TriedBuckets -> Seq(Nat)], NEW T, NEW at, Placed(v, T, at),
           NEW id \in Nat, id \notin T, NEW k \in TriedBuckets, at[id] = k,
           \A j \in T : at[j] \in TriedBuckets,
           Len(v[k]) < TriedBucketSize
    PROVE  Placed([v EXCEPT ![k] = Append(v[k], id)], T \cup {id}, at)
<1>1. PICK w : w = [v EXCEPT ![k] = Append(v[k], id)]
  OBVIOUS
<1>2. PICK L : L = Len(v[k])
  OBVIOUS
<1>3. PICK a : a = v[k]
  OBVIOUS
<1>4. a \in Seq(Nat) /\ L \in Nat /\ L = Len(a)
  BY <1>2, <1>3
<1>5. /\ w[k] = Append(a, id)
      /\ \A c \in TriedBuckets \ {k} : w[c] = v[c]
  BY <1>1, <1>3
<1>6. /\ Len(w[k]) = L + 1 /\ w[k][L + 1] = id
      /\ \A p \in 1 .. L : w[k][p] = a[p]
  BY <1>4, <1>5
<1>7. /\ L + 1 <= TriedBucketSize
      /\ \A p \in 1 .. L + 1 : p \in 1 .. L \/ p = L + 1
      /\ \A p \in 1 .. L : p \in 1 .. L + 1
      /\ L + 1 \in 1 .. L + 1
  <2>1. TriedBucketSize \in Nat
    BY AddrManAssumption
  <2>2. L < TriedBucketSize
    BY <1>2
  <2> QED
    BY <1>4, <2>1, <2>2
<1>8. /\ \A p \in 1 .. L : a[p] \in T /\ at[a[p]] = k
      /\ \A p, q \in 1 .. L : a[p] = a[q] => p = q
  BY <1>3, <1>4 DEF Placed
<1>9. ASSUME NEW c \in TriedBuckets
      PROVE  /\ Len(w[c]) <= TriedBucketSize
             /\ \A p \in 1 .. Len(w[c]) : w[c][p] \in T \cup {id} /\ at[w[c][p]] = c
             /\ \A p, q \in 1 .. Len(w[c]) : w[c][p] = w[c][q] => p = q
  <2>1. CASE c # k
    <3>1. w[c] = v[c]
      BY <1>5, <2>1
    <3>2. /\ Len(v[c]) <= TriedBucketSize
          /\ \A p \in 1 .. Len(v[c]) : v[c][p] \in T \cup {id} /\ at[v[c][p]] = c
          /\ \A p, q \in 1 .. Len(v[c]) : v[c][p] = v[c][q] => p = q
      BY DEF Placed
    <3> QED
      BY ONLY <3>1, <3>2
  <2>2. CASE c = k
    <3>1. \A p \in 1 .. L + 1 : w[k][p] \in T \cup {id} /\ at[w[k][p]] = k
      BY <1>6, <1>7, <1>8
    <3>2. \A p, q \in 1 .. L + 1 : w[k][p] = w[k][q] => p = q
      BY <1>6, <1>7, <1>8
    <3> QED
      BY ONLY <1>6, <1>7, <2>2, <3>1, <3>2
  <2> QED
    BY <2>1, <2>2
<1>10. ASSUME NEW j \in T \cup {id}
       PROVE  \E p \in 1 .. Len(w[at[j]]) : w[at[j]][p] = j
  <2>1. CASE j = id
    BY <1>6, <1>7, <2>1
  <2>2. CASE j \in T
    <3>1. PICK p \in 1 .. Len(v[at[j]]) : v[at[j]][p] = j
      BY <2>2 DEF Placed
    <3>2. CASE at[j] = k
      <4>1. p \in 1 .. L /\ a[p] = j
        BY <1>2, <1>3, <3>1, <3>2
      <4> QED
        BY <1>6, <1>7, <3>2, <4>1
    <3>3. CASE at[j] # k
      BY <1>5, <2>2, <3>1, <3>3
    <3> QED
      BY <3>2, <3>3
  <2> QED
    BY <2>1, <2>2
<1>11. Placed(w, T \cup {id}, at)
  BY ONLY <1>9, <1>10 DEF Placed
<1> QED
  BY <1>1, <1>11

\* The entry takes the place at the end of its tried bucket.
LEMMA AppendedInOrder ==
    ASSUME NEW m, NEW id, Between(m, id),
           NEW k, k = TriedBucketOf[m.mapInfo[id].svc],
           Len(m.vvTried[k]) < TriedBucketSize,
           NEW r, r = [m EXCEPT !.vvTried[k] = Append(@, id), !.nTried = @ + 1,
                                !.mapInfo[id].fInTried = TRUE]
    PROVE  InOrder(r) /\ SameIndexes(m, r) /\ TriedOf(r) = TriedOf(m) \cup {id}
<1> DEFINE w == [m.vvTried EXCEPT ![k] = Append(m.vvTried[k], id)]
           n == m.nTried + 1
           info == [m.mapInfo EXCEPT ![id].fInTried = TRUE]
<1>1. r = Retried(m, w, n, info)
  BY DEF Retried
<1>2. /\ Indexed(m) /\ m \in Object /\ id \in NewOf(m) /\ id \in Ids(m)
      /\ m.mapInfo[id].nRefCount = 0
      /\ NewTable(m, NewOf(m) \ {id}) /\ TriedTable(m, TriedOf(m))
  BY DEF Between, Indexed, NewOf
<1>3. /\ m.mapInfo \in [Ids(m) -> Entry] /\ Ids(m) \subseteq Nat /\ m.nTried \in Int
      /\ m.vvTried \in [TriedBuckets -> Seq(Nat)]
  BY <1>2, ObjectFields
<1>4. k \in TriedBuckets /\ \A j \in Ids(m) : TriedAt(m)[j] \in TriedBuckets
  <2>1. \A j \in Ids(m) : m.mapInfo[j].svc \in Svc
    BY <1>3, EntryFields
  <2> QED
    BY <1>2, <2>1, AddrManAssumption DEF TriedAt
<1>5. w \in [TriedBuckets -> Seq(Nat)] /\ n \in Int
  BY <1>2, <1>3, <1>4
<1>6. info \in [Ids(m) -> Entry]
  BY <1>2, <1>3 DEF Entry
<1>7. \A j \in Ids(m) : /\ info[j].svc = m.mapInfo[j].svc
                        /\ info[j].source = m.mapInfo[j].source
                        /\ info[j].nRandomPos = m.mapInfo[j].nRandomPos
                        /\ info[j].nRefCount = m.mapInfo[j].nRefCount
                        /\ info[j].fInTried = IF j = id THEN TRUE ELSE m.mapInfo[j].fInTried
  BY <1>2, <1>3 DEF Entry
<1>8. TriedOf(m) \subseteq Ids(m) /\ id \notin TriedOf(m)
  BY <1>2 DEF TriedOf, NewOf
<1>9. /\ Placed(m.vvTried, TriedOf(m), TriedAt(m))
      /\ \A j \in TriedOf(m) : m.mapInfo[j].nRefCount = 0
      /\ m.nTried = Cardinality(TriedOf(m))
  BY <1>2, <1>8, TriedTablePlaced
<1>10. Placed(w, TriedOf(m) \cup {id}, TriedAt(m))
  <2>1. TriedAt(m)[id] = k /\ id \in Nat
    BY <1>2, <1>3 DEF TriedAt
  <2> QED
    BY <1>3, <1>4, <1>8, <1>9, <2>1, PlacedAppend
<1> HIDE DEF w, n, info
<1>11. /\ SameIndexes(m, r) /\ r.mapInfo = info
       /\ r.nNew = m.nNew /\ r.vvNew = m.vvNew
       /\ r.vvTried = w /\ r.nTried = n
  <2>1. RetriedAs(m, Retried(m, w, n, info), w, n, info)
    BY ONLY <1>2, <1>5, <1>6, <1>7, RetriedFields
  <2> QED
    BY ONLY <1>1, <2>1 DEF RetriedAs
<1>12. Indexed(r) /\ Ids(r) = Ids(m)
  <2>1. Indexed(r)
    BY ONLY <1>2, <1>11, SameIndexed
  <2> QED
    BY <1>11, <2>1 DEF SameIndexes
<1>13. NewOf(r) = NewOf(m) \ {id} /\ TriedOf(r) = TriedOf(m) \cup {id}
  <2>1. /\ Ids(r) = Ids(m)
        /\ \A j \in Ids(m) : r.mapInfo[j].fInTried = (j = id \/ m.mapInfo[j].fInTried)
    <3>1. \A j \in Ids(m) : r.mapInfo[j].fInTried = IF j = id THEN TRUE ELSE m.mapInfo[j].fInTried
      BY ONLY <1>7, <1>11
    <3>2. \A j \in Ids(m) : m.mapInfo[j].fInTried \in BOOLEAN
      BY <1>3, EntryFields
    <3> QED
      BY ONLY <1>12, <3>1, <3>2
  <2> QED
    BY ONLY <1>2, <2>1 DEF NewOf, TriedOf
<1>14. NewTable(r, NewOf(r))
  <2>1. \A j \in NewOf(m) \ {id} : r.mapInfo[j].nRefCount = m.mapInfo[j].nRefCount
    BY <1>7, <1>11 DEF NewOf
  <2> QED
    BY ONLY <1>2, <1>11, <1>13, <2>1, NewSame
<1>15. TriedTable(r, TriedOf(r))
  <2>1. TriedAt(r) = TriedAt(m)
    <3>1. Ids(r) = Ids(m) /\ \A j \in Ids(m) : r.mapInfo[j].svc = m.mapInfo[j].svc
      BY ONLY <1>7, <1>11, <1>12
    <3> QED
      BY ONLY <3>1 DEF TriedAt
  <2>2. \A j \in TriedOf(m) \cup {id} : r.mapInfo[j].nRefCount = 0
    BY <1>2, <1>7, <1>8, <1>9, <1>11
  <2>3. IsFiniteSet(TriedOf(m))
    BY <1>2, <1>8, IdsFinite
  <2>4. n = Cardinality(TriedOf(m) \cup {id})
    BY <1>8, <1>9, <2>3, FS_AddElement DEF n
  <2>5. TriedOf(r) \subseteq Ids(r)
    BY DEF TriedOf
  <2>6. Placed(r.vvTried, TriedOf(r), TriedAt(r)) /\ r.nTried = Cardinality(TriedOf(r))
    BY <1>10, <1>11, <1>13, <2>1, <2>4
  <2>7. \A j \in TriedOf(r) : r.mapInfo[j].nRefCount = 0
    BY <1>13, <2>2
  <2> QED
    BY ONLY <2>5, <2>6, <2>7, TriedTablePlaced
<1>16. InOrder(r)
  BY <1>12, <1>14, <1>15 DEF InOrder
<1> QED
  BY <1>11, <1>13, <1>16

\* The bucket is shuffled.
LEMMA PlacedShuffled ==
    ASSUME NEW v, NEW T, NEW at, Placed(v, T, at),
           NEW k \in TriedBuckets, NEW n, n = Len(v[k]), NEW order \in Orders(n),
           \A j \in T : at[j] \in TriedBuckets,
           NEW w, \A c \in TriedBuckets \ {k} : w[c] = v[c],
           Len(w[k]) = n, \A p \in 1 .. n : w[k][p] = v[k][order[p]]
    PROVE  Placed(w, T, at)
<1>1. PICK a, s : a = v[k] /\ s = w[k]
  OBVIOUS
<1>2. /\ order \in [1 .. n -> 1 .. n]
      /\ \A p, q \in 1 .. n : order[p] = order[q] => p = q
      /\ \A q \in 1 .. n : \E p \in 1 .. n : order[p] = q
  BY DEF Orders, Bijection, Injection, Surjection, IsInjective
<1>3. \A p \in 1 .. n : s[p] = a[order[p]]
  BY <1>1
<1>4. /\ w[k] = s /\ Len(s) = n
      /\ \A c \in TriedBuckets \ {k} : w[c] = v[c]
  BY <1>1
<1>5. /\ \A p \in 1 .. n : a[p] \in T /\ at[a[p]] = k
      /\ \A p, q \in 1 .. n : a[p] = a[q] => p = q
      /\ n <= TriedBucketSize
  BY <1>1 DEF Placed
<1>6. ASSUME NEW c \in TriedBuckets
       PROVE  /\ Len(w[c]) <= TriedBucketSize
              /\ \A p \in 1 .. Len(w[c]) : w[c][p] \in T /\ at[w[c][p]] = c
              /\ \A p, q \in 1 .. Len(w[c]) : w[c][p] = w[c][q] => p = q
  <2>1. CASE c # k
    <3>1. w[c] = v[c]
      BY <1>4, <2>1
    <3>2. /\ Len(v[c]) <= TriedBucketSize
          /\ \A p \in 1 .. Len(v[c]) : v[c][p] \in T /\ at[v[c][p]] = c
          /\ \A p, q \in 1 .. Len(v[c]) : v[c][p] = v[c][q] => p = q
      BY DEF Placed
    <3> QED
      BY ONLY <3>1, <3>2
  <2>2. CASE c = k
    <3>1. \A p \in 1 .. n : s[p] \in T /\ at[s[p]] = k
      BY ONLY <1>2, <1>3, <1>5
    <3>2. ASSUME NEW p \in 1 .. n, NEW q \in 1 .. n, s[p] = s[q] PROVE p = q
      <4>1. a[order[p]] = a[order[q]]
        BY ONLY <1>3, <3>2
      <4>2. order[p] \in 1 .. n /\ order[q] \in 1 .. n
        BY ONLY <1>2
      <4>3. order[p] = order[q]
        BY ONLY <1>5, <4>1, <4>2
      <4> QED
        BY ONLY <1>2, <4>3
    <3> QED
      BY ONLY <1>4, <1>5, <2>2, <3>1, <3>2
  <2> QED
    BY <2>1, <2>2
<1>7. ASSUME NEW j \in T
       PROVE  \E p \in 1 .. Len(w[at[j]]) : w[at[j]][p] = j
  <2>1. PICK p \in 1 .. Len(v[at[j]]) : v[at[j]][p] = j
    BY DEF Placed
  <2>2. CASE at[j] = k
    <3>1. p \in 1 .. n /\ a[p] = j
      BY <1>1, <2>1, <2>2
    <3>2. PICK q \in 1 .. n : order[q] = p
      BY <1>2, <3>1
    <3> QED
      BY <1>3, <1>4, <2>2, <3>1, <3>2
  <2>3. CASE at[j] # k
    BY <1>4, <2>1, <2>3
  <2> QED
    BY <2>2, <2>3
<1>8. Placed(w, T, at)
  BY ONLY <1>6, <1>7 DEF Placed
<1> QED
  BY <1>8

\* An id takes the place of another one of its bucket.
LEMMA PlacedReplaced ==
    ASSUME NEW v, NEW T, NEW at, Placed(v, T, at),
           NEW k \in TriedBuckets, NEW n, n = Len(v[k]), NEW i \in 1 .. n,
           NEW old, old = v[k][i],
           NEW id, id \notin T, at[id] = k,
           \A j \in T : at[j] \in TriedBuckets,
           NEW w, \A c \in TriedBuckets \ {k} : w[c] = v[c],
           Len(w[k]) = n, w[k][i] = id,
           \A p \in 1 .. n : p # i => w[k][p] = v[k][p],
           NEW U, U = (T \ {old}) \cup {id}
    PROVE  Placed(w, U, at)
<1>1. PICK a, s : a = v[k] /\ s = w[k]
  OBVIOUS
<1>2. i \in 1 .. n /\ old = a[i]
  BY <1>1
<1>3. /\ Len(s) = n /\ s[i] = id
      /\ \A p \in 1 .. n : p # i => s[p] = a[p]
  BY <1>1
<1>4. /\ w[k] = s
      /\ \A c \in TriedBuckets \ {k} : w[c] = v[c]
  BY <1>1
<1>5. /\ \A p \in 1 .. n : a[p] \in T /\ at[a[p]] = k
      /\ \A p, q \in 1 .. n : a[p] = a[q] => p = q
      /\ n <= TriedBucketSize
  BY <1>1 DEF Placed
<1>6. U = (T \ {old}) \cup {id}
  OBVIOUS
<1>7. ASSUME NEW c \in TriedBuckets
       PROVE  /\ Len(w[c]) <= TriedBucketSize
              /\ \A p \in 1 .. Len(w[c]) : w[c][p] \in U /\ at[w[c][p]] = c
              /\ \A p, q \in 1 .. Len(w[c]) : w[c][p] = w[c][q] => p = q
  <2>1. CASE c # k
    <3>1. w[c] = v[c]
      BY <1>4, <2>1
    <3>2. /\ Len(v[c]) <= TriedBucketSize
          /\ \A p \in 1 .. Len(v[c]) : v[c][p] \in T /\ at[v[c][p]] = c
          /\ \A p, q \in 1 .. Len(v[c]) : v[c][p] = v[c][q] => p = q
      BY DEF Placed
    <3>3. at[old] = k
      BY <1>2, <1>5
    <3>4. \A p \in 1 .. Len(v[c]) : v[c][p] \in U
      BY <1>6, <2>1, <3>2, <3>3
    <3> QED
      BY ONLY <3>1, <3>2, <3>4
  <2>2. CASE c = k
    <3>1. ASSUME NEW p \in 1 .. n PROVE s[p] \in U /\ at[s[p]] = k
      <4>1. CASE p = i
        BY <1>3, <1>6, <4>1
      <4>2. CASE p # i
        <5>1. s[p] = a[p] /\ a[p] # old /\ a[p] \in T /\ at[a[p]] = k
          BY <1>2, <1>3, <1>5, <4>2
        <5> QED
          BY <1>6, <5>1
      <4> QED
        BY <4>1, <4>2
    <3>2. ASSUME NEW p \in 1 .. n, NEW q \in 1 .. n, s[p] = s[q] PROVE p = q
      <4>1. CASE p # i /\ q # i
        <5>1. a[p] = a[q]
          BY ONLY <1>3, <3>2, <4>1
        <5> QED
          BY ONLY <1>5, <5>1
      <4>2. CASE p = i /\ q # i
        <5>1. s[q] \in T /\ s[p] = id
          BY <1>3, <1>5, <4>2
        <5> QED
          BY <3>2, <5>1
      <4>3. CASE p # i /\ q = i
        <5>1. s[p] \in T /\ s[q] = id
          BY <1>3, <1>5, <4>3
        <5> QED
          BY <3>2, <5>1
      <4> QED
        BY <4>1, <4>2, <4>3
    <3> QED
      BY ONLY <1>3, <1>4, <1>5, <2>2, <3>1, <3>2
  <2> QED
    BY <2>1, <2>2
<1>8. ASSUME NEW j \in U
       PROVE  \E p \in 1 .. Len(w[at[j]]) : w[at[j]][p] = j
  <2>1. CASE j = id
    BY <1>2, <1>3, <1>4, <2>1
  <2>2. CASE j \in T /\ j # old
    <3>1. PICK p \in 1 .. Len(v[at[j]]) : v[at[j]][p] = j
      BY <2>2 DEF Placed
    <3>2. CASE at[j] = k
      <4>1. p \in 1 .. n /\ a[p] = j /\ p # i
        BY <1>1, <1>2, <2>2, <3>1, <3>2
      <4> QED
        BY <1>3, <1>4, <3>2, <4>1
    <3>3. CASE at[j] # k
      BY <1>4, <2>2, <3>1, <3>3
    <3> QED
      BY <3>2, <3>3
  <2> QED
    BY <1>6, <2>1, <2>2
<1>9. Placed(w, U, at)
  BY ONLY <1>7, <1>8 DEF Placed
<1> QED
  BY <1>9

\* The bucket is shuffled before an entry is evicted from it.
LEMMA ShuffledBetween ==
    ASSUME NEW m, NEW id, Between(m, id),
           NEW k \in TriedBuckets, NEW n, n = Len(m.vvTried[k]), NEW order \in Orders(n),
           NEW r, r = [m EXCEPT !.vvTried[k] = [j \in 1 .. n |-> m.vvTried[k][order[j]]]]
    PROVE  /\ Between(r, id) /\ SameIndexes(m, r) /\ r.mapInfo = m.mapInfo
           /\ r.vvNew = m.vvNew /\ Len(r.vvTried[k]) = n
<1>1. PICK w : w = [m.vvTried EXCEPT ![k] = [j \in 1 .. n |-> m.vvTried[k][order[j]]]]
  OBVIOUS
<1>2. r = [m EXCEPT !.vvTried = w]
  BY <1>1
<1>3. /\ Indexed(m) /\ m \in Object /\ id \in NewOf(m)
      /\ m.mapInfo[id].nRefCount = 0
      /\ NewTable(m, NewOf(m) \ {id}) /\ TriedTable(m, TriedOf(m))
      /\ TriedOf(m) \subseteq Ids(m)
  BY DEF Between, Indexed, TriedOf
<1>4. m.vvTried \in [TriedBuckets -> Seq(Nat)] /\ m.mapInfo \in [Ids(m) -> Entry]
  BY <1>3, ObjectFields
<1>5. \A j \in TriedOf(m) : TriedAt(m)[j] \in TriedBuckets
  <2>1. \A j \in Ids(m) : m.mapInfo[j].svc \in Svc
    BY <1>4, EntryFields
  <2> QED
    BY <1>3, <2>1, AddrManAssumption DEF TriedAt
<1>6. /\ Placed(m.vvTried, TriedOf(m), TriedAt(m))
      /\ \A j \in TriedOf(m) : m.mapInfo[j].nRefCount = 0
      /\ m.nTried = Cardinality(TriedOf(m))
  BY <1>3, TriedTablePlaced
<1>7. w \in [TriedBuckets -> Seq(Nat)] /\ Len(w[k]) = n /\ Placed(w, TriedOf(m), TriedAt(m))
  <2>1. PICK s : s = [j \in 1 .. n |-> m.vvTried[k][order[j]]]
    OBVIOUS
  <2>2. PICK a : a = m.vvTried[k]
    OBVIOUS
  <2>3. a \in Seq(Nat) /\ n = Len(a) /\ n \in Nat /\ order \in [1 .. n -> 1 .. n]
    BY <1>4, <2>2 DEF Orders, Bijection, Injection
  <2>4. s = [j \in 1 .. n |-> a[order[j]]]
    BY <2>1, <2>2
  <2>5. s \in [1 .. n -> Nat]
    BY ONLY <2>3, <2>4
  <2>6. s \in Seq(Nat) /\ Len(s) = n
    BY ONLY <2>3, <2>5
  <2>7. w = [m.vvTried EXCEPT ![k] = s]
    BY <1>1, <2>1
  <2>8. /\ w \in [TriedBuckets -> Seq(Nat)] /\ w[k] = s
        /\ \A c \in TriedBuckets \ {k} : w[c] = m.vvTried[c]
    BY <1>4, <2>6, <2>7
  <2>9. \A p \in 1 .. n : w[k][p] = m.vvTried[k][order[p]]
    BY <2>1, <2>8
  <2>10. Placed(w, TriedOf(m), TriedAt(m))
    <3>1. PICK v, T, at : v = m.vvTried /\ T = TriedOf(m) /\ at = TriedAt(m)
      OBVIOUS
    <3>2. /\ Placed(v, T, at) /\ k \in TriedBuckets /\ n = Len(v[k]) /\ order \in Orders(n)
          /\ \A j \in T : at[j] \in TriedBuckets
      BY <1>5, <1>6, <3>1
    <3>3. /\ \A c \in TriedBuckets \ {k} : w[c] = v[c]
          /\ Len(w[k]) = n /\ \A p \in 1 .. n : w[k][p] = v[k][order[p]]
      BY <2>6, <2>8, <2>9, <3>1
    <3>4. Placed(w, T, at)
      BY ONLY <3>2, <3>3, PlacedShuffled
    <3> QED
      BY <3>1, <3>4
  <2> QED
    BY <2>6, <2>8, <2>10
<1>8. /\ r \in Object /\ r.mapInfo = m.mapInfo /\ r.vvTried = w
      /\ r.nIdCount = m.nIdCount /\ r.mapAddr = m.mapAddr /\ r.vRandom = m.vRandom
      /\ r.nNew = m.nNew /\ r.vvNew = m.vvNew /\ r.nTried = m.nTried
  BY ONLY <1>2, <1>3, <1>7 DEF Object
<1>9. Ids(r) = Ids(m) /\ TriedAt(r) = TriedAt(m) /\ NewOf(r) = NewOf(m) /\ TriedOf(r) = TriedOf(m)
  BY ONLY <1>8 DEF Ids, TriedAt, NewOf, TriedOf
<1>10. SameIndexes(m, r)
  BY ONLY <1>8, <1>9 DEF SameIndexes
<1>11. Indexed(r)
  BY ONLY <1>3, <1>10, SameIndexed
<1>12. NewTable(r, NewOf(r) \ {id})
  BY ONLY <1>3, <1>8, <1>9, NewSame
<1>13. TriedTable(r, TriedOf(r))
  <2>1. /\ TriedOf(r) \subseteq Ids(r)
        /\ Placed(r.vvTried, TriedOf(r), TriedAt(r))
        /\ \A j \in TriedOf(r) : r.mapInfo[j].nRefCount = 0
        /\ r.nTried = Cardinality(TriedOf(r))
    BY ONLY <1>3, <1>6, <1>7, <1>8, <1>9
  <2> QED
    BY ONLY <2>1, TriedTablePlaced
<1>14. Between(r, id)
  BY ONLY <1>3, <1>8, <1>9, <1>11, <1>12, <1>13 DEF Between
<1> QED
  BY <1>7, <1>8, <1>10, <1>14

\* A table of entries with one count changed.
LEMMA Recount ==
    ASSUME NEW S, NEW f \in [S -> Entry], NEW x \in S, NEW n \in Nat
    PROVE  LET g == [f EXCEPT ![x].nRefCount = n] IN
           /\ g \in [S -> Entry]
           /\ \A y \in S :
                 /\ g[y].svc = f[y].svc /\ g[y].source = f[y].source
                 /\ g[y].nRandomPos = f[y].nRandomPos /\ g[y].fInTried = f[y].fInTried
                 /\ g[y].nRefCount = IF y = x THEN n ELSE f[y].nRefCount
  BY DEF Entry

\* What Replaced does to the fields.
ReplacedOf(m, r, id, k, i, old, f) ==
    /\ SameIndexes(m, r)
    /\ \A j \in Ids(m) :
          /\ r.mapInfo[j].fInTried = (j = id \/ (j # old /\ m.mapInfo[j].fInTried))
          /\ r.mapInfo[j].nRefCount = IF j = old THEN 1 ELSE m.mapInfo[j].nRefCount
    /\ r.nNew = m.nNew + 1 /\ r.nTried = m.nTried
    /\ r.vvNew[f] = m.vvNew[f] \cup {old}
    /\ \A b \in NewBuckets \ {f} : r.vvNew[b] = m.vvNew[b]
    /\ \A c \in TriedBuckets \ {k} : r.vvTried[c] = m.vvTried[c]
    /\ Len(r.vvTried[k]) = Len(m.vvTried[k]) /\ r.vvTried[k][i] = id
    /\ \A p \in 1 .. Len(m.vvTried[k]) : p # i => r.vvTried[k][p] = m.vvTried[k][p]

LEMMA ReplacedFields ==
    ASSUME NEW m \in Object, NEW id \in Ids(m), NEW k \in TriedBuckets,
           NEW i \in 1 .. Len(m.vvTried[k]),
           NEW old \in Ids(m), old = m.vvTried[k][i], old # id,
           NEW origin, NEW f \in NewBuckets, f = Refuge(m, old, origin)
    PROVE  ReplacedOf(m, Replaced(m, id, k, i, origin), id, k, i, old, f)
<1>1. PICK r : r = Replaced(m, id, k, i, origin)
  OBVIOUS
<1> DEFINE info == [m.mapInfo EXCEPT ![old].fInTried = FALSE, ![old].nRefCount = 1,
                                     ![id].fInTried = TRUE]
           buckets == [m.vvNew EXCEPT ![f] = m.vvNew[f] \cup {old}]
           w == [m.vvTried EXCEPT ![k][i] = id]
           more == m.nNew + 1
<1>2. r = [m EXCEPT !.mapInfo = info, !.vvNew = buckets, !.nNew = more, !.vvTried = w]
  BY <1>1 DEF Replaced
<1>3. /\ m.mapInfo \in [Ids(m) -> Entry] /\ Ids(m) \in SUBSET Nat /\ m.nNew \in Int
      /\ m.vvNew \in [NewBuckets -> SUBSET Nat]
      /\ m.vvTried \in [TriedBuckets -> Seq(Nat)]
  BY ObjectFields
<1>4. /\ info \in [Ids(m) -> Entry]
      /\ \A j \in Ids(m) :
            /\ info[j].svc = m.mapInfo[j].svc /\ info[j].source = m.mapInfo[j].source
            /\ info[j].nRandomPos = m.mapInfo[j].nRandomPos
            /\ info[j].fInTried = (j = id \/ (j # old /\ m.mapInfo[j].fInTried))
            /\ info[j].nRefCount = IF j = old THEN 1 ELSE m.mapInfo[j].nRefCount
  <2> DEFINE g == [m.mapInfo EXCEPT ![old].fInTried = FALSE]
             h == [g EXCEPT ![old].nRefCount = 1]
  <2>1. info = [h EXCEPT ![id].fInTried = TRUE]
    OBVIOUS
  <2> HIDE DEF info
  <2>2. /\ g \in [Ids(m) -> Entry]
        /\ \A j \in Ids(m) :
              /\ g[j].svc = m.mapInfo[j].svc /\ g[j].source = m.mapInfo[j].source
              /\ g[j].nRandomPos = m.mapInfo[j].nRandomPos
              /\ g[j].nRefCount = m.mapInfo[j].nRefCount
              /\ g[j].fInTried = IF j = old THEN FALSE ELSE m.mapInfo[j].fInTried
    BY <1>3 DEF Entry
  <2> HIDE DEF g
  <2>3. /\ h \in [Ids(m) -> Entry]
        /\ \A j \in Ids(m) :
              /\ h[j].svc = g[j].svc /\ h[j].source = g[j].source
              /\ h[j].nRandomPos = g[j].nRandomPos
              /\ h[j].fInTried = g[j].fInTried
              /\ h[j].nRefCount = IF j = old THEN 1 ELSE g[j].nRefCount
    BY <2>2, Recount
  <2> HIDE DEF h
  <2> DEFINE i3 == [h EXCEPT ![id].fInTried = TRUE]
  <2>4. /\ i3 \in [Ids(m) -> Entry]
        /\ \A j \in Ids(m) :
              /\ i3[j].svc = h[j].svc /\ i3[j].source = h[j].source
              /\ i3[j].nRandomPos = h[j].nRandomPos
              /\ i3[j].nRefCount = h[j].nRefCount
              /\ i3[j].fInTried = IF j = id THEN TRUE ELSE h[j].fInTried
    <3>1. h \in [Ids(m) -> Entry] /\ id \in Ids(m)
      BY <2>3
    <3> QED
      BY ONLY <3>1 DEF Entry
  <2>5. info = i3
    BY <2>1
  <2> HIDE DEF i3
  <2>6. \A j \in Ids(m) : m.mapInfo[j].fInTried \in BOOLEAN
    BY <1>3, EntryFields
  <2>7. ASSUME NEW j \in Ids(m)
        PROVE  info[j].fInTried = (j = id \/ (j # old /\ m.mapInfo[j].fInTried))
    <3>1. info[j].fInTried = IF j = id THEN TRUE
                             ELSE IF j = old THEN FALSE ELSE m.mapInfo[j].fInTried
      BY ONLY <2>2, <2>3, <2>4, <2>5, <2>7
    <3> QED
      BY ONLY <2>6, <2>7, <3>1
  <2>8. \A j \in Ids(m) :
           /\ info[j].svc = m.mapInfo[j].svc /\ info[j].source = m.mapInfo[j].source
           /\ info[j].nRandomPos = m.mapInfo[j].nRandomPos
           /\ info[j].nRefCount = IF j = old THEN 1 ELSE m.mapInfo[j].nRefCount
    <3> SUFFICES ASSUME NEW j \in Ids(m)
                 PROVE  /\ info[j].svc = m.mapInfo[j].svc /\ info[j].source = m.mapInfo[j].source
                        /\ info[j].nRandomPos = m.mapInfo[j].nRandomPos
                        /\ info[j].nRefCount = IF j = old THEN 1 ELSE m.mapInfo[j].nRefCount
      OBVIOUS
    <3>1. /\ info[j].svc = g[j].svc /\ info[j].source = g[j].source
          /\ info[j].nRandomPos = g[j].nRandomPos
          /\ info[j].nRefCount = IF j = old THEN 1 ELSE g[j].nRefCount
      BY ONLY <2>3, <2>4, <2>5, j \in Ids(m)
    <3> QED
      BY ONLY <2>2, <3>1, j \in Ids(m)
  <2>9. info \in [Ids(m) -> Entry]
    BY ONLY <2>4, <2>5
  <2> QED
    BY ONLY <2>7, <2>8, <2>9
<1>5. /\ buckets \in [NewBuckets -> SUBSET Nat] /\ buckets[f] = m.vvNew[f] \cup {old}
      /\ \A b \in NewBuckets \ {f} : buckets[b] = m.vvNew[b]
  BY <1>3
<1>6. /\ w \in [TriedBuckets -> Seq(Nat)]
      /\ \A c \in TriedBuckets \ {k} : w[c] = m.vvTried[c]
      /\ Len(w[k]) = Len(m.vvTried[k]) /\ w[k][i] = id
      /\ \A p \in 1 .. Len(m.vvTried[k]) : p # i => w[k][p] = m.vvTried[k][p]
  <2>1. PICK a, s : a = m.vvTried[k] /\ s = [a EXCEPT ![i] = id]
    OBVIOUS
  <2>2. a \in Seq(Nat) /\ i \in 1 .. Len(a) /\ id \in Nat
    BY <1>3, <2>1
  <2>3. /\ s \in Seq(Nat) /\ Len(s) = Len(a) /\ s[i] = id
        /\ \A p \in 1 .. Len(a) : p # i => s[p] = a[p]
    BY ONLY <2>1, <2>2
  <2>4. w = [m.vvTried EXCEPT ![k] = s]
    BY <2>1
  <2>5. /\ w \in [TriedBuckets -> Seq(Nat)] /\ w[k] = s
        /\ \A c \in TriedBuckets \ {k} : w[c] = m.vvTried[c]
    BY <1>3, <2>3, <2>4
  <2> HIDE DEF w
  <2> QED
    BY <2>1, <2>3, <2>5
<1>7. more \in Int /\ more = m.nNew + 1
  BY <1>3
<1> HIDE DEF info, buckets, w, more
<1>8. info \in UNION {[S -> Entry] : S \in SUBSET Nat}
  BY <1>3, <1>4
<1>9. /\ r \in Object /\ r.mapInfo = info /\ r.vvNew = buckets /\ r.nNew = more
      /\ r.vvTried = w /\ r.nTried = m.nTried
      /\ r.nIdCount = m.nIdCount /\ r.mapAddr = m.mapAddr /\ r.vRandom = m.vRandom
  BY ONLY <1>2, <1>5, <1>6, <1>7, <1>8, m \in Object DEF Object
<1>10. Ids(r) = Ids(m)
  BY ONLY <1>4, <1>9 DEF Ids
<1>11. SameIndexes(m, r)
  BY ONLY <1>4, <1>9, <1>10 DEF SameIndexes
<1>12. ReplacedOf(m, r, id, k, i, old, f)
  BY ONLY <1>4, <1>5, <1>6, <1>7, <1>9, <1>11 DEF ReplacedOf
<1> QED
  BY <1>1, <1>12

Evicts(m, r, id) ==
    \E old \in TriedOf(m) : TriedOf(r) = (TriedOf(m) \ {old}) \cup {id}

\* A tried entry gives its place to another one and goes to a new bucket,
\* which has room for it.
LEMMA EvictedInOrder ==
    ASSUME NEW m, NEW id, Between(m, id),
           NEW k, k = TriedBucketOf[m.mapInfo[id].svc],
           NEW i \in 1 .. Len(m.vvTried[k]),
           NEW origin \in NewBuckets, Cardinality(m.vvNew[origin]) < NewBucketSize,
           NEW r, r = Replaced(m, id, k, i, origin)
    PROVE  InOrder(r) /\ SameIndexes(m, r) /\ Evicts(m, r, id)
<1>1. PICK old, f : old = m.vvTried[k][i] /\ f = Refuge(m, old, origin)
  OBVIOUS
<1>2. PICK N, T : N = NewOf(m) \ {id} /\ T = TriedOf(m)
  OBVIOUS
<1>3. /\ Indexed(m) /\ m \in Object /\ id \in NewOf(m) /\ id \in Ids(m)
      /\ m.mapInfo[id].nRefCount = 0
      /\ NewTable(m, N) /\ TriedTable(m, T) /\ T \subseteq Ids(m) /\ id \notin T
      /\ N \subseteq Ids(m) /\ id \notin N
  BY <1>2 DEF Between, Indexed, NewOf, TriedOf
<1>4. /\ m.mapInfo \in [Ids(m) -> Entry] /\ Ids(m) \subseteq Nat /\ m.nNew \in Int
  BY <1>3, ObjectFields
<1>5. \A j \in Ids(m) : /\ m.mapInfo[j].svc \in Svc /\ m.mapInfo[j].source \in Source
                        /\ m.mapInfo[j].fInTried \in BOOLEAN
  BY <1>4, EntryFields
<1>6. k \in TriedBuckets /\ \A j \in Ids(m) : TriedAt(m)[j] \in TriedBuckets
  BY <1>3, <1>5, AddrManAssumption DEF TriedAt
<1>7. /\ Placed(m.vvTried, T, TriedAt(m))
      /\ \A j \in T : m.mapInfo[j].nRefCount = 0
      /\ m.nTried = Cardinality(T)
  BY <1>3, TriedTablePlaced
<1>8. old \in T /\ old \in Ids(m) /\ old # id /\ old \notin N
  <2>1. old \in T
    BY <1>1, <1>6, <1>7 DEF Placed
  <2> QED
    BY <1>2, <1>3, <2>1 DEF TriedOf, NewOf
<1>9. f \in NewBuckets /\ Cardinality(m.vvNew[f]) < NewBucketSize
  <2>1. HostOf[m.mapInfo[old].svc] \in Host
    BY <1>5, <1>8, AddrManAssumption
  <2>2. NewBucketOf[HostOf[m.mapInfo[old].svc]][m.mapInfo[old].source] \in NewBuckets
    BY <1>5, <1>8, <2>1, AddrManAssumption
  <2> QED
    BY <1>1, <2>2 DEF Refuge
<1>10. ReplacedOf(m, r, id, k, i, old, f)
  BY <1>1, <1>3, <1>6, <1>8, <1>9, ReplacedFields
<1>11. /\ SameIndexes(m, r) /\ Ids(r) = Ids(m)
       /\ \A j \in Ids(m) :
             /\ r.mapInfo[j].svc = m.mapInfo[j].svc
             /\ r.mapInfo[j].fInTried = (j = id \/ (j # old /\ m.mapInfo[j].fInTried))
             /\ r.mapInfo[j].nRefCount = IF j = old THEN 1 ELSE m.mapInfo[j].nRefCount
       /\ r.nNew = m.nNew + 1 /\ r.nTried = m.nTried
       /\ r.vvNew[f] = m.vvNew[f] \cup {old}
       /\ \A b \in NewBuckets \ {f} : r.vvNew[b] = m.vvNew[b]
       /\ \A c \in TriedBuckets \ {k} : r.vvTried[c] = m.vvTried[c]
       /\ Len(r.vvTried[k]) = Len(m.vvTried[k]) /\ r.vvTried[k][i] = id
       /\ \A p \in 1 .. Len(m.vvTried[k]) : p # i => r.vvTried[k][p] = m.vvTried[k][p]
  BY <1>10 DEF ReplacedOf, SameIndexes
<1>12. Indexed(r)
  BY ONLY <1>3, <1>11, SameIndexed
<1>13. NewOf(r) = N \cup {old} /\ TriedOf(r) = (T \ {old}) \cup {id}
  BY ONLY <1>2, <1>3, <1>5, <1>8, <1>11 DEF NewOf, TriedOf
<1>14. /\ \A b \in NewBuckets : m.vvNew[b] \subseteq N
       /\ \A b \in NewBuckets : Cardinality(m.vvNew[b]) <= NewBucketSize
       /\ \A j \in N : /\ IsFiniteSet(BucketsOf(m, j))
                       /\ m.mapInfo[j].nRefCount = Cardinality(BucketsOf(m, j))
                       /\ m.mapInfo[j].nRefCount \in 1 .. NewPerAddress
       /\ m.nNew = Cardinality(N)
  BY ONLY <1>3 DEF NewTable
<1>15. \A b \in NewBuckets : r.vvNew[b] \subseteq N \cup {old}
  BY ONLY <1>11, <1>14
<1>16. \A b \in NewBuckets : Cardinality(r.vvNew[b]) <= NewBucketSize
  <2>1. m.vvNew[f] \in SUBSET Ids(m)
    BY <1>3, <1>9, <1>14
  <2>2. IsFiniteSet(m.vvNew[f])
    BY ONLY <1>3, <2>1, IdsFinite
  <2>3. old \notin m.vvNew[f]
    BY <1>8, <1>9, <1>14
  <2>4. Cardinality(r.vvNew[f]) = Cardinality(m.vvNew[f]) + 1
    <3>1. Cardinality(m.vvNew[f] \cup {old}) = Cardinality(m.vvNew[f]) + 1
      BY ONLY <2>2, <2>3, FS_AddElement
    <3> QED
      BY ONLY <1>11, <3>1
  <2>5. Cardinality(m.vvNew[f]) \in Nat /\ NewBucketSize \in Nat
    BY <2>2, FS_CardinalityType, AddrManAssumption
  <2>6. Cardinality(r.vvNew[f]) <= NewBucketSize
    BY ONLY <1>9, <2>4, <2>5
  <2> QED
    BY ONLY <1>11, <1>14, <2>6
<1>17. BucketsOf(r, old) = {f} /\ \A j : j # old => BucketsOf(r, j) = BucketsOf(m, j)
  <2>1. \A b \in NewBuckets : old \notin m.vvNew[b]
    BY ONLY <1>8, <1>14
  <2>2. \A b \in NewBuckets : old \in r.vvNew[b] <=> b = f
    BY ONLY <1>9, <1>11, <2>1
  <2>3. \A b \in NewBuckets : \A j : j # old => (j \in r.vvNew[b] <=> j \in m.vvNew[b])
    BY ONLY <1>9, <1>11
  <2>4. BucketsOf(r, old) = {f}
    BY ONLY <1>9, <2>2 DEF BucketsOf
  <2> QED
    BY ONLY <2>3, <2>4 DEF BucketsOf
<1>18. ASSUME NEW j \in N \cup {old}
       PROVE  /\ IsFiniteSet(BucketsOf(r, j))
              /\ r.mapInfo[j].nRefCount = Cardinality(BucketsOf(r, j))
              /\ r.mapInfo[j].nRefCount \in 1 .. NewPerAddress
  <2>1. CASE j = old
    <3>1. r.mapInfo[j].nRefCount = 1
      BY ONLY <1>8, <1>11, <2>1
    <3>2. IsFiniteSet({f}) /\ Cardinality({f}) = 1
      BY ONLY FS_Singleton
    <3>3. 1 \in 1 .. NewPerAddress
      BY AddrManAssumption
    <3> QED
      BY ONLY <1>17, <2>1, <3>1, <3>2, <3>3
  <2>2. CASE j # old
    BY ONLY <1>3, <1>11, <1>14, <1>17, <2>2, j \in N \cup {old}
  <2> QED
    BY <2>1, <2>2
<1>19. r.nNew = Cardinality(N \cup {old})
  <2>1. IsFiniteSet(N)
    BY ONLY <1>3, IdsFinite
  <2>2. Cardinality(N \cup {old}) = Cardinality(N) + 1
    BY ONLY <1>8, <2>1, FS_AddElement
  <2> QED
    BY ONLY <1>11, <1>14, <2>2
<1>20. NewTable(r, NewOf(r))
  BY ONLY <1>13, <1>15, <1>16, <1>18, <1>19 DEF NewTable
<1>21. TriedTable(r, TriedOf(r))
  <2>1. TriedAt(r) = TriedAt(m)
    BY ONLY <1>11 DEF TriedAt
  <2>2. TriedAt(m)[id] = k
    BY <1>3 DEF TriedAt
  <2>3. PICK at : at = TriedAt(m)
    OBVIOUS
  <2>4. PICK v, w : v = m.vvTried /\ w = r.vvTried
    OBVIOUS
  <2>5. PICK n : n = Len(v[k])
    OBVIOUS
  <2>6. /\ Placed(v, T, at) /\ k \in TriedBuckets /\ i \in 1 .. n /\ old = v[k][i]
        /\ id \notin T /\ at[id] = k /\ \A j \in T : at[j] \in TriedBuckets
    BY <1>1, <1>3, <1>6, <1>7, <2>2, <2>3, <2>4, <2>5
  <2>7. /\ \A c \in TriedBuckets \ {k} : w[c] = v[c]
        /\ Len(w[k]) = n /\ w[k][i] = id
        /\ \A p \in 1 .. n : p # i => w[k][p] = v[k][p]
    BY <1>11, <2>4, <2>5
  <2>8. Placed(w, (T \ {old}) \cup {id}, at)
    <3>1. PICK U : U = (T \ {old}) \cup {id}
      OBVIOUS
    <3>2. Placed(w, U, at)
      BY ONLY <2>5, <2>6, <2>7, <3>1, PlacedReplaced
    <3> QED
      BY ONLY <3>1, <3>2
  <2>9. \A j \in TriedOf(r) : r.mapInfo[j].nRefCount = 0
    BY ONLY <1>3, <1>7, <1>8, <1>11, <1>13
  <2>10. r.nTried = Cardinality(TriedOf(r))
    <3>1. IsFiniteSet(T)
      BY ONLY <1>3, IdsFinite
    <3>2. IsFiniteSet(T \ {old}) /\ Cardinality(T \ {old}) = Cardinality(T) - 1
      BY ONLY <1>8, <3>1, FS_RemoveElement
    <3>3. Cardinality((T \ {old}) \cup {id}) = Cardinality(T \ {old}) + 1
      BY ONLY <1>3, <3>2, FS_AddElement
    <3>4. Cardinality(T) \in Nat
      BY ONLY <3>1, FS_CardinalityType
    <3> QED
      BY ONLY <1>7, <1>11, <1>13, <3>2, <3>3, <3>4
  <2>11. TriedOf(r) \subseteq Ids(r)
    BY DEF TriedOf
  <2>12. Placed(r.vvTried, TriedOf(r), TriedAt(r))
    BY ONLY <1>13, <2>1, <2>3, <2>4, <2>8
  <2> QED
    BY ONLY <2>9, <2>10, <2>11, <2>12, TriedTablePlaced
<1>22. InOrder(r)
  BY ONLY <1>12, <1>20, <1>21 DEF InOrder
<1> QED
  BY ONLY <1>2, <1>8, <1>11, <1>13, <1>22 DEF Evicts

\* Good moves one host to the tried table, and may move another one back.
LEMMA GoodInOrder ==
    ASSUME InOrder(am), NEW svc, Good(svc)
    PROVE  /\ InOrder(am') /\ SameIndexes(am, am')
           /\ \E x \in NewOf(am) : \E S \in {{}} \cup {{old} : old \in TriedOf(am)} :
                 TriedOf(am') = (TriedOf(am) \ S) \cup {x}
<1>1. PICK id \in Find(am, HostOf[svc]) :
          /\ ~ am.mapInfo[id].fInTried
          /\ \E origin \in BucketsOf(am, id) : MakeTried(id, origin)
  BY DEF Good
<1>2. PICK origin \in BucketsOf(am, id) : MakeTried(id, origin)
  BY <1>1
<1>3. id \in NewOf(am) /\ id \in Ids(am) /\ origin \in NewBuckets /\ id \in am.vvNew[origin]
  BY <1>1, <1>2 DEF Find, NewOf, Ids, BucketsOf
<1> DEFINE m == Unbucketed(am, id)
           k == TriedBucketOf[am.mapInfo[id].svc]
           n == Len(m.vvTried[k])
<1>4. \/ /\ n < TriedBucketSize
         /\ am' = [m EXCEPT !.vvTried[k] = Append(@, id), !.nTried = @ + 1,
                            !.mapInfo[id].fInTried = TRUE]
      \/ /\ n >= TriedBucketSize
         /\ \E order \in Orders(n), i \in 1..n :
               am' = Replaced([m EXCEPT !.vvTried[k] =
                                  [j \in 1..n |-> m.vvTried[k][order[j]]]],
                              id, k, i, origin)
  BY <1>2 DEF MakeTried
<1>5. Indexed(am) /\ am \in Object
  BY DEF InOrder, Indexed
<1>6. Between(m, id)
  BY <1>3, UnbucketedBetween
<1>7. UnbucketedOf(am, m, id)
  <2>1. am.mapInfo[id].nRefCount = Cardinality(BucketsOf(am, id))
    BY <1>3 DEF InOrder, NewTable
  <2> QED
    BY <1>3, <1>5, <2>1, UnbucketedFields
<1> HIDE DEF m
<1>8. /\ SameIndexes(am, m) /\ Ids(m) = Ids(am)
      /\ m.vvNew[origin] = am.vvNew[origin] \ {id}
      /\ \A j \in Ids(am) : /\ m.mapInfo[j].fInTried = am.mapInfo[j].fInTried
                            /\ m.mapInfo[j].svc = am.mapInfo[j].svc
  BY <1>3, <1>7 DEF UnbucketedOf, SameIndexes
<1>9. TriedOf(m) = TriedOf(am)
  BY ONLY <1>8 DEF TriedOf
<1>10. \A r : SameIndexes(m, r) => SameIndexes(am, r)
  BY <1>8 DEF SameIndexes
<1>11. k = TriedBucketOf[m.mapInfo[id].svc]
  BY <1>3, <1>8
<1> HIDE DEF k
<1>12. n = Len(m.vvTried[k])
  OBVIOUS
<1> HIDE DEF n
<1>13. k \in TriedBuckets /\ n \in Nat /\ TriedBucketSize \in Nat
  <2>1. m \in Object /\ id \in Ids(m)
    BY <1>3, <1>6, <1>8 DEF Between, Indexed
  <2>2. m.mapInfo[id].svc \in Svc /\ m.vvTried \in [TriedBuckets -> Seq(Nat)]
    BY <2>1, ObjectFields, EntryFields
  <2>3. k \in TriedBuckets
    BY <1>11, <2>2, AddrManAssumption
  <2> QED
    BY <1>12, <2>2, <2>3, AddrManAssumption
<1>14. {} \in {{}} \cup {{old} : old \in TriedOf(am)}
  OBVIOUS
<1>15. CASE /\ n < TriedBucketSize
            /\ am' = [m EXCEPT !.vvTried[k] = Append(@, id), !.nTried = @ + 1,
                               !.mapInfo[id].fInTried = TRUE]
  <2>1. InOrder(am') /\ SameIndexes(m, am') /\ TriedOf(am') = TriedOf(m) \cup {id}
    BY ONLY <1>6, <1>11, <1>12, <1>15, AppendedInOrder
  <2>2. TriedOf(am') = (TriedOf(am) \ {}) \cup {id}
    BY ONLY <1>9, <2>1
  <2> QED
    BY <1>3, <1>10, <1>14, <2>1, <2>2
<1>16. ASSUME NEW order \in Orders(n), NEW i \in 1 .. n,
              am' = Replaced([m EXCEPT !.vvTried[k] =
                                 [j \in 1..n |-> m.vvTried[k][order[j]]]],
                             id, k, i, origin)
       PROVE  /\ InOrder(am') /\ SameIndexes(am, am')
              /\ \E old \in TriedOf(am) : TriedOf(am') = (TriedOf(am) \ {old}) \cup {id}
  <2>1. PICK s : s = [m EXCEPT !.vvTried[k] = [j \in 1..n |-> m.vvTried[k][order[j]]]]
    OBVIOUS
  <2>2. am' = Replaced(s, id, k, i, origin)
    BY <1>16, <2>1
  <2>3. /\ Between(s, id) /\ SameIndexes(m, s) /\ s.mapInfo = m.mapInfo
        /\ s.vvNew = m.vvNew /\ Len(s.vvTried[k]) = n
    BY ONLY <1>6, <1>12, <1>13, <2>1, order \in Orders(n), ShuffledBetween
  <2>4. Cardinality(s.vvNew[origin]) < NewBucketSize
    <3>1. am.vvNew[origin] \in SUBSET Ids(am) /\ Cardinality(am.vvNew[origin]) <= NewBucketSize
      BY <1>3 DEF InOrder, NewTable, NewOf
    <3>2. IsFiniteSet(am.vvNew[origin])
      BY ONLY <1>5, <3>1, IdsFinite
    <3>3. Cardinality(am.vvNew[origin] \ {id}) = Cardinality(am.vvNew[origin]) - 1
      BY ONLY <1>3, <3>2, FS_RemoveElement
    <3>4. Cardinality(am.vvNew[origin]) \in Nat /\ NewBucketSize \in Nat
      BY <3>2, FS_CardinalityType, AddrManAssumption
    <3>5. Cardinality(am.vvNew[origin] \ {id}) < NewBucketSize
      BY ONLY <3>1, <3>3, <3>4
    <3> QED
      BY ONLY <1>8, <2>3, <3>5
  <2>5. k = TriedBucketOf[s.mapInfo[id].svc] /\ i \in 1 .. Len(s.vvTried[k])
    BY <1>11, <2>3
  <2>6. InOrder(am') /\ SameIndexes(s, am') /\ Evicts(s, am', id)
    BY ONLY <1>3, <2>2, <2>3, <2>4, <2>5, EvictedInOrder
  <2>7. TriedOf(s) = TriedOf(am) /\ SameIndexes(am, am')
    <3>1. TriedOf(s) = TriedOf(m)
      BY ONLY <2>3 DEF TriedOf, Ids
    <3>2. SameIndexes(m, am')
      BY ONLY <2>3, <2>6 DEF SameIndexes
    <3> QED
      BY <1>9, <1>10, <3>1, <3>2
  <2> QED
    BY ONLY <2>6, <2>7 DEF Evicts
<1>17. CASE /\ n >= TriedBucketSize
            /\ \E order \in Orders(n), i \in 1..n :
                  am' = Replaced([m EXCEPT !.vvTried[k] =
                                     [j \in 1..n |-> m.vvTried[k][order[j]]]],
                                 id, k, i, origin)
  <2>1. /\ InOrder(am') /\ SameIndexes(am, am')
        /\ \E old \in TriedOf(am) : TriedOf(am') = (TriedOf(am) \ {old}) \cup {id}
    BY <1>16, <1>17
  <2> QED
    BY <1>3, <2>1
<1> QED
  BY <1>4, <1>15, <1>17

-----------------------------------------------------------------------------
(* GetAddr_ reorders vRandom, whatever the order.                            *)

\* The entries keep everything but their positions, which follow the order.
LEMMA Reordered ==
    ASSUME NEW m, Indexed(m), NEW n, n = Len(m.vRandom), NEW order \in Orders(n),
           NEW j \in Ids(m)
    PROVE  LET e == [m.mapInfo[j] EXCEPT !.nRandomPos = CHOOSE i \in 1..n : order[i] = @] IN
           /\ e \in Entry
           /\ e.svc = m.mapInfo[j].svc /\ e.source = m.mapInfo[j].source
           /\ e.fInTried = m.mapInfo[j].fInTried /\ e.nRefCount = m.mapInfo[j].nRefCount
           /\ e.nRandomPos \in 1 .. n /\ order[e.nRandomPos] = m.mapInfo[j].nRandomPos
<1> DEFINE c == CHOOSE i \in 1..n : order[i] = m.mapInfo[j].nRandomPos
           d == m.mapInfo[j]
           e == [d EXCEPT !.nRandomPos = c]
<1>1. m \in Object /\ d.nRandomPos \in 1 .. n
  BY DEF Indexed
<1>2. d \in Entry
  BY <1>1, ObjectFields
<1>3. \A q \in 1 .. n : \E p \in 1 .. n : order[p] = q
  BY DEF Orders, Bijection, Surjection
<1>4. c \in 1 .. n /\ order[c] = d.nRandomPos
  BY <1>1, <1>3
<1> HIDE DEF c
<1>5. /\ e \in Entry
      /\ e.svc = d.svc /\ e.source = d.source
      /\ e.fInTried = d.fInTried /\ e.nRefCount = d.nRefCount
      /\ e.nRandomPos = c
  <2>1. c \in Nat
    BY <1>4
  <2> HIDE DEF d
  <2> QED
    BY <1>2, <2>1 DEF Entry
<1> QED
  BY <1>4, <1>5 DEF c

LEMMA GetAddrInOrder ==
    ASSUME InOrder(am), GetAddr
    PROVE  /\ InOrder(am') /\ Ids(am') = Ids(am)
           /\ \A j \in Ids(am) : /\ HostAt(am', j) = HostAt(am, j)
                                 /\ am'.mapInfo[j].fInTried = am.mapInfo[j].fInTried
<1> DEFINE n == Len(am.vRandom)
           newInfo(order) ==
               [id \in Ids(am) |-> [am.mapInfo[id] EXCEPT
                   !.nRandomPos = CHOOSE i \in 1..n : order[i] = @]]
<1>1. PICK order \in Orders(n) :
          am' = [am EXCEPT !.vRandom = [i \in 1..n |-> am.vRandom[order[i]]],
                           !.mapInfo = newInfo(order)]
  BY DEF GetAddr, Ids
<1>2. PICK info : info = newInfo(order)
  OBVIOUS
<1>3. PICK random : random = [i \in 1..n |-> am.vRandom[order[i]]]
  OBVIOUS
<1>4. am' = [am EXCEPT !.vRandom = random, !.mapInfo = info]
  BY <1>1, <1>2, <1>3
<1>5. /\ Indexed(am) /\ am \in Object /\ NewTable(am, NewOf(am)) /\ TriedTable(am, TriedOf(am))
  BY DEF InOrder, Indexed
<1>6. /\ am.mapInfo \in [Ids(am) -> Entry] /\ Ids(am) \in SUBSET Nat
      /\ am.vRandom \in Seq(Nat) /\ n \in Nat
  BY <1>5, ObjectFields
<1>7. /\ DOMAIN info = Ids(am)
      /\ \A j \in Ids(am) :
            info[j] = [am.mapInfo[j] EXCEPT !.nRandomPos = CHOOSE i \in 1..n : order[i] = @]
  BY <1>2
<1>8. \A j \in Ids(am) :
         /\ info[j] \in Entry
         /\ info[j].svc = am.mapInfo[j].svc /\ info[j].source = am.mapInfo[j].source
         /\ info[j].fInTried = am.mapInfo[j].fInTried
         /\ info[j].nRefCount = am.mapInfo[j].nRefCount
         /\ info[j].nRandomPos \in 1 .. n
         /\ order[info[j].nRandomPos] = am.mapInfo[j].nRandomPos
  <2> SUFFICES ASSUME NEW j \in Ids(am)
               PROVE  /\ info[j] \in Entry
                      /\ info[j].svc = am.mapInfo[j].svc
                      /\ info[j].source = am.mapInfo[j].source
                      /\ info[j].fInTried = am.mapInfo[j].fInTried
                      /\ info[j].nRefCount = am.mapInfo[j].nRefCount
                      /\ info[j].nRandomPos \in 1 .. n
                      /\ order[info[j].nRandomPos] = am.mapInfo[j].nRandomPos
    OBVIOUS
  <2> DEFINE e == [am.mapInfo[j] EXCEPT !.nRandomPos = CHOOSE i \in 1..n : order[i] = @]
  <2>1. /\ e \in Entry
        /\ e.svc = am.mapInfo[j].svc /\ e.source = am.mapInfo[j].source
        /\ e.fInTried = am.mapInfo[j].fInTried /\ e.nRefCount = am.mapInfo[j].nRefCount
        /\ e.nRandomPos \in 1 .. n /\ order[e.nRandomPos] = am.mapInfo[j].nRandomPos
    BY <1>5, Reordered
  <2>2. info[j] = e
    BY <1>7
  <2> HIDE DEF e
  <2> QED
    BY <2>1, <2>2
<1>9. info \in [Ids(am) -> Entry]
  <2>1. info = [j \in Ids(am) |-> info[j]]
    BY <1>2
  <2> QED
    BY ONLY <1>8, <2>1
<1>10. /\ order \in [1 .. n -> 1 .. n]
       /\ \A p, q \in 1 .. n : order[p] = order[q] => p = q
  BY <1>1 DEF Orders, Bijection, Injection, IsInjective
<1>11. /\ random \in Seq(Nat) /\ Len(random) = n
       /\ \A p \in 1 .. n : random[p] = am.vRandom[order[p]]
  <2>1. random \in [1 .. n -> Nat]
    BY <1>3, <1>6, <1>10
  <2> QED
    BY <1>3, <1>6, <2>1
<1>12. info \in UNION {[S -> Entry] : S \in SUBSET Nat}
  BY <1>6, <1>9
<1>13. /\ am' \in Object /\ am'.mapInfo = info /\ am'.vRandom = random
       /\ am'.nIdCount = am.nIdCount /\ am'.mapAddr = am.mapAddr
       /\ am'.nNew = am.nNew /\ am'.vvNew = am.vvNew
       /\ am'.nTried = am.nTried /\ am'.vvTried = am.vvTried
  BY ONLY <1>4, <1>5, <1>11, <1>12 DEF Object
<1>14. Ids(am') = Ids(am)
  BY <1>9, <1>13 DEF Ids
<1>15. \A j \in Ids(am) : HostAt(am', j) = HostAt(am, j)
  BY ONLY <1>8, <1>13 DEF HostAt
<1>16. /\ Ids(am') \subseteq 0 .. am'.nIdCount - 1
       /\ DOMAIN am'.mapAddr = {HostAt(am', j) : j \in Ids(am')}
       /\ \A j \in Ids(am') : am'.mapAddr[HostAt(am', j)] = j
  <2>1. /\ Ids(am) \subseteq 0 .. am.nIdCount - 1
        /\ DOMAIN am.mapAddr = {HostAt(am, j) : j \in Ids(am)}
        /\ \A j \in Ids(am) : am.mapAddr[HostAt(am, j)] = j
    BY <1>5 DEF Indexed
  <2>2. {HostAt(am', j) : j \in Ids(am')} = {HostAt(am, j) : j \in Ids(am)}
    BY ONLY <1>14, <1>15
  <2> QED
    BY ONLY <1>13, <1>14, <1>15, <2>1, <2>2
<1>17. /\ \A j \in Ids(am) : am.vRandom[am.mapInfo[j].nRandomPos] = j
       /\ \A p \in 1 .. n : am.vRandom[p] \in Ids(am) /\ am.mapInfo[am.vRandom[p]].nRandomPos = p
  BY <1>5 DEF Indexed
<1>18. ASSUME NEW j \in Ids(am)
       PROVE  info[j].nRandomPos \in 1 .. n /\ random[info[j].nRandomPos] = j
  <2>1. PICK q : q = info[j].nRandomPos
    OBVIOUS
  <2>2. q \in 1 .. n /\ order[q] = am.mapInfo[j].nRandomPos
    BY ONLY <1>8, <2>1, j \in Ids(am)
  <2>3. random[q] = am.vRandom[order[q]]
    BY ONLY <1>11, <2>2
  <2>4. am.vRandom[am.mapInfo[j].nRandomPos] = j
    BY ONLY <1>17, j \in Ids(am)
  <2> QED
    BY ONLY <2>1, <2>2, <2>3, <2>4
<1>19. ASSUME NEW p \in 1 .. n
       PROVE  random[p] \in Ids(am) /\ info[random[p]].nRandomPos = p
  <2>1. order[p] \in 1 .. n /\ random[p] = am.vRandom[order[p]]
    BY ONLY <1>10, <1>11, p \in 1 .. n
  <2>2. random[p] \in Ids(am) /\ am.mapInfo[random[p]].nRandomPos = order[p]
    BY ONLY <1>17, <2>1
  <2>3. info[random[p]].nRandomPos \in 1 .. n /\ order[info[random[p]].nRandomPos] = order[p]
    BY ONLY <1>8, <2>2
  <2> QED
    BY ONLY <1>10, <2>2, <2>3, p \in 1 .. n
<1>20. Indexed(am')
  BY ONLY <1>11, <1>13, <1>14, <1>16, <1>18, <1>19 DEF Indexed
<1>21. NewOf(am') = NewOf(am) /\ TriedOf(am') = TriedOf(am)
  BY ONLY <1>8, <1>13, <1>14 DEF NewOf, TriedOf
<1>22. NewTable(am', NewOf(am'))
  <2>1. \A j \in NewOf(am) : am'.mapInfo[j].nRefCount = am.mapInfo[j].nRefCount
    BY ONLY <1>8, <1>13 DEF NewOf
  <2> QED
    BY ONLY <1>5, <1>13, <1>21, <2>1, NewSame
<1>23. TriedTable(am', TriedOf(am'))
  <2>1. \A j \in TriedOf(am) : /\ am'.mapInfo[j].svc = am.mapInfo[j].svc
                               /\ am'.mapInfo[j].nRefCount = am.mapInfo[j].nRefCount
    BY ONLY <1>8, <1>13 DEF TriedOf
  <2> QED
    BY ONLY <1>5, <1>13, <1>21, <2>1, TriedSame
<1>24. InOrder(am')
  BY ONLY <1>20, <1>22, <1>23 DEF InOrder
<1>25. \A j \in Ids(am) : am'.mapInfo[j].fInTried = am.mapInfo[j].fInTried
  BY ONLY <1>8, <1>13
<1> QED
  BY <1>14, <1>15, <1>24, <1>25

-----------------------------------------------------------------------------
(* Reload: the entries are numbered again and the tables built anew.         *)

\* The ranks of a finite set of numbers are 0, 1, 2 and so on, each once.
LEMMA Ranks ==
    ASSUME NEW S \in SUBSET Nat, IsFiniteSet(S)
    PROVE  /\ Cardinality(S) \in Nat
           /\ \A x \in S : Rank(S, x) \in 0 .. Cardinality(S) - 1
           /\ \A x, y \in S : Rank(S, x) = Rank(S, y) => x = y
           /\ \A n \in 0 .. Cardinality(S) - 1 : \E x \in S : Rank(S, x) = n
<1>1. PICK c : c = Cardinality(S)
  OBVIOUS
<1>2. c \in Nat
  BY <1>1, FS_CardinalityType
<1>3. ASSUME NEW x \in S
      PROVE  /\ IsFiniteSet({j \in S : j < x})
             /\ Rank(S, x) \in 0 .. c - 1
  <2>1. {j \in S : j < x} \in SUBSET (S \ {x})
    OBVIOUS
  <2>2. IsFiniteSet(S \ {x}) /\ Cardinality(S \ {x}) = c - 1
    BY <1>1, FS_RemoveElement
  <2>3. /\ IsFiniteSet({j \in S : j < x})
        /\ Cardinality({j \in S : j < x}) <= Cardinality(S \ {x})
    BY <2>1, <2>2, FS_Subset
  <2>4. Cardinality({j \in S : j < x}) \in Nat
    BY <2>3, FS_CardinalityType
  <2> QED
    BY <1>2, <2>2, <2>3, <2>4 DEF Rank
<1>4. ASSUME NEW x \in S, NEW y \in S, x < y
      PROVE  Rank(S, x) # Rank(S, y)
  <2>1. PICK A, B : A = {j \in S : j < x} /\ B = {j \in S : j < y}
    OBVIOUS
  <2>2. A \subseteq B /\ x \in B /\ x \notin A
    <3>1. \A j \in S : j < x => j < y
      BY <1>4
    <3>2. x \in S /\ x < y /\ ~ (x < x)
      BY <1>4
    <3> QED
      BY ONLY <2>1, <3>1, <3>2
  <2>3. A \in SUBSET (B \ {x})
    BY <2>2
  <2>4. IsFiniteSet(A) /\ IsFiniteSet(B)
    BY <1>3, <2>1
  <2>5. IsFiniteSet(B \ {x}) /\ Cardinality(B \ {x}) = Cardinality(B) - 1
    BY <2>2, <2>4, FS_RemoveElement
  <2>6. Cardinality(A) <= Cardinality(B \ {x})
    BY ONLY <2>3, <2>5, FS_Subset
  <2>7. Cardinality(A) \in Nat /\ Cardinality(B) \in Nat
    BY <2>4, FS_CardinalityType
  <2>8. Cardinality(A) # Cardinality(B)
    BY ONLY <2>5, <2>6, <2>7
  <2> QED
    BY <2>1, <2>8 DEF Rank
<1>5. \A x, y \in S : Rank(S, x) = Rank(S, y) => x = y
  <2> SUFFICES ASSUME NEW x \in S, NEW y \in S, Rank(S, x) = Rank(S, y), x # y
               PROVE  FALSE
    OBVIOUS
  <2>1. x < y \/ y < x
    OBVIOUS
  <2> QED
    BY <1>4, <2>1
<1>6. PICK f : f = [x \in S |-> Rank(S, x)]
  OBVIOUS
<1>7. f \in [S -> 0 .. c - 1]
  BY <1>3, <1>6
<1>8. IsInjective(f)
  BY <1>5, <1>6 DEF IsInjective
<1>9. f \in Injection(S, 0 .. c - 1)
  BY <1>7, <1>8 DEF Injection
<1>10. IsFiniteSet(0 .. c - 1) /\ Cardinality(0 .. c - 1) = c
  BY <1>2, FS_Interval
<1>11. f \in Surjection(S, 0 .. c - 1)
  BY <1>1, <1>9, <1>10, FS_Injection
<1>12. \A n \in 0 .. c - 1 : \E x \in S : Rank(S, x) = n
  BY <1>6, <1>11 DEF Surjection
<1> QED
  BY <1>1, <1>2, <1>3, <1>5, <1>12

\* A tried bucket is as large as the set of its ids.
LEMMA TriedIdsFit ==
    ASSUME InOrder(am), NEW k \in TriedBuckets
    PROVE  /\ IsFiniteSet(TriedIds(k)) /\ TriedIds(k) \in SUBSET Nat
           /\ Cardinality(TriedIds(k)) <= TriedBucketSize
<1>1. Indexed(am) /\ am \in Object /\ TriedTable(am, TriedOf(am))
  BY DEF InOrder, Indexed
<1>2. am.vvTried \in [TriedBuckets -> Seq(Nat)] /\ Ids(am) \subseteq Nat
  BY <1>1, ObjectFields
<1>3. TriedIds(k) \in SUBSET Ids(am) /\ TriedIds(k) \subseteq TriedOf(am)
  BY DEF TriedIds, Ids, TriedOf
<1>4. IsFiniteSet(TriedIds(k))
  BY ONLY <1>1, <1>3, IdsFinite
<1>5. PICK a, n : a = am.vvTried[k] /\ n = Len(a)
  OBVIOUS
<1>6. n \in Nat /\ n <= TriedBucketSize
  BY <1>1, <1>2, <1>5 DEF TriedTable
<1>7. \A p \in 1 .. n : a[p] \in TriedIds(k)
  BY <1>1, <1>5 DEF TriedTable, TriedIds, TriedOf, Ids
<1>8. \A id \in TriedIds(k) : \E p \in 1 .. n : a[p] = id
  BY <1>1, <1>5 DEF TriedTable, TriedIds, TriedOf, Ids
<1>9. [p \in 1 .. n |-> a[p]] \in Surjection(1 .. n, TriedIds(k))
  BY <1>7, <1>8 DEF Surjection
<1>10. Cardinality(TriedIds(k)) <= n
  BY <1>6, <1>9, FS_SurjCardinalityBound DEF ExistsSurjection
<1>11. Cardinality(TriedIds(k)) \in Nat /\ TriedBucketSize \in Nat
  BY <1>4, FS_CardinalityType, AddrManAssumption
<1>12. Cardinality(TriedIds(k)) <= TriedBucketSize
  BY ONLY <1>6, <1>10, <1>11
<1> QED
  BY <1>2, <1>3, <1>4, <1>12

\* All the entries and their buckets are read back.
LEMMA EverythingKept ==
    ASSUME InOrder(am)
    PROVE  /\ NewIds = NewOf(am) /\ Kept = TriedOf(am)
           /\ \A k \in TriedBuckets : KeptIn(k) = TriedIds(k)
           /\ UNION {TriedIds(k) : k \in TriedBuckets} = TriedOf(am)
           /\ \A id \in NewOf(am) : Listed(id) = BucketsOf(am, id)
           /\ \A id \in TriedOf(am) : Listed(id) = {}
<1>1. Indexed(am) /\ am \in Object /\ NewTable(am, NewOf(am)) /\ TriedTable(am, TriedOf(am))
  BY DEF InOrder, Indexed
<1>2. am.mapInfo \in [Ids(am) -> Entry] /\ NewPerAddress \in Nat /\ TriedBucketSize \in Nat
  BY <1>1, ObjectFields, AddrManAssumption
<1>3. NewIds = NewOf(am)
  <2>1. \A id \in NewOf(am) : am.mapInfo[id].nRefCount # 0
    BY <1>1, <1>2 DEF NewTable
  <2>2. \A id \in TriedOf(am) : am.mapInfo[id].nRefCount = 0
    BY <1>1 DEF TriedTable
  <2> QED
    BY <2>1, <2>2 DEF NewIds, NewOf, TriedOf, Ids
<1>4. ASSUME NEW k \in TriedBuckets PROVE KeptIn(k) = TriedIds(k)
  <2>1. PICK S : S = TriedIds(k)
    OBVIOUS
  <2>2. IsFiniteSet(S) /\ S \in SUBSET Nat /\ Cardinality(S) <= TriedBucketSize
    BY <2>1, TriedIdsFit
  <2>3. Cardinality(S) \in Nat /\ \A x \in S : Rank(S, x) \in 0 .. Cardinality(S) - 1
    BY ONLY <2>2, Ranks
  <2>4. \A x \in S : Rank(S, x) < TriedBucketSize
    BY ONLY <1>2, <2>2, <2>3
  <2> QED
    BY <2>1, <2>4 DEF KeptIn
<1>5. ASSUME NEW id \in TriedOf(am) PROVE \E k \in TriedBuckets : id \in TriedIds(k)
  <2>1. am.mapInfo[id].svc \in Svc
    BY <1>2, EntryFields DEF TriedOf
  <2> QED
    BY <2>1, AddrManAssumption DEF TriedIds, TriedOf, Ids
<1>6. \A k \in TriedBuckets : TriedIds(k) \subseteq TriedOf(am)
  BY DEF TriedIds, TriedOf, Ids
<1>7. UNION {TriedIds(k) : k \in TriedBuckets} = TriedOf(am)
  BY <1>5, <1>6
<1>8. Kept = TriedOf(am)
  BY <1>4, <1>5, <1>6 DEF Kept
<1>9. ASSUME NEW id \in NewOf(am) PROVE Listed(id) = BucketsOf(am, id)
  <2>1. PICK S : S = BucketsOf(am, id)
    OBVIOUS
  <2>2. IsFiniteSet(S) /\ Cardinality(S) <= NewPerAddress
    BY <1>1, <2>1 DEF NewTable
  <2>3. S \in SUBSET Nat
    BY <2>1, AddrManAssumption DEF BucketsOf
  <2>4. Cardinality(S) \in Nat /\ \A x \in S : Rank(S, x) \in 0 .. Cardinality(S) - 1
    BY ONLY <2>2, <2>3, Ranks
  <2>5. \A x \in S : Rank(S, x) < NewPerAddress
    BY ONLY <1>2, <2>2, <2>4
  <2> QED
    BY <2>1, <2>5 DEF Listed
<1>10. ASSUME NEW id \in TriedOf(am) PROVE Listed(id) = {}
  <2>1. \A b \in NewBuckets : am.vvNew[b] \subseteq NewOf(am)
    BY <1>1 DEF NewTable
  <2>2. BucketsOf(am, id) = {}
    BY <2>1 DEF BucketsOf, NewOf, TriedOf
  <2> QED
    BY <2>2 DEF Listed
<1> QED
  BY <1>3, <1>4, <1>7, <1>8, <1>9, <1>10

OldId(i) == CHOOSE id \in NewIds \cup Kept : Renumbered(id) = i

\* The new entries get the first numbers and the tried ones the rest.
LEMMA Renumbering ==
    ASSUME InOrder(am), NEW a, a = Cardinality(NewIds), NEW n, n = a + Cardinality(Kept)
    PROVE  /\ a \in Nat /\ n \in Nat /\ a <= n
           /\ \A id \in Ids(am) : Renumbered(id) \in 0 .. n - 1 /\ OldId(Renumbered(id)) = id
           /\ \A id \in NewOf(am) : Renumbered(id) < a
           /\ \A id \in TriedOf(am) : Renumbered(id) >= a
           /\ \A i \in 0 .. n - 1 : OldId(i) \in Ids(am) /\ Renumbered(OldId(i)) = i
<1>1. Indexed(am) /\ am \in Object /\ NewIds = NewOf(am) /\ Kept = TriedOf(am)
  BY EverythingKept DEF InOrder, Indexed
<1>2. /\ Ids(am) \in SUBSET Nat /\ NewIds \in SUBSET Ids(am) /\ Kept \in SUBSET Ids(am)
      /\ Ids(am) = NewIds \cup Kept /\ NewIds \cap Kept = {}
  BY <1>1, ObjectFields DEF NewOf, TriedOf
<1>3. IsFiniteSet(NewIds) /\ IsFiniteSet(Kept) /\ NewIds \in SUBSET Nat /\ Kept \in SUBSET Nat
  BY <1>1, <1>2, IdsFinite
<1>4. PICK b : b = Cardinality(Kept)
  OBVIOUS
<1>5. /\ a \in Nat
      /\ \A x \in NewIds : Rank(NewIds, x) \in 0 .. a - 1
      /\ \A x, y \in NewIds : Rank(NewIds, x) = Rank(NewIds, y) => x = y
      /\ \A i \in 0 .. a - 1 : \E x \in NewIds : Rank(NewIds, x) = i
  BY <1>3, Ranks
<1>6. /\ b \in Nat
      /\ \A x \in Kept : Rank(Kept, x) \in 0 .. b - 1
      /\ \A x, y \in Kept : Rank(Kept, x) = Rank(Kept, y) => x = y
      /\ \A i \in 0 .. b - 1 : \E x \in Kept : Rank(Kept, x) = i
  BY <1>3, <1>4, Ranks
<1>7. n \in Nat /\ n = a + b /\ a <= n
  BY <1>4, <1>5, <1>6
<1>8. \A id \in NewIds : Renumbered(id) = Rank(NewIds, id)
  BY DEF Renumbered
<1>9. \A id \in Kept : Renumbered(id) = a + Rank(Kept, id)
  BY <1>2 DEF Renumbered
<1>10. \A id \in NewIds : Renumbered(id) \in 0 .. n - 1 /\ Renumbered(id) < a
  BY ONLY <1>5, <1>6, <1>7, <1>8
<1>11. \A id \in Kept : Renumbered(id) \in 0 .. n - 1 /\ Renumbered(id) >= a
  BY ONLY <1>5, <1>6, <1>7, <1>9
<1>12. \A x, y \in Ids(am) : Renumbered(x) = Renumbered(y) => x = y
  <2> SUFFICES ASSUME NEW x \in Ids(am), NEW y \in Ids(am), Renumbered(x) = Renumbered(y)
               PROVE  x = y
    OBVIOUS
  <2>1. CASE x \in NewIds /\ y \in NewIds
    BY <1>5, <1>8, <2>1
  <2>2. CASE x \in Kept /\ y \in Kept
    <3>1. a + Rank(Kept, x) = a + Rank(Kept, y)
      BY <1>9, <2>2
    <3>2. Rank(Kept, x) \in Nat /\ Rank(Kept, y) \in Nat
      BY <1>6, <2>2
    <3>3. Rank(Kept, x) = Rank(Kept, y)
      BY ONLY <1>5, <3>1, <3>2
    <3> QED
      BY <1>6, <2>2, <3>3
  <2>3. ~ (x \in NewIds /\ y \in Kept) /\ ~ (x \in Kept /\ y \in NewIds)
    BY <1>5, <1>10, <1>11
  <2> QED
    BY <1>2, <2>1, <2>2, <2>3
<1>13. ASSUME NEW i \in 0 .. n - 1
       PROVE  \E id \in Ids(am) : Renumbered(id) = i
  <2>1. CASE i < a
    <3>1. i \in 0 .. a - 1
      BY <1>5, <2>1
    <3> QED
      BY <1>2, <1>5, <1>8, <3>1
  <2>2. CASE i >= a
    <3>1. PICK j : j = i - a
      OBVIOUS
    <3>2. j \in 0 .. b - 1 /\ i = a + j
      BY <1>5, <1>6, <1>7, <2>2, <3>1
    <3>3. PICK x \in Kept : Rank(Kept, x) = j
      BY <1>6, <3>2
    <3> QED
      BY <1>2, <1>9, <3>2, <3>3
  <2> QED
    BY <1>5, <2>1, <2>2
<1>14. \A i \in 0 .. n - 1 : OldId(i) \in Ids(am) /\ Renumbered(OldId(i)) = i
  BY <1>2, <1>13 DEF OldId
<1>15. \A id \in Ids(am) : Renumbered(id) \in 0 .. n - 1
  BY <1>2, <1>10, <1>11
<1>16. \A id \in Ids(am) : OldId(Renumbered(id)) = id
  BY <1>12, <1>14, <1>15
<1> QED
  BY <1>1, <1>5, <1>7, <1>10, <1>11, <1>14, <1>15, <1>16

LEMMA NthRanks ==
    ASSUME NEW S \in SUBSET Nat, IsFiniteSet(S)
    PROVE  /\ \A q \in 0 .. Cardinality(S) - 1 : Nth(S, q) \in S /\ Rank(S, Nth(S, q)) = q
           /\ \A x \in S : Nth(S, Rank(S, x)) = x
<1>1. /\ \A x \in S : Rank(S, x) \in 0 .. Cardinality(S) - 1
      /\ \A x, y \in S : Rank(S, x) = Rank(S, y) => x = y
      /\ \A n \in 0 .. Cardinality(S) - 1 : \E x \in S : Rank(S, x) = n
  BY Ranks
<1>2. \A q \in 0 .. Cardinality(S) - 1 : Nth(S, q) \in S /\ Rank(S, Nth(S, q)) = q
  BY <1>1 DEF Nth
<1>3. ASSUME NEW x \in S
      PROVE  Nth(S, Rank(S, x)) = x
  <2>1. PICK q : q = Rank(S, x)
    OBVIOUS
  <2>2. q \in 0 .. Cardinality(S) - 1
    BY <1>1, <2>1
  <2>3. Nth(S, q) \in S /\ Rank(S, Nth(S, q)) = Rank(S, x)
    BY <1>2, <2>1, <2>2
  <2> QED
    BY <1>1, <2>1, <2>3
<1> QED
  BY <1>2, <1>3

\* The entry i of the tables that were read back.
Reread(r, i) ==
    /\ r.mapInfo[i] \in Entry
    /\ r.mapInfo[i].svc = am.mapInfo[OldId(i)].svc
    /\ r.mapInfo[i].source = am.mapInfo[OldId(i)].source
    /\ r.mapInfo[i].fInTried = am.mapInfo[OldId(i)].fInTried
    /\ r.mapInfo[i].nRefCount = am.mapInfo[OldId(i)].nRefCount
    /\ r.mapInfo[i].nRandomPos = i + 1

\* The fields after Reload.
ReloadedTo(r, n) ==
    /\ r \in Object /\ Ids(r) = 0 .. n - 1 /\ r.nIdCount = n
    /\ \A i \in 0 .. n - 1 : Reread(r, i)
    /\ DOMAIN r.mapAddr = {HostAt(am, id) : id \in Ids(am)}
    /\ \A i \in 0 .. n - 1 : r.mapAddr[HostAt(am, OldId(i))] = i
    /\ Len(r.vRandom) = n /\ \A p \in 1 .. n : r.vRandom[p] = p - 1
    /\ r.nNew = am.nNew /\ r.nTried = am.nTried
    /\ \A b \in NewBuckets : r.vvNew[b] = {Renumbered(id) : id \in am.vvNew[b]}
    /\ \A k \in TriedBuckets :
          /\ Len(r.vvTried[k]) = Cardinality(TriedIds(k))
          /\ \A p \in 1 .. Cardinality(TriedIds(k)) :
                r.vvTried[k][p] = Renumbered(Nth(TriedIds(k), p - 1))

LEMMA ReloadFields ==
    ASSUME InOrder(am), Reload
    PROVE  ReloadedTo(am', Cardinality(NewIds) + Cardinality(Kept))
<1> DEFINE n == Cardinality(NewIds) + Cardinality(Kept)
           info == [i \in 0..n - 1 |->
                       [am.mapInfo[OldId(i)] EXCEPT
                           !.nRefCount = Cardinality(Listed(OldId(i))),
                           !.nRandomPos = i + 1]]
           addr == [h \in {HostOf[am.mapInfo[id].svc] : id \in NewIds \cup Kept} |->
                       CHOOSE i \in 0..n - 1 : HostOf[am.mapInfo[OldId(i)].svc] = h]
           random == [p \in 1..n |-> p - 1]
           buckets == [b \in NewBuckets |->
                          {Renumbered(id) : id \in {j \in NewIds : b \in Listed(j)}}]
           lost == (UNION {TriedIds(k) : k \in TriedBuckets}) \ Kept
           left == am.nTried - Cardinality(lost)
           tried == [k \in TriedBuckets |->
                        [p \in 1..Cardinality(KeptIn(k)) |->
                            Renumbered(Nth(KeptIn(k), p - 1))]]
<1>1. am' = [nIdCount |-> n, mapInfo |-> info, mapAddr |-> addr, vRandom |-> random,
             nNew |-> am.nNew, vvNew |-> buckets, nTried |-> left, vvTried |-> tried]
  BY DEF Reload, OldId
<1>2. /\ Indexed(am) /\ am \in Object /\ NewTable(am, NewOf(am)) /\ TriedTable(am, TriedOf(am))
  BY DEF InOrder, Indexed
<1>3. /\ NewIds = NewOf(am) /\ Kept = TriedOf(am)
      /\ \A k \in TriedBuckets : KeptIn(k) = TriedIds(k)
      /\ UNION {TriedIds(k) : k \in TriedBuckets} = TriedOf(am)
      /\ \A id \in NewOf(am) : Listed(id) = BucketsOf(am, id)
      /\ \A id \in TriedOf(am) : Listed(id) = {}
  BY EverythingKept
<1>4. /\ n \in Nat
      /\ \A id \in Ids(am) : Renumbered(id) \in 0 .. n - 1 /\ OldId(Renumbered(id)) = id
      /\ \A i \in 0 .. n - 1 : OldId(i) \in Ids(am) /\ Renumbered(OldId(i)) = i
  BY Renumbering
<1>5. /\ am.mapInfo \in [Ids(am) -> Entry] /\ Ids(am) \in SUBSET Nat
      /\ am.nNew \in Int /\ am.nTried \in Int
      /\ am.vvNew \in [NewBuckets -> SUBSET Nat]
      /\ am.vvTried \in [TriedBuckets -> Seq(Nat)]
  BY <1>2, ObjectFields
<1>6. NewIds \cup Kept = Ids(am)
  BY <1>3 DEF NewOf, TriedOf
<1>7. ASSUME NEW i \in 0 .. n - 1
      PROVE  /\ info[i] \in Entry
             /\ info[i].svc = am.mapInfo[OldId(i)].svc
             /\ info[i].source = am.mapInfo[OldId(i)].source
             /\ info[i].fInTried = am.mapInfo[OldId(i)].fInTried
             /\ info[i].nRefCount = am.mapInfo[OldId(i)].nRefCount
             /\ info[i].nRandomPos = i + 1
  <2> DEFINE e == am.mapInfo[OldId(i)]
             c == Cardinality(Listed(OldId(i)))
             g == [e EXCEPT !.nRefCount = c, !.nRandomPos = i + 1]
  <2>1. info[i] = g
    BY <1>7
  <2>2. OldId(i) \in Ids(am) /\ e \in Entry
    BY <1>4, <1>5, <1>7
  <2>3. c = e.nRefCount
    <3>1. CASE OldId(i) \in NewOf(am)
      BY <1>2, <1>3, <3>1 DEF NewTable
    <3>2. CASE OldId(i) \in TriedOf(am)
      <4>1. c = 0
        BY <1>3, <3>2, FS_EmptySet
      <4>2. e.nRefCount = 0
        BY <1>2, <3>2 DEF TriedTable
      <4> QED
        BY <4>1, <4>2
    <3> QED
      BY <2>2, <3>1, <3>2 DEF NewOf, TriedOf
  <2>4. c \in Nat /\ i + 1 \in Nat
    BY <1>4, <1>7, <2>2, <2>3, EntryFields
  <2> HIDE DEF e, c
  <2>5. /\ g \in Entry
        /\ g.svc = e.svc /\ g.source = e.source /\ g.fInTried = e.fInTried
        /\ g.nRefCount = c /\ g.nRandomPos = i + 1
    BY <2>2, <2>4 DEF Entry
  <2> HIDE DEF g, info
  <2> QED
    BY <2>1, <2>3, <2>5 DEF e
<1>8. info \in [0 .. n - 1 -> Entry]
  <2>1. info = [i \in 0 .. n - 1 |-> info[i]]
    OBVIOUS
  <2> HIDE DEF info
  <2> QED
    BY ONLY <1>7, <2>1
<1>9. \A x, y \in Ids(am) : HostAt(am, x) = HostAt(am, y) => x = y
  BY <1>2 DEF Indexed
<1>10. /\ DOMAIN addr = {HostAt(am, id) : id \in Ids(am)}
       /\ \A i \in 0 .. n - 1 : addr[HostAt(am, OldId(i))] = i
  <2>1. DOMAIN addr = {HostAt(am, id) : id \in Ids(am)}
    BY <1>6 DEF HostAt
  <2>2. ASSUME NEW i \in 0 .. n - 1
        PROVE  addr[HostAt(am, OldId(i))] = i
    <3>1. HostAt(am, OldId(i)) \in DOMAIN addr
      BY <1>4, <2>1
    <3>2. addr[HostAt(am, OldId(i))]
              = CHOOSE j \in 0..n - 1 : HostAt(am, OldId(j)) = HostAt(am, OldId(i))
      BY <3>1 DEF HostAt
    <3>3. \A j \in 0 .. n - 1 : HostAt(am, OldId(j)) = HostAt(am, OldId(i)) => j = i
      BY <1>4, <1>9
    <3> HIDE DEF addr, n
    <3> QED
      BY <3>2, <3>3
  <2> HIDE DEF addr
  <2> QED
    BY <2>1, <2>2
<1>11. addr \in [DOMAIN addr -> Nat] /\ DOMAIN addr \in SUBSET Host
  <2>1. \A id \in Ids(am) : HostAt(am, id) \in Host
    BY <1>5, EntryFields, AddrManAssumption DEF HostAt
  <2>2. DOMAIN addr \in SUBSET Host
    BY <1>10, <2>1
  <2>3. ASSUME NEW h \in DOMAIN addr PROVE addr[h] \in Nat
    <3>1. PICK id \in Ids(am) : h = HostAt(am, id)
      BY <1>10
    <3>2. Renumbered(id) \in 0 .. n - 1 /\ OldId(Renumbered(id)) = id
      BY <1>4
    <3>3. addr[h] = Renumbered(id)
      BY <1>10, <3>1, <3>2
    <3> HIDE DEF addr, n
    <3>4. Renumbered(id) \in Nat
      BY <1>4, <3>2
    <3> QED
      BY ONLY <3>3, <3>4
  <2> DEFINE H == {HostOf[am.mapInfo[id].svc] : id \in NewIds \cup Kept}
             at(h) == CHOOSE i \in 0..n - 1 : HostOf[am.mapInfo[OldId(i)].svc] = h
  <2>4. addr = [h \in H |-> at(h)]
    OBVIOUS
  <2> HIDE DEF H, at, addr
  <2>5. addr = [h \in DOMAIN addr |-> addr[h]]
    BY <2>4
  <2> QED
    BY <2>2, <2>3, <2>5
<1>12. /\ random \in Seq(Nat) /\ Len(random) = n
       /\ \A p \in 1 .. n : random[p] = p - 1
  <2>1. \A p \in 1 .. n : p - 1 \in Nat
    BY <1>4
  <2>2. random \in [1 .. n -> Nat]
    BY <2>1
  <2> QED
    BY <1>4, <2>2
<1>13. /\ buckets \in [NewBuckets -> SUBSET Nat]
       /\ \A b \in NewBuckets : buckets[b] = {Renumbered(id) : id \in am.vvNew[b]}
  <2>1. ASSUME NEW b \in NewBuckets
        PROVE  {j \in NewIds : b \in Listed(j)} = am.vvNew[b]
    <3>1. am.vvNew[b] \subseteq NewIds
      BY <1>2, <1>3 DEF NewTable
    <3>2. \A j \in NewIds : b \in Listed(j) <=> j \in am.vvNew[b]
      BY <1>3 DEF BucketsOf
    <3> QED
      BY ONLY <3>1, <3>2
  <2>2. ASSUME NEW b \in NewBuckets
        PROVE  buckets[b] = {Renumbered(id) : id \in am.vvNew[b]}
    BY <2>1
  <2>3. ASSUME NEW b \in NewBuckets
        PROVE  {Renumbered(id) : id \in {j \in NewIds : b \in Listed(j)}} \in SUBSET Nat
    BY <1>4, <1>6
  <2> QED
    BY <2>2, <2>3
<1>14. left = am.nTried
  <2>1. lost = {}
    BY <1>3
  <2> HIDE DEF lost
  <2>5. Cardinality({}) = 0
    BY FS_EmptySet
  <2>6. left = am.nTried - 0
    BY <2>1, <2>5
  <2> HIDE DEF left
  <2>7. am.nTried \in Int
    BY <1>5
  <2> QED
    BY ONLY <2>6, <2>7
<1>15. /\ tried \in [TriedBuckets -> Seq(Nat)]
       /\ \A k \in TriedBuckets :
             /\ Len(tried[k]) = Cardinality(TriedIds(k))
             /\ \A p \in 1 .. Cardinality(TriedIds(k)) :
                   tried[k][p] = Renumbered(Nth(TriedIds(k), p - 1))
  <2>1. ASSUME NEW k \in TriedBuckets
        PROVE  /\ tried[k] \in Seq(Nat) /\ Len(tried[k]) = Cardinality(TriedIds(k))
               /\ \A p \in 1 .. Cardinality(TriedIds(k)) :
                     tried[k][p] = Renumbered(Nth(TriedIds(k), p - 1))
    <3> DEFINE S == TriedIds(k)
               c == Cardinality(S)
               s == [p \in 1 .. c |-> Renumbered(Nth(S, p - 1))]
    <3>1. tried[k] = s
      BY <1>3, <2>1
    <3>2. IsFiniteSet(S) /\ S \in SUBSET Nat
      BY <2>1, TriedIdsFit
    <3>3. S \subseteq Ids(am)
      BY DEF TriedIds, Ids
    <3> HIDE DEF S
    <3>4. c \in Nat /\ \A q \in 0 .. c - 1 : Nth(S, q) \in S
      BY <3>2, FS_CardinalityType, NthRanks
    <3> HIDE DEF c
    <3>5. \A p \in 1 .. c : Renumbered(Nth(S, p - 1)) \in Nat
      <4>1. \A p \in 1 .. c : p - 1 \in 0 .. c - 1
        BY <3>4
      <4>2. \A id \in Ids(am) : Renumbered(id) \in Nat
        BY <1>4
      <4> QED
        BY ONLY <3>3, <3>4, <4>1, <4>2
    <3>6. s \in [1 .. c -> Nat]
      BY <3>5
    <3>7. s \in Seq(Nat) /\ Len(s) = c /\ \A p \in 1 .. c : s[p] = Renumbered(Nth(S, p - 1))
      BY <3>4, <3>6
    <3> HIDE DEF s, tried
    <3> QED
      BY <3>1, <3>7 DEF c, S
  <2>2. tried = [k \in TriedBuckets |-> tried[k]]
    OBVIOUS
  <2> HIDE DEF tried
  <2> QED
    BY <2>1, <2>2
<1> HIDE DEF n, info, addr, random, buckets, lost, left, tried
<1>16. /\ info \in UNION {[S -> Entry] : S \in SUBSET Nat}
       /\ addr \in UNION {[H -> Nat] : H \in SUBSET Host}
       /\ left \in Int
  <2>1. 0 .. n - 1 \in SUBSET Nat
    BY <1>4
  <2> QED
    BY <1>5, <1>8, <1>11, <1>14, <2>1
<1>17. /\ am'.mapInfo = info /\ am'.mapAddr = addr /\ am'.vRandom = random
       /\ am'.nIdCount = n /\ am'.nNew = am.nNew /\ am'.vvNew = buckets
       /\ am'.nTried = left /\ am'.vvTried = tried
  BY ONLY <1>1
<1>18. am' \in Object
  BY ONLY <1>1, <1>4, <1>5, <1>12, <1>13, <1>15, <1>16 DEF Object
<1>19. Ids(am') = 0 .. n - 1
  BY ONLY <1>8, <1>17 DEF Ids
<1>20. \A i \in 0 .. n - 1 : Reread(am', i)
  BY ONLY <1>7, <1>17 DEF Reread
<1>21. ReloadedTo(am', n)
  BY ONLY <1>10, <1>12, <1>13, <1>14, <1>15, <1>17, <1>18, <1>19, <1>20 DEF ReloadedTo
<1> QED
  BY <1>21 DEF n

\* A set of entries is as large as the set of their new numbers.
LEMMA RenumberedSize ==
    ASSUME InOrder(am), NEW S \in SUBSET Ids(am), NEW U, U = {Renumbered(id) : id \in S}
    PROVE  IsFiniteSet(U) /\ Cardinality(U) = Cardinality(S)
<1>1. IsFiniteSet(S)
  BY IdsFinite DEF InOrder
<1>2. \A x, y \in S : Renumbered(x) = Renumbered(y) => x = y
  <2>1. \A id \in Ids(am) : OldId(Renumbered(id)) = id
    BY Renumbering
  <2> QED
    BY <2>1
<1>3. PICK f : f = [id \in S |-> Renumbered(id)]
  OBVIOUS
<1>4. f \in [S -> U] /\ \A u \in U : \E id \in S : f[id] = u
  BY <1>3
<1>5. f \in Surjection(S, U)
  BY <1>4 DEF Surjection
<1>6. f \in Injection(S, U)
  BY <1>2, <1>3, <1>4 DEF Injection, IsInjective
<1> QED
  BY <1>1, <1>5, <1>6, FS_Surjection

\* What is read back is in order, and is the tables under other numbers.
LEMMA RereadIndexed ==
    ASSUME InOrder(am), NEW n, n = Cardinality(NewIds) + Cardinality(Kept),
           NEW r, ReloadedTo(r, n)
    PROVE  /\ Indexed(r)
           /\ \A i \in Ids(r) : HostAt(r, i) = HostAt(am, OldId(i))
           /\ NewOf(r) = {Renumbered(id) : id \in NewOf(am)}
           /\ TriedOf(r) = {Renumbered(id) : id \in TriedOf(am)}
<1>1. /\ r \in Object /\ Ids(r) = 0 .. n - 1 /\ r.nIdCount = n
      /\ \A i \in 0 .. n - 1 : Reread(r, i)
      /\ DOMAIN r.mapAddr = {HostAt(am, id) : id \in Ids(am)}
      /\ \A i \in 0 .. n - 1 : r.mapAddr[HostAt(am, OldId(i))] = i
      /\ Len(r.vRandom) = n /\ \A p \in 1 .. n : r.vRandom[p] = p - 1
  BY DEF ReloadedTo
<1>2. /\ n \in Nat
      /\ \A id \in Ids(am) : Renumbered(id) \in 0 .. n - 1 /\ OldId(Renumbered(id)) = id
      /\ \A i \in 0 .. n - 1 : OldId(i) \in Ids(am) /\ Renumbered(OldId(i)) = i
  BY Renumbering
<1>3. \A i \in 0 .. n - 1 :
         /\ r.mapInfo[i].fInTried = am.mapInfo[OldId(i)].fInTried
         /\ r.mapInfo[i].nRandomPos = i + 1
         /\ HostAt(r, i) = HostAt(am, OldId(i))
  BY ONLY <1>1 DEF Reread, HostAt
<1>4. DOMAIN r.mapAddr = {HostAt(r, i) : i \in Ids(r)}
  <2>1. \A i \in Ids(r) : \E id \in Ids(am) : HostAt(r, i) = HostAt(am, id)
    BY ONLY <1>1, <1>2, <1>3
  <2>2. \A id \in Ids(am) : \E i \in Ids(r) : HostAt(am, id) = HostAt(r, i)
    BY ONLY <1>1, <1>2, <1>3
  <2> QED
    BY ONLY <1>1, <2>1, <2>2
<1>5. \A i \in Ids(r) : r.mapAddr[HostAt(r, i)] = i
  BY ONLY <1>1, <1>3
<1>6. \A i \in Ids(r) : /\ r.mapInfo[i].nRandomPos \in 1 .. Len(r.vRandom)
                        /\ r.vRandom[r.mapInfo[i].nRandomPos] = i
  <2>1. ASSUME NEW i \in 0 .. n - 1
        PROVE  /\ r.mapInfo[i].nRandomPos \in 1 .. n
               /\ r.vRandom[r.mapInfo[i].nRandomPos] = i
    <3>1. i + 1 \in 1 .. n /\ (i + 1) - 1 = i
      BY ONLY <1>2, i \in 0 .. n - 1
    <3> QED
      BY ONLY <1>1, <1>3, <3>1, i \in 0 .. n - 1
  <2> QED
    BY ONLY <1>1, <2>1
<1>7. \A p \in 1 .. Len(r.vRandom) : /\ r.vRandom[p] \in Ids(r)
                                     /\ r.mapInfo[r.vRandom[p]].nRandomPos = p
  <2>1. ASSUME NEW p \in 1 .. n
        PROVE  /\ r.vRandom[p] \in 0 .. n - 1
               /\ r.mapInfo[r.vRandom[p]].nRandomPos = p
    <3>1. p - 1 \in 0 .. n - 1 /\ (p - 1) + 1 = p
      BY ONLY <1>2, p \in 1 .. n
    <3> QED
      BY ONLY <1>1, <1>3, <3>1, p \in 1 .. n
  <2> QED
    BY ONLY <1>1, <2>1
<1>8. Indexed(r)
  BY ONLY <1>1, <1>4, <1>5, <1>6, <1>7 DEF Indexed
<1>9. NewOf(r) = {Renumbered(id) : id \in NewOf(am)}
  <2>1. \A i \in NewOf(r) : \E id \in NewOf(am) : i = Renumbered(id)
    BY ONLY <1>1, <1>2, <1>3 DEF NewOf
  <2>2. \A id \in NewOf(am) : Renumbered(id) \in NewOf(r)
    BY ONLY <1>1, <1>2, <1>3 DEF NewOf
  <2> QED
    BY ONLY <2>1, <2>2
<1>10. TriedOf(r) = {Renumbered(id) : id \in TriedOf(am)}
  <2>1. \A i \in TriedOf(r) : \E id \in TriedOf(am) : i = Renumbered(id)
    BY ONLY <1>1, <1>2, <1>3 DEF TriedOf
  <2>2. \A id \in TriedOf(am) : Renumbered(id) \in TriedOf(r)
    BY ONLY <1>1, <1>2, <1>3 DEF TriedOf
  <2> QED
    BY ONLY <2>1, <2>2
<1> QED
  BY <1>1, <1>3, <1>8, <1>9, <1>10

LEMMA RereadNew ==
    ASSUME InOrder(am), NEW n, n = Cardinality(NewIds) + Cardinality(Kept),
           NEW r, ReloadedTo(r, n)
    PROVE  NewTable(r, NewOf(r))
<1>1. /\ Ids(r) = 0 .. n - 1 /\ r.nNew = am.nNew
      /\ \A i \in 0 .. n - 1 : Reread(r, i)
      /\ \A b \in NewBuckets : r.vvNew[b] = {Renumbered(id) : id \in am.vvNew[b]}
  BY DEF ReloadedTo
<1>2. /\ \A id \in Ids(am) : Renumbered(id) \in 0 .. n - 1 /\ OldId(Renumbered(id)) = id
      /\ \A i \in 0 .. n - 1 : OldId(i) \in Ids(am) /\ Renumbered(OldId(i)) = i
  BY Renumbering
<1>3. /\ \A b \in NewBuckets : /\ am.vvNew[b] \in SUBSET NewOf(am)
                               /\ Cardinality(am.vvNew[b]) <= NewBucketSize
      /\ \A id \in NewOf(am) : /\ IsFiniteSet(BucketsOf(am, id))
                               /\ am.mapInfo[id].nRefCount = Cardinality(BucketsOf(am, id))
                               /\ am.mapInfo[id].nRefCount \in 1 .. NewPerAddress
      /\ am.nNew = Cardinality(NewOf(am))
  BY DEF InOrder, NewTable
<1>4. NewOf(r) = {Renumbered(id) : id \in NewOf(am)}
  BY RereadIndexed
<1>5. NewOf(am) \in SUBSET Ids(am)
  BY DEF NewOf
<1>6. \A b \in NewBuckets : r.vvNew[b] \subseteq NewOf(r)
  BY ONLY <1>1, <1>3, <1>4
<1>7. ASSUME NEW b \in NewBuckets PROVE Cardinality(r.vvNew[b]) <= NewBucketSize
  <2>1. PICK S : S = am.vvNew[b]
    OBVIOUS
  <2>2. PICK U : U = {Renumbered(id) : id \in S}
    OBVIOUS
  <2>3. S \in SUBSET Ids(am)
    BY ONLY <1>3, <1>5, <2>1, b \in NewBuckets
  <2>4. Cardinality(U) = Cardinality(S)
    BY <2>2, <2>3, RenumberedSize
  <2>5. r.vvNew[b] = U
    BY ONLY <1>1, <2>1, <2>2, b \in NewBuckets
  <2> QED
    BY ONLY <1>3, <2>1, <2>4, <2>5, b \in NewBuckets
<1>8. ASSUME NEW i \in NewOf(r)
      PROVE  /\ IsFiniteSet(BucketsOf(r, i))
             /\ r.mapInfo[i].nRefCount = Cardinality(BucketsOf(r, i))
             /\ r.mapInfo[i].nRefCount \in 1 .. NewPerAddress
  <2>1. PICK x \in NewOf(am) : i = Renumbered(x)
    BY <1>4
  <2>2. x \in Ids(am) /\ i \in 0 .. n - 1 /\ OldId(i) = x
    BY ONLY <1>2, <1>5, <2>1
  <2>3. \A b \in NewBuckets : i \in r.vvNew[b] <=> x \in am.vvNew[b]
    <3> SUFFICES ASSUME NEW b \in NewBuckets
                 PROVE  i \in r.vvNew[b] <=> x \in am.vvNew[b]
      OBVIOUS
    <3>1. i \in r.vvNew[b] <=> \E id \in am.vvNew[b] : i = Renumbered(id)
      BY ONLY <1>1, b \in NewBuckets
    <3>2. \A id \in am.vvNew[b] : i = Renumbered(id) => id = x
      BY ONLY <1>2, <1>3, <1>5, <2>1, <2>2, b \in NewBuckets
    <3> QED
      BY ONLY <2>1, <3>1, <3>2
  <2>4. BucketsOf(r, i) = BucketsOf(am, x)
    BY ONLY <2>3 DEF BucketsOf
  <2>5. r.mapInfo[i].nRefCount = am.mapInfo[x].nRefCount
    BY ONLY <1>1, <2>2 DEF Reread
  <2> QED
    BY ONLY <1>3, <2>1, <2>4, <2>5
<1>9. r.nNew = Cardinality(NewOf(r))
  BY <1>1, <1>3, <1>4, <1>5, RenumberedSize
<1> QED
  BY ONLY <1>6, <1>7, <1>8, <1>9 DEF NewTable

LEMMA RereadTried ==
    ASSUME InOrder(am), NEW n, n = Cardinality(NewIds) + Cardinality(Kept),
           NEW r, ReloadedTo(r, n)
    PROVE  TriedTable(r, TriedOf(r))
<1>1. /\ Ids(r) = 0 .. n - 1 /\ r.nTried = am.nTried
      /\ \A i \in 0 .. n - 1 : Reread(r, i)
      /\ \A k \in TriedBuckets :
            /\ Len(r.vvTried[k]) = Cardinality(TriedIds(k))
            /\ \A p \in 1 .. Cardinality(TriedIds(k)) :
                  r.vvTried[k][p] = Renumbered(Nth(TriedIds(k), p - 1))
  BY DEF ReloadedTo
<1>2. /\ \A id \in Ids(am) : Renumbered(id) \in 0 .. n - 1 /\ OldId(Renumbered(id)) = id
      /\ \A i \in 0 .. n - 1 : OldId(i) \in Ids(am) /\ Renumbered(OldId(i)) = i
  BY Renumbering
<1>3. /\ \A id \in TriedOf(am) : am.mapInfo[id].nRefCount = 0
      /\ am.nTried = Cardinality(TriedOf(am))
  BY DEF InOrder, TriedTable
<1>4. TriedOf(r) = {Renumbered(id) : id \in TriedOf(am)}
  BY RereadIndexed
<1>5. TriedOf(am) \in SUBSET Ids(am)
  BY DEF TriedOf
<1>6. \A i \in 0 .. n - 1 : /\ r.mapInfo[i].svc = am.mapInfo[OldId(i)].svc
                            /\ r.mapInfo[i].nRefCount = am.mapInfo[OldId(i)].nRefCount
  BY ONLY <1>1 DEF Reread
<1>7. \A k \in TriedBuckets : \A x \in TriedIds(k) :
         x \in TriedOf(am) /\ TriedBucketOf[am.mapInfo[x].svc] = k
  BY DEF TriedIds, TriedOf, Ids
<1>8. ASSUME NEW k \in TriedBuckets
      PROVE  /\ Len(r.vvTried[k]) <= TriedBucketSize
             /\ \A p \in 1 .. Len(r.vvTried[k]) :
                   /\ r.vvTried[k][p] \in TriedOf(r)
                   /\ TriedBucketOf[r.mapInfo[r.vvTried[k][p]].svc] = k
             /\ \A p, q \in 1 .. Len(r.vvTried[k]) :
                   r.vvTried[k][p] = r.vvTried[k][q] => p = q
             /\ \A x \in TriedIds(k) :
                   \E p \in 1 .. Len(r.vvTried[k]) : r.vvTried[k][p] = Renumbered(x)
  <2>1. PICK S, c, a : S = TriedIds(k) /\ c = Cardinality(S) /\ a = r.vvTried[k]
    OBVIOUS
  <2>2. IsFiniteSet(S) /\ S \in SUBSET Nat /\ c <= TriedBucketSize /\ c \in Nat
    BY <2>1, TriedIdsFit, FS_CardinalityType
  <2>3. /\ \A q \in 0 .. c - 1 : Nth(S, q) \in S /\ Rank(S, Nth(S, q)) = q
        /\ \A x \in S : Nth(S, Rank(S, x)) = x
        /\ \A x \in S : Rank(S, x) \in 0 .. c - 1
    BY ONLY <2>1, <2>2, NthRanks, Ranks
  <2>4. Len(a) = c /\ \A p \in 1 .. c : a[p] = Renumbered(Nth(S, p - 1))
    BY ONLY <1>1, <2>1, k \in TriedBuckets
  <2>5. \A x \in S : x \in TriedOf(am) /\ TriedBucketOf[am.mapInfo[x].svc] = k
    BY ONLY <1>7, <2>1, k \in TriedBuckets
  <2>6. ASSUME NEW p \in 1 .. c
        PROVE  /\ Nth(S, p - 1) \in S /\ Rank(S, Nth(S, p - 1)) = p - 1
               /\ a[p] = Renumbered(Nth(S, p - 1))
               /\ a[p] \in 0 .. n - 1 /\ OldId(a[p]) = Nth(S, p - 1)
    <3>1. p - 1 \in 0 .. c - 1
      BY ONLY <2>2, p \in 1 .. c
    <3>2. Nth(S, p - 1) \in Ids(am)
      BY ONLY <1>5, <2>3, <2>5, <3>1
    <3> QED
      BY ONLY <1>2, <2>3, <2>4, <3>1, <3>2, p \in 1 .. c
  <2>7. ASSUME NEW p \in 1 .. c
        PROVE  a[p] \in TriedOf(r) /\ TriedBucketOf[r.mapInfo[a[p]].svc] = k
    BY ONLY <1>4, <1>6, <2>5, <2>6, p \in 1 .. c
  <2>8. ASSUME NEW p \in 1 .. c, NEW q \in 1 .. c, a[p] = a[q]
        PROVE  p = q
    <3>1. Nth(S, p - 1) = Nth(S, q - 1)
      BY ONLY <2>6, <2>8, p \in 1 .. c, q \in 1 .. c
    <3>2. p - 1 = q - 1
      BY ONLY <2>6, <3>1, p \in 1 .. c, q \in 1 .. c
    <3> QED
      BY ONLY <2>2, <3>2, p \in 1 .. c, q \in 1 .. c
  <2>9. ASSUME NEW x \in S
        PROVE  \E p \in 1 .. c : a[p] = Renumbered(x)
    <3>1. PICK q : q = Rank(S, x)
      OBVIOUS
    <3>2. q \in 0 .. c - 1 /\ Nth(S, q) = x
      BY ONLY <2>3, <3>1, x \in S
    <3>3. q + 1 \in 1 .. c /\ (q + 1) - 1 = q
      BY ONLY <2>2, <3>2
    <3>4. a[q + 1] = Renumbered(x)
      BY ONLY <2>4, <3>2, <3>3
    <3> QED
      BY ONLY <3>3, <3>4
  <2> QED
    BY ONLY <2>1, <2>2, <2>4, <2>7, <2>8, <2>9
<1>9. ASSUME NEW i \in TriedOf(r)
      PROVE  /\ r.mapInfo[i].nRefCount = 0
             /\ \E p \in 1 .. Len(r.vvTried[TriedBucketOf[r.mapInfo[i].svc]]) :
                   r.vvTried[TriedBucketOf[r.mapInfo[i].svc]][p] = i
  <2>1. PICK x \in TriedOf(am) : i = Renumbered(x)
    BY <1>4
  <2>2. x \in Ids(am) /\ i \in 0 .. n - 1 /\ OldId(i) = x
    BY ONLY <1>2, <1>5, <2>1
  <2>3. r.mapInfo[i].svc = am.mapInfo[x].svc /\ r.mapInfo[i].nRefCount = 0
    BY ONLY <1>3, <1>6, <2>1, <2>2
  <2>4. PICK k \in TriedBuckets : x \in TriedIds(k)
    BY <2>1, EverythingKept
  <2>5. TriedBucketOf[r.mapInfo[i].svc] = k
    BY ONLY <1>7, <2>3, <2>4
  <2> QED
    BY ONLY <1>8, <2>1, <2>3, <2>4, <2>5
<1>10. r.nTried = Cardinality(TriedOf(r))
  BY <1>1, <1>3, <1>4, <1>5, RenumberedSize
<1> QED
  BY ONLY <1>8, <1>9, <1>10 DEF TriedTable

\* Reading the tables back renumbers the entries and loses nothing.
LEMMA ReloadInOrder ==
    ASSUME InOrder(am), Reload
    PROVE  /\ InOrder(am')
           /\ \A i \in Ids(am') : \E id \in Ids(am) :
                 /\ HostAt(am', i) = HostAt(am, id)
                 /\ am'.mapInfo[i].fInTried = am.mapInfo[id].fInTried
           /\ \A id \in Ids(am) : \E i \in Ids(am') : HostAt(am', i) = HostAt(am, id)
<1>1. PICK n : n = Cardinality(NewIds) + Cardinality(Kept)
  OBVIOUS
<1>2. ReloadedTo(am', n)
  BY <1>1, ReloadFields
<1>3. PICK r : r = am'
  OBVIOUS
<1>4. ReloadedTo(r, n)
  BY ONLY <1>2, <1>3
<1>5. Indexed(r) /\ \A i \in Ids(r) : HostAt(r, i) = HostAt(am, OldId(i))
  BY <1>1, <1>4, RereadIndexed
<1>6. NewTable(r, NewOf(r)) /\ TriedTable(r, TriedOf(r))
  BY <1>1, <1>4, RereadNew, RereadTried
<1>7. InOrder(r)
  BY <1>5, <1>6 DEF InOrder
<1>8. /\ \A id \in Ids(am) : Renumbered(id) \in 0 .. n - 1 /\ OldId(Renumbered(id)) = id
      /\ \A i \in 0 .. n - 1 : OldId(i) \in Ids(am) /\ Renumbered(OldId(i)) = i
  BY <1>1, Renumbering
<1>9. Ids(r) = 0 .. n - 1 /\ \A i \in 0 .. n - 1 : Reread(r, i)
  BY <1>4 DEF ReloadedTo
<1>10. \A i \in Ids(r) : \E id \in Ids(am) :
          HostAt(r, i) = HostAt(am, id) /\ r.mapInfo[i].fInTried = am.mapInfo[id].fInTried
  BY ONLY <1>5, <1>8, <1>9 DEF Reread
<1>11. \A id \in Ids(am) : \E i \in Ids(r) : HostAt(r, i) = HostAt(am, id)
  BY ONLY <1>5, <1>8, <1>9
<1> QED
  BY ONLY <1>3, <1>7, <1>10, <1>11

-----------------------------------------------------------------------------
(* The tables are in order after any operations.                             *)

LEMMA InitInOrder ==
    ASSUME Init
    PROVE  InOrder(am) /\ Ids(am) = {}
<1>1. PICK news, tried : news = [b \in NewBuckets |-> {}] /\ tried = [k \in TriedBuckets |-> <<>>]
  OBVIOUS
<1>2. am = [nIdCount |-> 0, mapInfo |-> <<>>, mapAddr |-> <<>>, vRandom |-> <<>>,
            nNew |-> 0, vvNew |-> news, nTried |-> 0, vvTried |-> tried]
  BY <1>1 DEF Init
<1>3. /\ news \in [NewBuckets -> SUBSET Nat] /\ \A b \in NewBuckets : news[b] = {}
      /\ tried \in [TriedBuckets -> Seq(Nat)] /\ \A k \in TriedBuckets : Len(tried[k]) = 0
  BY <1>1
<1>4. PICK e : e = <<>>
  OBVIOUS
<1>5. /\ e \in Seq(Nat) /\ Len(e) = 0 /\ DOMAIN e = {}
      /\ e \in UNION {[S -> Entry] : S \in SUBSET Nat}
      /\ e \in UNION {[H -> Nat] : H \in SUBSET Host}
  <2>1. e \in [{} -> Entry] /\ e \in [{} -> Nat]
    BY <1>4
  <2>2. /\ e \in UNION {[S -> Entry] : S \in SUBSET Nat}
        /\ e \in UNION {[H -> Nat] : H \in SUBSET Host}
    BY ONLY <2>1
  <2>3. e \in Seq(Nat) /\ Len(e) = 0 /\ DOMAIN e = {}
    BY ONLY <1>4
  <2> QED
    BY ONLY <2>2, <2>3
<1>6. am = [nIdCount |-> 0, mapInfo |-> e, mapAddr |-> e, vRandom |-> e,
            nNew |-> 0, vvNew |-> news, nTried |-> 0, vvTried |-> tried]
  BY <1>2, <1>4
<1>7. /\ am \in Object /\ am.mapInfo = e /\ am.mapAddr = e /\ am.vRandom = e
      /\ am.nIdCount = 0 /\ am.nNew = 0 /\ am.nTried = 0 /\ am.vvNew = news
      /\ am.vvTried = tried
  <2>1. 0 \in Nat /\ 0 \in Int
    OBVIOUS
  <2>2. am \in Object
    BY ONLY <1>3, <1>5, <1>6, <2>1 DEF Object
  <2> QED
    BY ONLY <1>6, <2>2
<1>8. Ids(am) = {}
  BY ONLY <1>5, <1>7 DEF Ids
<1>9. NewOf(am) = {} /\ TriedOf(am) = {}
  BY ONLY <1>8 DEF NewOf, TriedOf
<1>10. Indexed(am)
  BY ONLY <1>5, <1>7, <1>8 DEF Indexed
<1>11. Cardinality({}) = 0
  BY FS_EmptySet
<1>12. /\ NewBucketSize \in Nat /\ TriedBucketSize \in Nat
  BY AddrManAssumption
<1>13. NewTable(am, NewOf(am))
  <2>1. \A b \in NewBuckets : am.vvNew[b] = {}
    BY ONLY <1>3, <1>7
  <2>2. 0 <= NewBucketSize
    BY <1>12
  <2>3. NewTable(am, {})
    BY ONLY <1>7, <1>11, <2>1, <2>2 DEF NewTable
  <2> QED
    BY ONLY <1>9, <2>3
<1>14. TriedTable(am, TriedOf(am))
  BY ONLY <1>3, <1>7, <1>9, <1>11, <1>12 DEF TriedTable
<1> QED
  BY <1>8, <1>10, <1>13, <1>14 DEF InOrder

LEMMA NextInOrder == InOrder(am) /\ [Next]_vars => InOrder(am')
<1> SUFFICES ASSUME InOrder(am), [Next]_vars PROVE InOrder(am')
  OBVIOUS
<1>1. ASSUME NEW svc \in Svc, NEW source \in Source, AddNew(svc, source)
      PROVE  InOrder(am')
  BY <1>1, NewInOrder
<1>2. ASSUME NEW svc \in Svc, NEW source \in Source, AddAgain(svc, source)
      PROVE  InOrder(am')
  BY <1>2, AgainInOrder
<1>3. ASSUME NEW svc \in Svc, Good(svc) PROVE InOrder(am')
  BY <1>3, GoodInOrder
<1>4. CASE GetAddr
  BY <1>4, GetAddrInOrder
<1>5. CASE Reload
  BY <1>5, ReloadInOrder
<1>6. CASE UNCHANGED vars
  BY <1>6 DEF vars
<1> QED
  BY <1>1, <1>2, <1>3, <1>4, <1>5, <1>6 DEF Next

Inv == InOrder(am)

LEMMA AlwaysInOrder == Spec => []Inv
<1>1. Init => Inv
  BY InitInOrder DEF Inv
<1>2. Inv /\ [Next]_vars => Inv'
  BY NextInOrder DEF Inv
<1> QED
  BY <1>1, <1>2, PTL DEF Spec

\* The ids are as many as the hosts and as the places of vRandom.
LEMMA IndexSizes ==
    ASSUME NEW m, Indexed(m)
    PROVE  /\ Cardinality(DOMAIN m.mapAddr) = Cardinality(Ids(m))
           /\ Len(m.vRandom) = Cardinality(Ids(m))
           /\ Cardinality(Ids(m)) = Cardinality(TriedOf(m)) + Cardinality(NewOf(m))
           /\ Cardinality(TriedOf(m)) \in Nat /\ Cardinality(NewOf(m)) \in Nat
<1>1. IsFiniteSet(Ids(m)) /\ IsFiniteSet(TriedOf(m)) /\ IsFiniteSet(NewOf(m))
  BY IdsFinite DEF TriedOf, NewOf
<1>2. Cardinality(DOMAIN m.mapAddr) = Cardinality(Ids(m))
  <2>1. PICK D, f : D = DOMAIN m.mapAddr /\ f = [id \in Ids(m) |-> HostAt(m, id)]
    OBVIOUS
  <2>2. f \in [Ids(m) -> D] /\ \A h \in D : \E id \in Ids(m) : f[id] = h
    BY <2>1 DEF Indexed
  <2>3. \A x, y \in Ids(m) : f[x] = f[y] => x = y
    BY <2>1 DEF Indexed
  <2>4. f \in Surjection(Ids(m), D) /\ f \in Injection(Ids(m), D)
    BY ONLY <2>2, <2>3 DEF Surjection, Injection, IsInjective
  <2> QED
    BY <1>1, <2>1, <2>4, FS_Surjection
<1>3. Len(m.vRandom) = Cardinality(Ids(m))
  <2>1. PICK n, f : n = Len(m.vRandom) /\ f = [p \in 1 .. n |-> m.vRandom[p]]
    OBVIOUS
  <2>2. n \in Nat
    BY <2>1, ObjectFields DEF Indexed
  <2>3. f \in [1 .. n -> Ids(m)] /\ \A id \in Ids(m) : \E p \in 1 .. n : f[p] = id
    BY <2>1 DEF Indexed
  <2>4. \A p, q \in 1 .. n : f[p] = f[q] => p = q
    <3>1. \A p \in 1 .. n : m.mapInfo[f[p]].nRandomPos = p
      BY <2>1 DEF Indexed
    <3> QED
      BY ONLY <3>1
  <2>5. f \in Surjection(1 .. n, Ids(m)) /\ f \in Injection(1 .. n, Ids(m))
    BY ONLY <2>3, <2>4 DEF Surjection, Injection, IsInjective
  <2>6. IsFiniteSet(1 .. n) /\ Cardinality(1 .. n) = n
    BY <2>2, FS_Interval
  <2>7. Cardinality(Ids(m)) = Cardinality(1 .. n)
    BY <2>5, <2>6, FS_Surjection
  <2> QED
    BY ONLY <2>1, <2>6, <2>7
<1>4. Cardinality(Ids(m)) = Cardinality(TriedOf(m)) + Cardinality(NewOf(m))
  <2>1. PICK T, N : T = TriedOf(m) /\ N = NewOf(m)
    OBVIOUS
  <2>2. T \cup N = Ids(m) /\ T \cap N = {}
    BY <2>1 DEF TriedOf, NewOf
  <2>3. Cardinality(T \cup N) = Cardinality(T) + Cardinality(N) - Cardinality(T \cap N)
    BY <1>1, <2>1, FS_Union
  <2>4. Cardinality(T) \in Nat /\ Cardinality(N) \in Nat
    BY <1>1, <2>1, FS_CardinalityType
  <2>5. Cardinality(T \cap N) = 0
    BY <2>2, FS_EmptySet
  <2> QED
    BY ONLY <2>1, <2>2, <2>3, <2>4, <2>5
<1>5. Cardinality(TriedOf(m)) \in Nat /\ Cardinality(NewOf(m)) \in Nat
  BY <1>1, FS_CardinalityType
<1> QED
  BY <1>2, <1>3, <1>4, <1>5

\* Tables in order are what Check_() accepts.
LEMMA OrderIsConsistent ==
    ASSUME InOrder(am)
    PROVE  Consistent /\ BucketsBounded
<1>1. /\ Indexed(am) /\ am \in Object /\ NewTable(am, NewOf(am)) /\ TriedTable(am, TriedOf(am))
  BY DEF InOrder, Indexed
<1>2. /\ am.nIdCount \in Nat /\ am.mapInfo \in [Ids(am) -> Entry]
      /\ DOMAIN am.mapAddr \subseteq Host /\ am.vRandom \in Seq(Nat)
      /\ am.vvNew \in [NewBuckets -> SUBSET Nat]
      /\ am.vvTried \in [TriedBuckets -> Seq(Nat)]
  BY <1>1, ObjectFields
<1>3. PICK I : I = 0 .. am.nIdCount - 1
  OBVIOUS
<1>4. Ids(am) \subseteq I /\ NewOf(am) \subseteq Ids(am) /\ TriedOf(am) \subseteq Ids(am)
  BY <1>1, <1>3 DEF Indexed, NewOf, TriedOf
<1>5. /\ Cardinality(DOMAIN am.mapAddr) = Cardinality(Ids(am))
      /\ Len(am.vRandom) = Cardinality(Ids(am))
      /\ Cardinality(Ids(am)) = Cardinality(TriedOf(am)) + Cardinality(NewOf(am))
      /\ am.nNew = Cardinality(NewOf(am)) /\ am.nTried = Cardinality(TriedOf(am))
      /\ am.nNew \in Nat /\ am.nTried \in Nat
  BY <1>1, IndexSizes DEF NewTable, TriedTable
<1>6. TypeOK
  <2>1. ASSUME NEW s \in Seq(Nat), \A p \in 1 .. Len(s) : s[p] \in I
        PROVE  s \in Seq(I)
    <3>1. s \in [1 .. Len(s) -> I] /\ Len(s) \in Nat
      BY <2>1
    <3> QED
      BY <3>1
  <2>2. am.vRandom \in Seq(I)
    <3>1. \A p \in 1 .. Len(am.vRandom) : am.vRandom[p] \in I
      BY <1>1, <1>4 DEF Indexed
    <3> QED
      BY <1>2, <2>1, <3>1
  <2>3. ASSUME NEW k \in TriedBuckets PROVE am.vvTried[k] \in Seq(I)
    <3>1. \A p \in 1 .. Len(am.vvTried[k]) : am.vvTried[k][p] \in I
      BY <1>1, <1>4 DEF TriedTable
    <3> QED
      BY <1>2, <2>1, <3>1
  <2>4. ASSUME NEW b \in NewBuckets PROVE am.vvNew[b] \in SUBSET I
    BY <1>1, <1>4 DEF NewTable
  <2>5. /\ am.vvTried \in [TriedBuckets -> Seq(I)]
        /\ am.vvNew \in [NewBuckets -> SUBSET I]
    BY ONLY <1>2, <2>3, <2>4
  <2> QED
    BY ONLY <1>2, <1>3, <1>4, <1>5, <2>2, <2>5 DEF TypeOK, Ids
<1>7. NewEntriesCounted
  BY <1>1 DEF NewTable, NewOf, Ids, NewEntriesCounted
<1>8. TriedEntriesPlaced
  <2> SUFFICES ASSUME NEW id \in TriedOf(am)
               PROVE  /\ am.mapInfo[id].nRefCount = 0 /\ BucketsOf(am, id) = {}
                      /\ LET k == TriedBucketOf[am.mapInfo[id].svc] IN
                         \E i \in 1 .. Len(am.vvTried[k]) : am.vvTried[k][i] = id
    BY DEF TriedEntriesPlaced, TriedOf, Ids
  <2>1. \A b \in NewBuckets : id \notin am.vvNew[b]
    BY <1>1 DEF NewTable, NewOf, TriedOf
  <2>2. BucketsOf(am, id) = {}
    BY <2>1 DEF BucketsOf
  <2> QED
    BY <1>1, <2>2 DEF TriedTable
<1>9. BucketsHoldEntries
  <2>1. \A b \in NewBuckets :
           am.vvNew[b] \subseteq {id \in DOMAIN am.mapInfo : ~ am.mapInfo[id].fInTried}
    BY <1>1 DEF NewTable, NewOf, Ids
  <2>2. ASSUME NEW k \in TriedBuckets, NEW i \in 1 .. TriedBucketSize,
               NEW j \in 1 .. TriedBucketSize,
               i <= Len(am.vvTried[k]), j <= Len(am.vvTried[k])
        PROVE  /\ am.vvTried[k][i] \in DOMAIN am.mapInfo
               /\ am.mapInfo[am.vvTried[k][i]].fInTried
               /\ am.vvTried[k][i] = am.vvTried[k][j] => i = j
    <3>1. PICK n : n = Len(am.vvTried[k])
      OBVIOUS
    <3>2. n \in Nat /\ TriedBucketSize \in Nat
      BY <1>2, <3>1, AddrManAssumption
    <3>3. i \in 1 .. n /\ j \in 1 .. n
      BY ONLY <2>2, <3>1, <3>2, i \in 1 .. TriedBucketSize, j \in 1 .. TriedBucketSize
    <3> QED
      BY <1>1, <3>1, <3>3 DEF TriedTable, TriedOf, Ids
  <2> QED
    BY <2>1, <2>2 DEF BucketsHoldEntries
<1>10. IndexesAgree
  <2>1. \A id \in Ids(am) :
           /\ HostAt(am, id) \in DOMAIN am.mapAddr
           /\ am.mapAddr[HostAt(am, id)] = id
           /\ am.mapInfo[id].nRandomPos \in 1 .. Len(am.vRandom)
           /\ am.vRandom[am.mapInfo[id].nRandomPos] = id
    BY <1>1 DEF Indexed
  <2> QED
    BY ONLY <1>5, <2>1 DEF IndexesAgree, Ids, HostAt
<1>11. CountersAgree
  <2>1. /\ {id \in DOMAIN am.mapInfo : am.mapInfo[id].fInTried} = TriedOf(am)
        /\ {id \in DOMAIN am.mapInfo : ~ am.mapInfo[id].fInTried} = NewOf(am)
    BY DEF TriedOf, NewOf, Ids
  <2> QED
    BY <1>5, <2>1 DEF CountersAgree
<1>12. BucketsBounded
  BY <1>1 DEF NewTable, TriedTable, BucketsBounded
<1> QED
  BY <1>6, <1>7, <1>8, <1>9, <1>10, <1>11, <1>12 DEF Consistent

\* Check_() returns 0 between any two operations: the entries, mapAddr,
\* vRandom, the buckets, the reference counts and nNew and nTried agree.
THEOREM TablesAlwaysConsistent == Spec => []Consistent
<1>1. Inv => Consistent
  BY OrderIsConsistent DEF Inv
<1> QED
  BY <1>1, AlwaysInOrder, PTL

\* ShrinkNew always makes room in a new bucket, and an address MakeTried
\* evicts finds a bucket with room: no bucket outgrows its size.
THEOREM BucketsAlwaysBounded == Spec => []BucketsBounded
<1>1. Inv => BucketsBounded
  BY OrderIsConsistent DEF Inv
<1> QED
  BY <1>1, AlwaysInOrder, PTL

-----------------------------------------------------------------------------
(* The tables implement AddrTables, host by host.                            *)

TableIn(m, h) ==
    IF Find(m, h) = {} THEN "unknown"
    ELSE IF \E id \in Find(m, h) : m.mapInfo[id].fInTried THEN "tried" ELSE "new"

\* A host is in the table of its entry, and unknown without one.
LEMMA TableOfHost ==
    ASSUME NEW m, Indexed(m), NEW h
    PROVE  /\ (\A id \in Ids(m) : HostAt(m, id) # h) => TableIn(m, h) = "unknown"
           /\ \A id \in Ids(m) : HostAt(m, id) = h =>
                 TableIn(m, h) = IF m.mapInfo[id].fInTried THEN "tried" ELSE "new"
<1>1. Find(m, h) = {id \in Ids(m) : HostAt(m, id) = h}
  <2>1. ASSUME NEW id \in Ids(m), HostAt(m, id) = h
        PROVE  h \in DOMAIN m.mapAddr /\ m.mapAddr[h] = id
    BY <2>1 DEF Indexed
  <2>2. ASSUME NEW id \in Ids(m), h \in DOMAIN m.mapAddr, m.mapAddr[h] = id
        PROVE  HostAt(m, id) = h
    <3>1. PICK x \in Ids(m) : h = HostAt(m, x)
      BY <2>2 DEF Indexed
    <3>2. m.mapAddr[h] = x
      BY <3>1 DEF Indexed
    <3> QED
      BY <2>2, <3>1, <3>2
  <2> QED
    BY <2>1, <2>2 DEF Find, Ids
<1>2. \A x, y \in Ids(m) : HostAt(m, x) = HostAt(m, y) => x = y
  BY DEF Indexed
<1>3. (\A id \in Ids(m) : HostAt(m, id) # h) => Find(m, h) = {}
  BY ONLY <1>1
<1>4. ASSUME NEW id \in Ids(m), HostAt(m, id) = h
      PROVE  Find(m, h) = {id}
  BY ONLY <1>1, <1>2, <1>4, id \in Ids(m)
<1> QED
  BY <1>3, <1>4 DEF TableIn

\* An operation that leaves every host in its table stutters.
Unmoved(m, r) ==
    /\ \A i \in Ids(r) : \E id \in Ids(m) : /\ HostAt(r, i) = HostAt(m, id)
                                            /\ r.mapInfo[i].fInTried = m.mapInfo[id].fInTried
    /\ \A id \in Ids(m) : \E i \in Ids(r) : HostAt(r, i) = HostAt(m, id)

LEMMA UnmovedTables ==
    ASSUME NEW m, NEW r, Indexed(m), Indexed(r), Unmoved(m, r), NEW h
    PROVE  TableIn(r, h) = TableIn(m, h)
<1>1. CASE \E i \in Ids(r) : HostAt(r, i) = h
  <2>1. PICK i \in Ids(r) : HostAt(r, i) = h
    BY <1>1
  <2>2. PICK id \in Ids(m) : /\ HostAt(r, i) = HostAt(m, id)
                             /\ r.mapInfo[i].fInTried = m.mapInfo[id].fInTried
    BY <2>1 DEF Unmoved
  <2>3. TableIn(r, h) = IF r.mapInfo[i].fInTried THEN "tried" ELSE "new"
    BY <2>1, TableOfHost
  <2>4. TableIn(m, h) = IF m.mapInfo[id].fInTried THEN "tried" ELSE "new"
    BY <2>1, <2>2, TableOfHost
  <2> QED
    BY ONLY <2>2, <2>3, <2>4
<1>2. CASE \A i \in Ids(r) : HostAt(r, i) # h
  <2>1. \A id \in Ids(m) : HostAt(m, id) # h
    BY <1>2 DEF Unmoved
  <2> QED
    BY <1>2, <2>1, TableOfHost
<1> QED
  BY <1>1, <1>2

table == [h \in Host |-> TableOf(h)]

LEMMA TableFields ==
    /\ DOMAIN table = Host /\ \A h \in Host : table[h] = TableIn(am, h)
    /\ table' = [h \in Host |-> TableIn(am', h)]
<1>1. \A h : TableOf(h) = TableIn(am, h)
  BY DEF TableOf, TableIn
<1>2. \A h : TableOf(h)' = TableIn(am', h)
  BY DEF TableOf, TableIn, Find
<1> QED
  BY <1>1, <1>2 DEF table

\* A step that moves the hosts of G out and h in is a Learn.
LEMMA Learning ==
    ASSUME NEW h \in Host, NEW G \in SUBSET Host, h \notin G,
           \A f, g \in G : f = g,
           \A g \in G : TableIn(am, g) = "new",
           TableIn(am, h) # "tried",
           \A g \in Host : TableIn(am', g) =
               IF g = h THEN "new" ELSE IF g \in G THEN "unknown" ELSE TableIn(am, g)
    PROVE  Tables!Learn(h)
<1>1. G \in Tables!Forgotten
  BY TableFields DEF Tables!Forgotten, Tables!In, Tables!AtMostOne, table
<1>2. table[h] # "tried"
  BY TableFields
<1>3. table' = Tables!Moved(Tables!Moved(table, G, "unknown"), {h}, "new")
  BY TableFields DEF Tables!Moved
<1> QED
  BY <1>1, <1>2, <1>3 DEF Tables!Learn, table

\* A step that moves h up and the hosts of G back is a Promote.
LEMMA Promoting ==
    ASSUME NEW h \in Host, NEW G \in SUBSET Host, \A f, g \in G : f = g,
           \A g \in G : TableIn(am, g) = "tried",
           TableIn(am, h) = "new",
           \A g \in Host : TableIn(am', g) =
               IF g = h THEN "tried" ELSE IF g \in G THEN "new" ELSE TableIn(am, g)
    PROVE  Tables!Promote(h)
<1>1. G \in {R \in SUBSET Tables!In(table, "tried") : Tables!AtMostOne(R)}
  BY TableFields DEF Tables!In, Tables!AtMostOne
<1>2. table[h] = "new"
  BY TableFields
<1>3. table' = Tables!Moved(Tables!Moved(table, G, "new"), {h}, "tried")
  BY TableFields DEF Tables!Moved
<1> QED
  BY <1>1, <1>2, <1>3 DEF Tables!Promote, table

\* An addition: the entry x is there for host h, and those of S are gone.
LEMMA AdditionLearns ==
    ASSUME Indexed(am), Indexed(am'), NEW x \in Ids(am'), NEW h \in Host,
           HostAt(am', x) = h, ~ am'.mapInfo[x].fInTried, TableIn(am, h) # "tried",
           \A j \in Ids(am) : HostAt(am, j) = h <=> j = x,
           \A j \in Ids(am') \ {x} : /\ HostAt(am', j) = HostAt(am, j)
                                     /\ am'.mapInfo[j].fInTried = am.mapInfo[j].fInTried,
           NEW S \in Spared(am, x), Ids(am') = (Ids(am) \cup {x}) \ S
    PROVE  Tables!Learn(h)
<1>1. PICK G : G = {HostAt(am, z) : z \in S}
  OBVIOUS
<1>2. S \in SUBSET (NewOf(am) \ {x}) /\ \A y, z \in S : y = z
  BY DEF Spared
<1>3. \A z \in S : /\ z \in Ids(am) /\ z # x /\ ~ am.mapInfo[z].fInTried
                   /\ HostAt(am, z) \in Host
  <2>1. am.mapInfo \in [Ids(am) -> Entry]
    BY ObjectFields DEF Indexed
  <2>2. \A z \in Ids(am) : HostAt(am, z) \in Host
    BY <2>1, EntryFields, AddrManAssumption DEF HostAt
  <2> QED
    BY <1>2, <2>2 DEF NewOf
<1>4. G \in SUBSET Host /\ h \notin G /\ \A f, g \in G : f = g
  BY <1>1, <1>2, <1>3
<1>5. \A g \in G : TableIn(am, g) = "new"
  BY <1>1, <1>3, TableOfHost
<1>6. \A y, z \in Ids(am) : HostAt(am, y) = HostAt(am, z) => y = z
  BY DEF Indexed
<1>7. ASSUME NEW g \in Host
      PROVE  TableIn(am', g) =
                 IF g = h THEN "new" ELSE IF g \in G THEN "unknown" ELSE TableIn(am, g)
  <2>1. CASE g = h
    BY <2>1, TableOfHost
  <2>2. CASE g # h /\ g \in G
    <3>1. PICK z \in S : g = HostAt(am, z)
      BY <1>1, <2>2
    <3>2. \A j \in Ids(am') : HostAt(am', j) # g
      <4> SUFFICES ASSUME NEW j \in Ids(am'), HostAt(am', j) = g PROVE FALSE
        OBVIOUS
      <4>1. j # x
        BY <2>2
      <4>2. HostAt(am, j) = g /\ j \in Ids(am) /\ j \notin S
        BY <4>1
      <4> QED
        BY <1>3, <1>6, <3>1, <4>2
    <3> QED
      BY <2>2, <3>2, TableOfHost
  <2>3. CASE g # h /\ g \notin G
    <3>1. CASE \E j \in Ids(am') : HostAt(am', j) = g
      <4>1. PICK j \in Ids(am') : HostAt(am', j) = g
        BY <3>1
      <4>2. j # x
        BY <2>3, <4>1
      <4>3. /\ j \in Ids(am) /\ HostAt(am, j) = g
            /\ am'.mapInfo[j].fInTried = am.mapInfo[j].fInTried
        BY <4>1, <4>2
      <4>4. TableIn(am', g) = IF am'.mapInfo[j].fInTried THEN "tried" ELSE "new"
        BY <4>1, TableOfHost
      <4>5. TableIn(am, g) = IF am.mapInfo[j].fInTried THEN "tried" ELSE "new"
        BY <4>3, TableOfHost
      <4> QED
        BY ONLY <2>3, <4>3, <4>4, <4>5
    <3>2. CASE \A j \in Ids(am') : HostAt(am', j) # g
      <4>1. ASSUME NEW j \in Ids(am), HostAt(am, j) = g PROVE FALSE
        <5>1. j \notin S
          BY <1>1, <2>3, <4>1
        <5>2. j \in Ids(am')
          BY <5>1
        <5>3. j = x
          BY <3>2, <4>1, <5>2
        <5> QED
          BY <2>3, <4>1, <5>3
      <4> QED
        BY <2>3, <3>2, <4>1, TableOfHost
    <3> QED
      BY <3>1, <3>2
  <2> QED
    BY <2>1, <2>2, <2>3
<1> QED
  BY <1>4, <1>5, <1>7, Learning

LEMMA NewLearns ==
    ASSUME InOrder(am), NEW svc \in Svc, NEW source \in Source, AddNew(svc, source)
    PROVE  Tables!Learn(HostOf[svc])
<1>1. PICK x, h : x = am.nIdCount /\ h = HostOf[svc]
  OBVIOUS
<1>2. /\ InOrder(am') /\ x \in Ids(am') /\ x \notin Ids(am)
      /\ HostAt(am', x) = h /\ ~ am'.mapInfo[x].fInTried
      /\ \A j \in Ids(am) : HostAt(am, j) # h
      /\ \A j \in Ids(am') \ {x} : /\ HostAt(am', j) = HostAt(am, j)
                                   /\ am'.mapInfo[j].fInTried = am.mapInfo[j].fInTried
      /\ \E S \in Spared(am, x) : Ids(am') = (Ids(am) \cup {x}) \ S
  BY <1>1, NewInOrder
<1>3. h \in Host /\ Indexed(am) /\ Indexed(am')
  BY <1>1, <1>2, AddrManAssumption DEF InOrder
<1>4. TableIn(am, h) # "tried"
  <2>1. TableIn(am, h) = "unknown"
    BY ONLY <1>2, <1>3, TableOfHost
  <2> QED
    BY ONLY <2>1
<1>5. PICK S \in Spared(am, x) : Ids(am') = (Ids(am) \cup {x}) \ S
  BY <1>2
<1>6. \A j \in Ids(am) : HostAt(am, j) = h <=> j = x
  BY ONLY <1>2
<1>7. Tables!Learn(h)
  BY <1>2, <1>3, <1>4, <1>5, <1>6, AdditionLearns
<1> QED
  BY <1>1, <1>7

LEMMA AgainLearns ==
    ASSUME InOrder(am), NEW svc \in Svc, NEW source \in Source, AddAgain(svc, source)
    PROVE  Tables!Learn(HostOf[svc])
<1>1. PICK h : h = HostOf[svc]
  OBVIOUS
<1>2. /\ InOrder(am') /\ Within(am', am)
      /\ \E x \in NewOf(am) : /\ h \in DOMAIN am.mapAddr /\ am.mapAddr[h] = x
                              /\ \E S \in Spared(am, x) : Ids(am') = Ids(am) \ S
  BY <1>1, AgainInOrder
<1>3. PICK x \in NewOf(am) : /\ h \in DOMAIN am.mapAddr /\ am.mapAddr[h] = x
                             /\ \E S \in Spared(am, x) : Ids(am') = Ids(am) \ S
  BY <1>2
<1>4. PICK S \in Spared(am, x) : Ids(am') = Ids(am) \ S
  BY <1>3
<1>5. h \in Host /\ Indexed(am) /\ Indexed(am') /\ x \in Ids(am) /\ ~ am.mapInfo[x].fInTried
  BY <1>1, <1>2, AddrManAssumption DEF InOrder, NewOf
<1>6. \A j \in Ids(am) : HostAt(am, j) = h <=> j = x
  <2>1. /\ DOMAIN am.mapAddr = {HostAt(am, j) : j \in Ids(am)}
        /\ \A j \in Ids(am) : am.mapAddr[HostAt(am, j)] = j
    BY <1>5 DEF Indexed
  <2>2. PICK y \in Ids(am) : h = HostAt(am, y)
    BY <1>3, <2>1
  <2> QED
    BY ONLY <1>3, <2>1, <2>2
<1>7. x \notin S /\ x \in Ids(am') /\ Ids(am') = (Ids(am) \cup {x}) \ S
  BY <1>4, <1>5 DEF Spared
<1>8. \A j \in Ids(am') : /\ HostAt(am', j) = HostAt(am, j)
                          /\ am'.mapInfo[j].fInTried = am.mapInfo[j].fInTried
  BY <1>2 DEF Within, HostAt
<1>9. HostAt(am', x) = h /\ ~ am'.mapInfo[x].fInTried
  BY ONLY <1>5, <1>6, <1>7, <1>8
<1>10. TableIn(am, h) # "tried"
  <2>1. TableIn(am, h) = IF am.mapInfo[x].fInTried THEN "tried" ELSE "new"
    BY <1>5, <1>6, TableOfHost
  <2> QED
    BY ONLY <1>5, <2>1
<1>11. Tables!Learn(h)
  BY <1>4, <1>5, <1>6, <1>7, <1>8, <1>9, <1>10, AdditionLearns
<1> QED
  BY <1>1, <1>11

LEMMA GoodPromotes ==
    ASSUME InOrder(am), NEW svc \in Svc, Good(svc)
    PROVE  \E h \in Host : Tables!Promote(h)
<1>1. /\ InOrder(am') /\ SameIndexes(am, am')
      /\ \E x \in NewOf(am) : \E S \in {{}} \cup {{old} : old \in TriedOf(am)} :
            TriedOf(am') = (TriedOf(am) \ S) \cup {x}
  BY GoodInOrder
<1>2. PICK x \in NewOf(am) : \E S \in {{}} \cup {{old} : old \in TriedOf(am)} :
          TriedOf(am') = (TriedOf(am) \ S) \cup {x}
  BY <1>1
<1>3. PICK S \in {{}} \cup {{old} : old \in TriedOf(am)} :
          TriedOf(am') = (TriedOf(am) \ S) \cup {x}
  BY <1>2
<1>4. PICK h, G : h = HostAt(am, x) /\ G = {HostAt(am, z) : z \in S}
  OBVIOUS
<1>5. Indexed(am) /\ Indexed(am') /\ Ids(am') = Ids(am)
  BY <1>1 DEF InOrder, SameIndexes
<1>6. \A j \in Ids(am) : HostAt(am', j) = HostAt(am, j) /\ HostAt(am, j) \in Host
  <2>1. am.mapInfo \in [Ids(am) -> Entry]
    BY <1>5, ObjectFields DEF Indexed
  <2>2. \A z \in Ids(am) : HostAt(am, z) \in Host
    BY <2>1, EntryFields, AddrManAssumption DEF HostAt
  <2> QED
    BY <1>1, <2>2 DEF SameIndexes, HostAt
<1>7. x \in Ids(am) /\ ~ am.mapInfo[x].fInTried
  BY DEF NewOf
<1>8. S \in SUBSET TriedOf(am) /\ \A y, z \in S : y = z
  OBVIOUS
<1>9. \A z \in S : z \in Ids(am) /\ am.mapInfo[z].fInTried /\ z # x
  BY <1>7, <1>8 DEF TriedOf
<1>10. /\ h \in Host /\ G \in SUBSET Host /\ \A f, g \in G : f = g
  BY ONLY <1>4, <1>6, <1>7, <1>8, <1>9
<1>11. \A g \in G : TableIn(am, g) = "tried"
  BY <1>4, <1>5, <1>9, TableOfHost
<1>12. TableIn(am, h) = "new"
  BY <1>4, <1>5, <1>7, TableOfHost
<1>13. \A y, z \in Ids(am) : HostAt(am, y) = HostAt(am, z) => y = z
  BY <1>5 DEF Indexed
<1>14. \A j \in Ids(am) : am'.mapInfo[j].fInTried <=>
                              j = x \/ (am.mapInfo[j].fInTried /\ j \notin S)
  <2>1. \A j \in Ids(am) : j \in TriedOf(am') <=> am'.mapInfo[j].fInTried
    BY <1>5 DEF TriedOf
  <2>2. \A j \in Ids(am) : j \in TriedOf(am) <=> am.mapInfo[j].fInTried
    BY DEF TriedOf
  <2> QED
    BY ONLY <1>3, <2>1, <2>2
<1>15. ASSUME NEW g \in Host
       PROVE  TableIn(am', g) =
                  IF g = h THEN "tried" ELSE IF g \in G THEN "new" ELSE TableIn(am, g)
  <2>1. CASE \E j \in Ids(am) : HostAt(am, j) = g
    <3>1. PICK j \in Ids(am) : HostAt(am, j) = g
      BY <2>1
    <3>2. TableIn(am', g) = IF am'.mapInfo[j].fInTried THEN "tried" ELSE "new"
      BY <1>5, <1>6, <3>1, TableOfHost
    <3>3. TableIn(am, g) = IF am.mapInfo[j].fInTried THEN "tried" ELSE "new"
      BY <1>5, <3>1, TableOfHost
    <3>4. g = h <=> j = x
      BY ONLY <1>4, <1>7, <1>13, <3>1
    <3>5. g \in G <=> j \in S
      BY ONLY <1>4, <1>9, <1>13, <3>1
    <3>6. am'.mapInfo[j].fInTried <=> j = x \/ (am.mapInfo[j].fInTried /\ j \notin S)
      BY <1>14, <3>1
    <3> QED
      BY ONLY <1>9, <3>2, <3>3, <3>4, <3>5, <3>6, Zenon
  <2>2. CASE \A j \in Ids(am) : HostAt(am, j) # g
    <3>1. g # h /\ g \notin G
      BY <1>4, <1>7, <1>9, <2>2
    <3>2. TableIn(am, g) = "unknown"
      BY <1>5, <2>2, TableOfHost
    <3>3. TableIn(am', g) = "unknown"
      BY <1>5, <1>6, <2>2, TableOfHost
    <3> QED
      BY ONLY <3>1, <3>2, <3>3
  <2> QED
    BY <2>1, <2>2
<1>16. Tables!Promote(h)
  BY <1>10, <1>11, <1>12, <1>15, Promoting
<1> QED
  BY <1>10, <1>16

LEMMA UnmovedStutters ==
    ASSUME Indexed(am), Indexed(am'), Unmoved(am, am')
    PROVE  UNCHANGED table
<1>1. \A h \in Host : TableIn(am', h) = TableIn(am, h)
  BY UnmovedTables
<1> QED
  BY <1>1, TableFields DEF table

\* AddrTables is implemented: an addition learns its host at the price of at
\* most one new host, Good promotes one and sends at most one tried host back,
\* and neither GetAddr_ nor a restart moves or forgets a host.
THEOREM TablesAlwaysRefined == Spec => TablesRefined
<1>1. Init => Tables!Init
  <2> SUFFICES ASSUME Init PROVE Tables!Init
    OBVIOUS
  <2>1. \A h \in Host : TableOf(h) = "unknown"
    BY InitInOrder DEF TableOf, Find, Ids
  <2> QED
    BY <2>1 DEF Tables!Init
<1>2. Inv /\ [Next]_vars => [Tables!Next]_table
  <2> SUFFICES ASSUME InOrder(am), [Next]_vars
               PROVE  Tables!Next \/ UNCHANGED table
    BY DEF Inv
  <2>1. Indexed(am) /\ Indexed(am')
    BY NextInOrder DEF InOrder
  <2>2. ASSUME NEW svc \in Svc, NEW source \in Source, AddNew(svc, source)
        PROVE  Tables!Next
    BY <2>2, NewLearns, AddrManAssumption DEF Tables!Next
  <2>3. ASSUME NEW svc \in Svc, NEW source \in Source, AddAgain(svc, source)
        PROVE  Tables!Next
    BY <2>3, AgainLearns, AddrManAssumption DEF Tables!Next
  <2>4. ASSUME NEW svc \in Svc, Good(svc) PROVE Tables!Next
    BY <2>4, GoodPromotes DEF Tables!Next
  <2>5. CASE GetAddr
    <3>1. Unmoved(am, am')
      BY <2>5, GetAddrInOrder DEF Unmoved
    <3> QED
      BY <2>1, <3>1, UnmovedStutters
  <2>6. CASE Reload
    <3>1. Unmoved(am, am')
      BY <2>6, ReloadInOrder DEF Unmoved
    <3> QED
      BY <2>1, <3>1, UnmovedStutters
  <2>7. CASE UNCHANGED vars
    BY <2>7, TableFields DEF vars, table
  <2> QED
    BY <2>2, <2>3, <2>4, <2>5, <2>6, <2>7 DEF Next
<1> QED
  BY <1>1, <1>2, AlwaysInOrder, PTL DEF Spec, TablesRefined, Tables!Spec, table
=============================================================================
