------------------------------ MODULE AddrMan ------------------------------
(* CAddrMan of addrman.h and addrman.cpp: the addresses a node knows, kept   *)
(* under an id in mapInfo, found by host through mapAddr, listed in random   *)
(* order in vRandom, and spread over buckets of "new" entries (a set each,   *)
(* an entry in several of them) and of "tried" ones (a vector each, an entry *)
(* in one).  Every operation runs under cs, so it is one action.             *)
(*                                                                           *)
(* The times, attempts and services of an entry are left out: where they     *)
(* decide, any outcome may follow.  Buckets are hashes of an address and its *)
(* source under a key chosen once, so constants.  Positions count from 1.    *)
EXTENDS Integers, Sequences, FiniteSets, Functions

CONSTANTS
    Svc,                \* CService: a routable host and a port other than 0
    Host,
    HostOf,             \* the CNetAddr of a service
    Source,             \* where an address was heard of
    Announced,          \* the pairs of a service and a source it comes from
    NewBucketOf,        \* GetNewBucket: Host -> Source -> bucket
    TriedBucketOf,      \* GetTriedBucket: Svc -> bucket
    NewBuckets, NewBucketSize, NewPerAddress,
    TriedBuckets, TriedBucketSize,
    GetAddrMaxPct,
    MaxId               \* bound: the ids given out between two restarts

ASSUME AddrManAssumption ==
    /\ HostOf \in [Svc -> Host]
    /\ Announced \subseteq Svc \X Source
    /\ NewBuckets \subseteq Nat
    /\ NewBucketOf \in [Host -> [Source -> NewBuckets]]
    /\ TriedBucketOf \in [Svc -> TriedBuckets]
    /\ {NewBucketSize, NewPerAddress, TriedBucketSize} \subseteq Nat \ {0}
    /\ GetAddrMaxPct \in 0..100
    /\ MaxId \in Nat

VARIABLE am             \* the CAddrMan object

vars == am
Entry == [svc : Svc, source : Source, nRefCount : Nat, fInTried : BOOLEAN,
          nRandomPos : Nat]

TypeOK ==
    /\ am.nIdCount \in Nat /\ am.nNew \in Nat /\ am.nTried \in Nat
    /\ DOMAIN am.mapInfo \subseteq 0..am.nIdCount - 1
    /\ \A id \in DOMAIN am.mapInfo : am.mapInfo[id] \in Entry
    /\ DOMAIN am.mapAddr \subseteq Host
    /\ am.vRandom \in Seq(0..am.nIdCount - 1)
    /\ am.vvNew \in [NewBuckets -> SUBSET (0..am.nIdCount - 1)]
    /\ am.vvTried \in [TriedBuckets -> Seq(0..am.nIdCount - 1)]

Init ==
    am = [nIdCount |-> 0, mapInfo |-> <<>>, mapAddr |-> <<>>, vRandom |-> <<>>,
          nNew |-> 0, vvNew |-> [b \in NewBuckets |-> {}],
          nTried |-> 0, vvTried |-> [k \in TriedBuckets |-> <<>>]]

\* The ids of the entry: no more than one in a table that is in order.
Find(m, host) == {id \in DOMAIN m.mapInfo :
                     host \in DOMAIN m.mapAddr /\ m.mapAddr[host] = id}
BucketsOf(m, id) == {b \in NewBuckets : id \in m.vvNew[b]}
With(f, x, y) == [z \in DOMAIN f \cup {x} |-> IF z = x THEN y ELSE f[z]]
Without(f, x) == Restrict(f, DOMAIN f \ {x})

-----------------------------------------------------------------------------
Create(m, svc, source) ==
    [m EXCEPT
        !.nIdCount = @ + 1,
        !.mapInfo = With(m.mapInfo, m.nIdCount,
            [svc |-> svc, source |-> source, nRefCount |-> 0,
             fInTried |-> FALSE, nRandomPos |-> Len(m.vRandom) + 1]),
        !.mapAddr = With(m.mapAddr, HostOf[svc], m.nIdCount),
        !.vRandom = Append(@, m.nIdCount)]

\* Mutant: the entry that moves keeps its old position.
SwapRandom_OnePos(m, i, j) ==
    [m EXCEPT
        !.mapInfo[m.vRandom[i]].nRandomPos = j,
        !.vRandom = [@ EXCEPT ![i] = m.vRandom[j], ![j] = m.vRandom[i]]]

SwapRandom(m, i, j) ==
    [m EXCEPT
        !.mapInfo = [@ EXCEPT ![m.vRandom[i]].nRandomPos = j,
                              ![m.vRandom[j]].nRandomPos = i],
        !.vRandom = [@ EXCEPT ![i] = m.vRandom[j], ![j] = m.vRandom[i]]]

\* An entry no bucket refers to leaves every table.
Deleted(m, id) ==
    LET last == SwapRandom(m, m.mapInfo[id].nRandomPos, Len(m.vRandom)) IN
    [last EXCEPT
        !.vRandom = SubSeq(last.vRandom, 1, Len(last.vRandom) - 1),
        !.mapAddr = Without(m.mapAddr, HostOf[m.mapInfo[id].svc]),
        !.mapInfo = Without(last.mapInfo, id),
        !.nNew = @ - 1]

Recounted(m, id, n) == [m EXCEPT !.mapInfo[id].nRefCount = n]

\* ShrinkNew: a terrible entry of the bucket goes, or the oldest of four
\* chosen at random, so any.  It is deleted with its last reference.
ShrinkNew(m, b, id) ==
    LET fewer == Recounted(m, id, m.mapInfo[id].nRefCount - 1) IN
    [(IF fewer.mapInfo[id].nRefCount = 0 THEN Deleted(fewer, id) ELSE fewer)
        EXCEPT !.vvNew[b] = @ \ {id}]

Shrunk(m, b) ==
    IF Cardinality(m.vvNew[b]) = NewBucketSize
    THEN {ShrinkNew(m, b, id) : id \in m.vvNew[b]} ELSE {m}

\* The end of Add_: the entry joins the bucket of its source.
Joined(m, id, b) ==
    {[s EXCEPT !.vvNew[b] = @ \cup {id}] :
        s \in Shrunk(Recounted(m, id, m.mapInfo[id].nRefCount + 1), b)}

\* Add_ of a host that has no entry.
AddNew(svc, source) ==
    /\ <<svc, source>> \in Announced /\ am.nIdCount < MaxId
    /\ Find(am, HostOf[svc]) = {}
    /\ \E created \in {Create(am, svc, source)} :
        am' \in Joined([created EXCEPT !.nNew = @ + 1], am.nIdCount,
                       NewBucketOf[HostOf[svc]][source])

\* Add_ of a host that has one, with news and luck: the early returns.
MayJoin(id, b) ==
    /\ ~ am.mapInfo[id].fInTried
    /\ am.mapInfo[id].nRefCount # NewPerAddress
    /\ id \notin am.vvNew[b]

AddAgain(svc, source) ==
    /\ <<svc, source>> \in Announced
    /\ \E id \in Find(am, HostOf[svc]) :
        LET b == NewBucketOf[HostOf[svc]][source] IN
        MayJoin(id, b) /\ am' \in Joined(am, id, b)

-----------------------------------------------------------------------------
Orders(n) == Bijection(1..n, 1..n)

\* MakeTried, first half: the entry leaves its new buckets.
Unbucketed(m, id) ==
    [m EXCEPT
        !.vvNew = [b \in NewBuckets |-> m.vvNew[b] \ {id}],
        !.mapInfo[id].nRefCount = @ - Cardinality(BucketsOf(m, id)),
        !.nNew = @ - 1]

\* Mutant: the evicted entry goes to its own bucket, full or not.
Refuge_Own(m, old, origin) ==
    NewBucketOf[HostOf[m.mapInfo[old].svc]][m.mapInfo[old].source]

\* Where an evicted entry goes: its own new bucket, or the one just left.
Refuge(m, old, origin) ==
    LET own == NewBucketOf[HostOf[m.mapInfo[old].svc]][m.mapInfo[old].source] IN
    IF Cardinality(m.vvNew[own]) < NewBucketSize THEN own ELSE origin

\* The entry takes position i of tried bucket k from the one that is there.
Replaced(m, id, k, i, origin) ==
    LET old == m.vvTried[k][i] IN
    [m EXCEPT
        !.mapInfo = [@ EXCEPT ![old].fInTried = FALSE, ![old].nRefCount = 1,
                              ![id].fInTried = TRUE],
        !.vvNew[Refuge(m, old, origin)] = @ \cup {old},
        !.nNew = @ + 1,
        !.vvTried[k][i] = id]

MakeTried(id, origin) ==
    LET m == Unbucketed(am, id)
        k == TriedBucketOf[am.mapInfo[id].svc]
        n == Len(m.vvTried[k])
    IN \/ /\ n < TriedBucketSize
          /\ am' = [m EXCEPT !.vvTried[k] = Append(@, id), !.nTried = @ + 1,
                             !.mapInfo[id].fInTried = TRUE]
       \/ /\ n >= TriedBucketSize
          \* SelectTried shuffles the bucket and chooses a position.
          /\ \E order \in Orders(n), i \in 1..n :
                am' = Replaced([m EXCEPT !.vvTried[k] =
                                   [j \in 1..n |-> m.vvTried[k][order[j]]]],
                               id, k, i, origin)

Good(svc) ==
    \E id \in Find(am, HostOf[svc]) :
        /\ am.mapInfo[id].svc = svc
        /\ ~ am.mapInfo[id].fInTried
        /\ \E origin \in BucketsOf(am, id) : MakeTried(id, origin)

\* GetAddr_: SwapRandom over the first entries, which reorders vRandom.
GetAddr ==
    LET n == Len(am.vRandom) IN
    /\ GetAddrMaxPct * n >= 100
    /\ \E order \in Orders(n) :
        am' = [am EXCEPT
            !.vRandom = [i \in 1..n |-> am.vRandom[order[i]]],
            !.mapInfo = [id \in DOMAIN am.mapInfo |-> [am.mapInfo[id] EXCEPT
                !.nRandomPos = CHOOSE i \in 1..n : order[i] = @]]]

-----------------------------------------------------------------------------
\* The ids of S are renumbered in their order.
Rank(S, id) == Cardinality({j \in S : j < id})
Nth(S, n) == CHOOSE id \in S : Rank(S, id) = n
NewIds == {id \in DOMAIN am.mapInfo : am.mapInfo[id].nRefCount # 0}
TriedIds(k) == {id \in DOMAIN am.mapInfo :
    am.mapInfo[id].fInTried /\ TriedBucketOf[am.mapInfo[id].svc] = k}

\* Mutant: the last place of a tried bucket stays empty.
KeptIn_Last(k) ==
    {id \in TriedIds(k) : Rank(TriedIds(k), id) + 1 < TriedBucketSize}

\* The entries a tried bucket has room for, and the new buckets an entry is
\* put into again.
KeptIn(k) == {id \in TriedIds(k) : Rank(TriedIds(k), id) < TriedBucketSize}
Kept == UNION {KeptIn(k) : k \in TriedBuckets}
Listed(id) == {b \in BucketsOf(am, id) : Rank(BucketsOf(am, id), b) < NewPerAddress}

Renumbered(id) ==
    IF id \in NewIds THEN Rank(NewIds, id)
    ELSE Cardinality(NewIds) + Rank(Kept, id)

\* peers.dat is written and the process starts again from it.  The file names
\* the new entries and their buckets; vRandom, mapAddr and the tried buckets
\* are built again.  A process that ends without writing it starts from an
\* older file, and so from what an earlier Reload left.
Reload ==
    LET n == Cardinality(NewIds) + Cardinality(Kept)
        Old(i) == CHOOSE id \in NewIds \cup Kept : Renumbered(id) = i
    IN am' = [nIdCount |-> n,
              mapInfo |-> [i \in 0..n - 1 |->
                  [am.mapInfo[Old(i)] EXCEPT
                      !.nRefCount = Cardinality(Listed(Old(i))),
                      !.nRandomPos = i + 1]],
              mapAddr |-> [h \in {HostOf[am.mapInfo[id].svc] :
                                     id \in NewIds \cup Kept} |->
                  CHOOSE i \in 0..n - 1 : HostOf[am.mapInfo[Old(i)].svc] = h],
              vRandom |-> [p \in 1..n |-> p - 1],
              nNew |-> am.nNew,
              vvNew |-> [b \in NewBuckets |->
                  {Renumbered(id) : id \in {j \in NewIds : b \in Listed(j)}}],
              nTried |-> am.nTried
                  - Cardinality((UNION {TriedIds(k) : k \in TriedBuckets}) \ Kept),
              vvTried |-> [k \in TriedBuckets |->
                  [p \in 1..Cardinality(KeptIn(k)) |->
                      Renumbered(Nth(KeptIn(k), p - 1))]]]

Next ==
    \/ \E svc \in Svc, source \in Source : AddNew(svc, source)
    \/ \E svc \in Svc, source \in Source : AddAgain(svc, source)
    \/ \E svc \in Svc : Good(svc)
    \/ GetAddr
    \/ Reload

Spec == Init /\ [][Next]_vars

-----------------------------------------------------------------------------
(* Check_() of addrman.cpp, in parts: it returns 0.                          *)

\* The entries of the "new" table, and how often the buckets refer to each.
NewEntriesCounted ==
    \A id \in DOMAIN am.mapInfo : ~ am.mapInfo[id].fInTried =>
        /\ am.mapInfo[id].nRefCount \in 1..NewPerAddress
        /\ am.mapInfo[id].nRefCount = Cardinality(BucketsOf(am, id))

\* The tried entries are each once in one tried bucket, and in no new one.
TriedEntriesPlaced ==
    \A id \in DOMAIN am.mapInfo : am.mapInfo[id].fInTried =>
        /\ am.mapInfo[id].nRefCount = 0 /\ BucketsOf(am, id) = {}
        /\ LET k == TriedBucketOf[am.mapInfo[id].svc] IN
           \E i \in 1..Len(am.vvTried[k]) : am.vvTried[k][i] = id

\* No bucket holds an id that has no entry or a second copy of one.
BucketsHoldEntries ==
    /\ \A b \in NewBuckets : am.vvNew[b] \subseteq
           {id \in DOMAIN am.mapInfo : ~ am.mapInfo[id].fInTried}
    /\ \A k \in TriedBuckets, i, j \in 1..TriedBucketSize :
           i <= Len(am.vvTried[k]) /\ j <= Len(am.vvTried[k]) =>
               /\ am.vvTried[k][i] \in DOMAIN am.mapInfo
               /\ am.mapInfo[am.vvTried[k][i]].fInTried
               /\ am.vvTried[k][i] = am.vvTried[k][j] => i = j

\* mapAddr and vRandom are inverse to the entries.
IndexesAgree ==
    /\ \A id \in DOMAIN am.mapInfo :
        /\ HostOf[am.mapInfo[id].svc] \in DOMAIN am.mapAddr
        /\ am.mapAddr[HostOf[am.mapInfo[id].svc]] = id
        /\ am.mapInfo[id].nRandomPos \in 1..Len(am.vRandom)
        /\ am.vRandom[am.mapInfo[id].nRandomPos] = id
    /\ Cardinality(DOMAIN am.mapAddr) = Cardinality(DOMAIN am.mapInfo)

CountersAgree ==
    /\ am.nTried = Cardinality({id \in DOMAIN am.mapInfo : am.mapInfo[id].fInTried})
    /\ am.nNew = Cardinality({id \in DOMAIN am.mapInfo : ~ am.mapInfo[id].fInTried})
    /\ Len(am.vRandom) = am.nTried + am.nNew

\* Check_() returns 0: whatever additions, evictions, deletions, shuffles and
\* restarts came before, the entries, the two indexes, the buckets, the
\* reference counts and the two counters describe one and the same table.
Consistent ==
    /\ TypeOK
    /\ NewEntriesCounted /\ TriedEntriesPlaced /\ BucketsHoldEntries
    /\ IndexesAgree /\ CountersAgree

\* "there is certainly place there" (MakeTried): no bucket ever outgrows its
\* size, also when an evicted entry finds its own new bucket full.
BucketsBounded ==
    /\ \A b \in NewBuckets : Cardinality(am.vvNew[b]) <= NewBucketSize
    /\ \A k \in TriedBuckets : Len(am.vvTried[k]) <= TriedBucketSize

-----------------------------------------------------------------------------
TableOf(h) ==
    IF Find(am, h) = {} THEN "unknown"
    ELSE IF \E id \in Find(am, h) : am.mapInfo[id].fInTried THEN "tried"
    ELSE "new"

Tables == INSTANCE AddrTables WITH table <- [h \in Host |-> TableOf(h)]

\* Entries are "never deleted while in the tried table, only possibly evicted
\* back to the new table" (ShrinkNew): an operation learns or promotes one
\* host and at most one other pays for it with its place, a host at a time,
\* and writing the tables and reading them back loses no host.
TablesRefined == Tables!Spec
=============================================================================
