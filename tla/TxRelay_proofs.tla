--------------------------- MODULE TxRelay_proofs --------------------------
(* The orphans of TxRelay, for every set of transactions, peers and limits:  *)
(* their two maps agree and their number is bounded.  What the requests do   *)
(* does not matter for it; the second part is about the requests.            *)
EXTENDS TxRelay, FiniteSetTheorems, WellFoundedInduction, TLAPS

\* The table mapOrphanTransactionsByPrev should be for the orphans O.
ByPrevOf(O) ==
    [h \in UNION {Inputs[o] : o \in O} |-> {o \in O : h \in Inputs[o]}]

\* Orphans are transactions that are not in the pool; a walk starts from the
\* table, so what it finds rests on the agreement of the maps.
OrphanInv ==
    /\ mapOrphanTransactions \subseteq Tx
    /\ IsFiniteSet(mapOrphanTransactions)
    /\ OrphansBounded
    /\ mapOrphanTransactionsByPrev = ByPrevOf(mapOrphanTransactions)
    /\ pool \cap mapOrphanTransactions = {}

-----------------------------------------------------------------------------
(* The two maps.                                                             *)

\* Adding an orphan to both maps keeps them in agreement.
LEMMA AddedAgrees ==
    ASSUME NEW O \in SUBSET Tx, NEW t \in Tx
    PROVE  AddOrphanTx(ByPrevOf(O), t) = ByPrevOf(O \cup {t})
<1> DEFINE D == (UNION {Inputs[o] : o \in O}) \cup Inputs[t]
<1>1. UNION {Inputs[o] : o \in O \cup {t}} = D
  OBVIOUS
<1>2. DOMAIN ByPrevOf(O) = UNION {Inputs[o] : o \in O}
  BY DEF ByPrevOf
<1>3. ASSUME NEW h \in D
      PROVE  (IF h \in DOMAIN ByPrevOf(O) THEN ByPrevOf(O)[h] ELSE {}) \cup
             (IF h \in Inputs[t] THEN {t} ELSE {})
                 = {o \in O \cup {t} : h \in Inputs[o]}
  <2>1. (IF h \in DOMAIN ByPrevOf(O) THEN ByPrevOf(O)[h] ELSE {})
            = {o \in O : h \in Inputs[o]}
    BY DEF ByPrevOf
  <2> QED
    BY <2>1
<1> QED
  BY <1>1, <1>2, <1>3 DEF AddOrphanTx, ByPrevOf

\* Erasing orphans from both maps keeps them in agreement.
LEMMA ErasedAgrees ==
    ASSUME NEW O \in SUBSET Tx, NEW gone \in SUBSET Tx
    PROVE  EraseOrphanTx(ByPrevOf(O), gone) = ByPrevOf(O \ gone)
<1> DEFINE D == {g \in DOMAIN ByPrevOf(O) : ByPrevOf(O)[g] \ gone # {}}
<1>1. D = UNION {Inputs[o] : o \in O \ gone}
  BY DEF ByPrevOf
<1>2. ASSUME NEW h \in D
      PROVE  ByPrevOf(O)[h] \ gone = {o \in O \ gone : h \in Inputs[o]}
  BY DEF ByPrevOf
<1> QED
  BY <1>1, <1>2 DEF EraseOrphanTx, ByPrevOf

\* What the table lists under some transactions spends one of them.
LEMMA DependentsSpend ==
    ASSUME OrphanInv, NEW S, NEW o \in Dependents(S)
    PROVE  o \in mapOrphanTransactions /\ Inputs[o] \cap S # {}
  BY DEF OrphanInv, Dependents, ByPrevOf

-----------------------------------------------------------------------------
(* The steps.                                                                *)

\* AcceptToMemoryPool accepts no transaction with an input outside of the
\* transaction index, and none that is in the index.
LEMMA AcceptedVerdict ==
    ASSUME NEW o, NEW txs, Verdict(o, txs) = "accepted"
    PROVE  o \notin txs \cup chain /\ Inputs[o] \subseteq chain
  BY DEF Verdict, MissingInputs

\* The walk accepts nothing: what it looks at spends a transaction that has
\* only just entered the pool.
LEMMA WalkIsEmpty ==
    ASSUME OrphanInv, NEW t, t \notin chain, NEW W, IsWalk(W, t)
    PROVE  W = {}
<1> SUFFICES ASSUME NEW o \in W PROVE FALSE
  OBVIOUS
<1>1. /\ o \in Dependents({t} \cup W)
      /\ \A u \in W : Verdict(u, (pool \cup {t} \cup W) \ {u}) = "accepted"
  BY DEF IsWalk
<1>2. PICK h \in {t} \cup W : h \in Inputs[o]
  BY <1>1, DependentsSpend
<1>3. h \notin chain
  BY <1>1, AcceptedVerdict
<1>4. Inputs[o] \subseteq chain
  BY <1>1, AcceptedVerdict
<1> QED
  BY <1>2, <1>3, <1>4

\* A set of orphans that shrinks stays within its bound.
LEMMA FewerOrphans ==
    ASSUME OrphanInv, NEW gone
    PROVE  /\ IsFiniteSet(mapOrphanTransactions \ gone)
           /\ Cardinality(mapOrphanTransactions \ gone) <= MaxOrphans
<1>1. mapOrphanTransactions \ gone \subseteq mapOrphanTransactions
  OBVIOUS
<1>2. /\ IsFiniteSet(mapOrphanTransactions)
      /\ Cardinality(mapOrphanTransactions) <= MaxOrphans
  BY DEF OrphanInv, OrphansBounded
<1>3. /\ IsFiniteSet(mapOrphanTransactions \ gone)
      /\ Cardinality(mapOrphanTransactions \ gone) <= Cardinality(mapOrphanTransactions)
  BY <1>1, <1>2, FS_Subset
<1>4. /\ Cardinality(mapOrphanTransactions \ gone) \in Nat
      /\ Cardinality(mapOrphanTransactions) \in Nat
  BY <1>2, <1>3, FS_CardinalityType
<1>5. MaxOrphans \in Nat
  BY TxRelayAssumption
<1> QED
  BY <1>2, <1>3, <1>4, <1>5

LEMMA AcceptOrphans ==
    ASSUME OrphanInv, NEW t \in Tx, ~ AlreadyHave(t), Accept(t)
    PROVE  OrphanInv'
<1>1. PICK W \in SUBSET mapOrphanTransactions :
          /\ IsWalk(W, t)
          /\ pool' = pool \cup {t} \cup W
          /\ mapOrphanTransactions' = mapOrphanTransactions \ Processed(W, t)
          /\ mapOrphanTransactionsByPrev' =
                 EraseOrphanTx(mapOrphanTransactionsByPrev, Processed(W, t))
  BY DEF Accept
<1>2. t \notin chain /\ t \notin mapOrphanTransactions
  BY DEF AlreadyHave
<1>3. W = {}
  BY <1>1, <1>2, WalkIsEmpty
<1>4. mapOrphanTransactions \cap pool' = {}
  BY <1>1, <1>2, <1>3 DEF OrphanInv
<1>5. Processed(W, t) \in SUBSET Tx /\ mapOrphanTransactions \in SUBSET Tx
  BY DependentsSpend DEF Processed, OrphanInv
<1>6. mapOrphanTransactionsByPrev' = ByPrevOf(mapOrphanTransactions')
  BY <1>1, <1>5, ErasedAgrees DEF OrphanInv
<1>7. IsFiniteSet(mapOrphanTransactions') /\ Cardinality(mapOrphanTransactions') <= MaxOrphans
  BY <1>1, FewerOrphans
<1> QED
  BY <1>1, <1>4, <1>5, <1>6, <1>7 DEF OrphanInv, OrphansBounded, ByPrevOf

\* LimitOrphanTxSize brings any finite number of orphans down to the bound.
LEMMA LimitedOrphans ==
    ASSUME NEW held, IsFiniteSet(held), NEW gone \in Evicted(held)
    PROVE  IsFiniteSet(held \ gone) /\ Cardinality(held \ gone) <= MaxOrphans
<1>1. gone \subseteq held /\ Cardinality(gone) = Larger(Cardinality(held) - MaxOrphans, 0)
  BY DEF Evicted
<1>2. held \cap gone = gone
  BY <1>1
<1>3. /\ IsFiniteSet(held \ gone)
      /\ Cardinality(held \ gone) = Cardinality(held) - Cardinality(gone)
  BY <1>2, FS_Difference
<1>4. Cardinality(held) \in Nat /\ MaxOrphans \in Nat
  BY FS_CardinalityType, TxRelayAssumption
<1> QED
  BY <1>1, <1>3, <1>4 DEF Larger

LEMMA HoldOrphans ==
    ASSUME OrphanInv, NEW t \in Tx, ~ AlreadyHave(t), Hold(t)
    PROVE  OrphanInv'
<1> DEFINE new == IF t \in Big THEN {} ELSE {t}
           held == mapOrphanTransactions \cup new
           byPrev == IF t \in Big THEN mapOrphanTransactionsByPrev
                     ELSE AddOrphanTx(mapOrphanTransactionsByPrev, t)
<1>1. PICK gone \in Evicted(held) :
          /\ mapOrphanTransactions' = held \ gone
          /\ mapOrphanTransactionsByPrev' = EraseOrphanTx(byPrev, gone)
          /\ UNCHANGED pool
  BY DEF Hold
<1>2. held \in SUBSET Tx /\ mapOrphanTransactions \in SUBSET Tx
  BY DEF OrphanInv
<1>3. byPrev = ByPrevOf(held)
  <2>1. CASE t \in Big
    BY <2>1 DEF OrphanInv, ByPrevOf
  <2>2. CASE t \notin Big
    BY <2>2, <1>2, AddedAgrees DEF OrphanInv
  <2> QED
    BY <2>1, <2>2
<1>4. gone \in SUBSET Tx
  BY <1>1, <1>2 DEF Evicted
<1>5. mapOrphanTransactionsByPrev' = ByPrevOf(mapOrphanTransactions')
  <2> HIDE DEF held, byPrev
  <2> QED
    BY <1>1, <1>2, <1>3, <1>4, ErasedAgrees
<1>6. IsFiniteSet(held)
  <2>1. IsFiniteSet(new)
    BY FS_EmptySet, FS_Singleton
  <2> QED
    BY <2>1, FS_Union DEF OrphanInv
<1>7. IsFiniteSet(mapOrphanTransactions') /\ Cardinality(mapOrphanTransactions') <= MaxOrphans
  <2> HIDE DEF held
  <2> QED
    BY <1>1, <1>6, LimitedOrphans
<1>8. pool' = pool /\ t \notin pool /\ pool \cap mapOrphanTransactions = {}
  BY <1>1 DEF AlreadyHave, OrphanInv
<1>9. pool' \cap held = {}
  BY <1>8
<1>10. mapOrphanTransactions' \subseteq Tx /\ mapOrphanTransactions' \subseteq held
  BY <1>1, <1>2
<1> QED
  BY <1>5, <1>7, <1>8, <1>9, <1>10 DEF OrphanInv, OrphansBounded, ByPrevOf

\* Steps that leave the maps alone and put nothing into the pool.
LEMMA OtherOrphans ==
    ASSUME OrphanInv, pool' \subseteq pool,
           UNCHANGED <<mapOrphanTransactions, mapOrphanTransactionsByPrev>>
    PROVE  OrphanInv'
  BY DEF OrphanInv, OrphansBounded, ByPrevOf

LEMMA ReceiveTxOrphans ==
    ASSUME OrphanInv, NEW p \in Peer, NEW t \in Tx, ReceiveTx(p, t)
    PROVE  OrphanInv'
<1>1. ~ AlreadyHave(t)
  BY DEF ReceiveTx
<1>2. CASE Accept(t)
  BY <1>1, <1>2, AcceptOrphans
<1>3. CASE Hold(t)
  BY <1>1, <1>3, HoldOrphans
<1>4. CASE UNCHANGED txVars
  BY <1>4, OtherOrphans DEF txVars
<1> QED
  BY <1>2, <1>3, <1>4 DEF ReceiveTx

LEMMA StepOrphans ==
    ASSUME OrphanInv, [Next]_vars
    PROVE  OrphanInv'
<1>1. ASSUME NEW p \in Peer, NEW t \in Tx, Answer(p, t) \/ Unasked(p, t)
      PROVE  OrphanInv'
  <2>1. CASE ReceiveKnown(p, t)
    BY <2>1, OtherOrphans DEF ReceiveKnown, txVars
  <2>2. CASE ReceiveTx(p, t)
    BY <2>2, ReceiveTxOrphans
  <2> QED
    BY <1>1, <2>1, <2>2 DEF Answer, Unasked
<1>2. ASSUME NEW t \in Tx, Confirm(t)
      PROVE  OrphanInv'
  BY <1>2, OtherOrphans DEF Confirm
<1>3. CASE UNCHANGED txVars
  BY <1>3, OtherOrphans DEF txVars
<1>4. ASSUME NEW p \in Peer, SendGetData(p) \/ Disconnect(p)
      PROVE  UNCHANGED txVars
  BY <1>4 DEF SendGetData, Disconnect
<1>5. ASSUME NEW p \in Peer, NEW t \in Tx, HandleInv(p, t)
      PROVE  UNCHANGED txVars
  BY <1>5 DEF HandleInv
<1>6. Tick \/ UNCHANGED vars => UNCHANGED txVars
  BY DEF Tick, vars
<1> QED
  BY <1>1, <1>2, <1>3, <1>4, <1>5, <1>6 DEF Next

LEMMA InitOrphans == Init => OrphanInv
<1> SUFFICES ASSUME Init PROVE OrphanInv
  OBVIOUS
<1>1. /\ pool = {} /\ mapOrphanTransactions = {}
      /\ mapOrphanTransactionsByPrev = <<>>
  BY DEF Init
<1>2. IsFiniteSet({}) /\ Cardinality({}) = 0
  BY FS_EmptySet
<1>3. ByPrevOf({}) = <<>>
  BY DEF ByPrevOf
<1>4. MaxOrphans \in Nat
  BY TxRelayAssumption
<1> QED
  BY <1>1, <1>2, <1>3, <1>4 DEF OrphanInv, OrphansBounded

-----------------------------------------------------------------------------
\* The orphan maps are consistent, bounded and apart from the pool.
THEOREM OrphansAlwaysHeld == Spec => []OrphanInv
<1>1. OrphanInv /\ [Next]_vars => OrphanInv'
  BY StepOrphans
<1> QED
  BY InitOrphans, <1>1, PTL DEF Spec

\* mapOrphanTransactionsByPrev lists every orphan under each transaction it
\* spends and nothing else.
THEOREM OrphanTablesAgree == Spec => []OrphanMapsAgree
<1>1. OrphanInv => OrphanMapsAgree
  BY DEF OrphanInv, OrphanMapsAgree, ByPrevOf
<1> QED
  BY OrphansAlwaysHeld, <1>1, PTL

\* LimitOrphanTxSize bounds the orphans after every message.
THEOREM OrphansAlwaysBounded == Spec => []OrphansBounded
<1>1. OrphanInv => OrphansBounded
  BY DEF OrphanInv
<1> QED
  BY OrphansAlwaysHeld, <1>1, PTL

-----------------------------------------------------------------------------
(* The queues of requests.  What is due at a peer is found at the front, as  *)
(* mapAskFor is ordered by time.                                             *)

InOrder(queue) ==
    \A i, j \in 1..Len(queue) : i <= j => queue[i].wait <= queue[j].wait

\* A non-empty set of numbers has a least one.
LEMMA LeastNat ==
    ASSUME NEW T \in SUBSET Nat, T # {}
    PROVE  \E x \in T : \A y \in T : x <= y
<1> DEFINE R == OpToRel(<, Nat)
<1>1. IsWellFoundedOn(R, Nat)
  BY NatLessThanWellFounded
<1>2. \A x, y \in Nat : y < x => <<y, x>> \in R
  BY DEF OpToRel
<1> HIDE DEF R
<1>3. PICK x \in T : \A y \in T : ~ (<<y, x>> \in R)
  BY <1>1, WFMin
<1>4. \A y \in T : x <= y
  <2> TAKE y \in T
  <2>1. x \in Nat /\ y \in Nat
    OBVIOUS
  <2>2. ~ (y < x)
    BY <1>2, <1>3, <2>1, Zenon
  <2> QED
    BY <2>1, <2>2
<1> QED
  BY <1>4

LEMMA QueuedRequest ==
    ASSUME NEW queue \in Seq(Request), NEW i \in 1..Len(queue)
    PROVE  /\ queue[i] \in Request /\ queue[i].inv \in Tx
           /\ queue[i].wait \in 0..MaxWait /\ queue[i].wait \in Nat
<1>1. queue[i] \in Request
  OBVIOUS
<1>2. MaxWait \in Nat
  BY TxRelayAssumption
<1> QED
  BY <1>1, <1>2 DEF Request

\* UpTo counts the requests that are due: those are the first of the queue.
LEMMA UpToDue ==
    ASSUME NEW queue \in Seq(Request), InOrder(queue), NEW time \in Nat
    PROVE  /\ UpTo(queue, time) \in 0..Len(queue)
           /\ \A i \in 1..Len(queue) :
                  i <= UpTo(queue, time) <=> queue[i].wait <= time
<1> DEFINE late == {i \in 1..Len(queue) : queue[i].wait > time}
           k == Len(queue) + 1
<1>1. Len(queue) \in Nat
  OBVIOUS
<1>2. late \cup {k} \in SUBSET Nat
  BY <1>1
<1>3. PICK m \in late \cup {k} : \A i \in late \cup {k} : m <= i
  <2> HIDE DEF late, k
  <2> QED
    BY <1>2, LeastNat
<1>4. m - 1 \in 0..Len(queue)
  BY <1>1, <1>3
<1>5. \A i \in 1..Len(queue) : queue[i].wait \in Nat
  BY QueuedRequest
<1>6. ASSUME NEW i \in 1..Len(queue)
      PROVE  i <= m - 1 <=> queue[i].wait <= time
  <2>1. CASE i <= m - 1
    <3>1. i \notin late
      BY <1>1, <1>3, <2>1
    <3> QED
      BY <1>5, <2>1, <3>1
  <2>2. CASE ~ (i <= m - 1)
    <3>1. m \in late /\ m <= i
      BY <1>1, <1>3, <2>2
    <3>2. queue[m].wait <= queue[i].wait /\ queue[m].wait > time
      BY <3>1 DEF InOrder
    <3>3. queue[m].wait \in Nat /\ queue[i].wait \in Nat
      BY <1>5, <3>1
    <3> QED
      BY <2>2, <3>2, <3>3
  <2> QED
    BY <2>1, <2>2
<1> DEFINE P(n) == \A i \in 1..Len(queue) : i <= n <=> queue[i].wait <= time
<1>7. P(m - 1)
  BY <1>6
<1>8. UpTo(queue, time) = CHOOSE n \in 0..Len(queue) : P(n)
  BY DEF UpTo
<1>9. \E n \in 0..Len(queue) : P(n)
  BY <1>4, <1>7
<1>10. UpTo(queue, time) \in 0..Len(queue) /\ P(UpTo(queue, time))
  <2> HIDE DEF P
  <2> QED
    BY <1>8, <1>9, Zenon
<1> QED
  BY <1>10

LEMMA Joined ==
    ASSUME NEW S, NEW a \in Seq(S), NEW b \in Seq(S)
    PROVE  Len(a \o b) = Len(a) + Len(b)
  OBVIOUS

\* A request enters a queue in order; what was queued before stays queued.
LEMMA ScheduledQueue ==
    ASSUME NEW queue \in Seq(Request), InOrder(queue),
           NEW t \in Tx, NEW time \in 0..MaxWait
    PROVE  /\ Scheduled(queue, t, time) \in Seq(Request)
           /\ Len(Scheduled(queue, t, time)) = Len(queue) + 1
           /\ InOrder(Scheduled(queue, t, time))
           /\ Range(Scheduled(queue, t, time))
                  = Range(queue) \cup {[inv |-> t, wait |-> time]}
<1> DEFINE n == UpTo(queue, time)
           me == [inv |-> t, wait |-> time]
           left == SubSeq(queue, 1, n)
           right == SubSeq(queue, n + 1, Len(queue))
           s == Scheduled(queue, t, time)
<1>1. time \in Nat /\ Len(queue) \in Nat /\ me \in Request /\ me.wait = time
  BY TxRelayAssumption DEF Request
<1>2. n \in 0..Len(queue) /\ \A i \in 1..Len(queue) : i <= n <=> queue[i].wait <= time
  BY <1>1, UpToDue
<1>3. \A i \in 1..Len(queue) : queue[i] \in Request /\ queue[i].wait \in Nat
  BY QueuedRequest
<1> HIDE DEF n, me
<1>4. /\ left \in Seq(Request) /\ Len(left) = n
      /\ \A i \in 1..n : left[i] = queue[i]
  BY <1>1, <1>2
<1>5. /\ right \in Seq(Request) /\ Len(right) = Len(queue) - n
      /\ \A i \in 1..(Len(queue) - n) : right[i] = queue[n + i]
  BY <1>1, <1>2
<1>6. s = (left \o <<me>>) \o right
  BY DEF Scheduled, n, me
<1> HIDE DEF left, right, s
<1> DEFINE l == left \o <<me>>
<1>7. /\ l \in Seq(Request) /\ Len(l) = n + 1 /\ l[n + 1] = me
      /\ \A i \in 1..n : l[i] = queue[i]
  BY <1>1, <1>2, <1>4
<1> HIDE DEF l
<1>8. s = l \o right
  BY <1>6 DEF l
<1>9. s \in Seq(Request) /\ Len(s) = Len(queue) + 1
  <2>1. s \in Seq(Request)
    BY <1>5, <1>7, <1>8
  <2>2. Len(s) = Len(l) + Len(right)
    BY <1>5, <1>7, <1>8, Joined
  <2> QED
    BY <2>1, <2>2, <1>1, <1>2, <1>5, <1>7
<1>10. s[n + 1] = me
  BY <1>1, <1>2, <1>5, <1>7, <1>8
<1>11. \A i \in 1..n : s[i] = queue[i]
  BY <1>1, <1>2, <1>5, <1>7, <1>8
<1>12. \A i \in (n + 2)..(Len(queue) + 1) : s[i] = queue[i - 1]
  <2> SUFFICES ASSUME NEW i \in (n + 2)..(Len(queue) + 1) PROVE s[i] = queue[i - 1]
    OBVIOUS
  <2>1. s[i] = right[i - (n + 1)]
    BY <1>1, <1>2, <1>5, <1>7, <1>8, SMTT(20)
  <2>2. i - (n + 1) \in 1..(Len(queue) - n) /\ n + (i - (n + 1)) = i - 1
    BY <1>1, <1>2
  <2> QED
    BY <1>5, <2>1, <2>2
<1>13. InOrder(s)
  <2> SUFFICES ASSUME NEW i \in 1..Len(s), NEW j \in 1..Len(s), i <= j
               PROVE  s[i].wait <= s[j].wait
    BY DEF InOrder
  <2>1. CASE i <= n /\ j <= n
    BY <2>1, <1>1, <1>2, <1>9, <1>11 DEF InOrder
  <2>2. CASE i <= n /\ j = n + 1
    <3>1. i \in 1..Len(queue) /\ s[i] = queue[i] /\ s[j] = me
      BY <2>2, <1>1, <1>2, <1>9, <1>10, <1>11
    <3> QED
      BY <3>1, <2>2, <1>1, <1>2
  <2>3. CASE i <= n /\ j > n + 1
    <3>1. s[i] = queue[i] /\ s[j] = queue[j - 1]
      BY <2>3, <1>1, <1>2, <1>9, <1>11, <1>12
    <3>2. i \in 1..Len(queue) /\ j - 1 \in 1..Len(queue) /\ i <= j - 1
      BY <2>3, <1>1, <1>2, <1>9
    <3> QED
      BY <3>1, <3>2 DEF InOrder
  <2>4. CASE i = n + 1 /\ j = n + 1
    BY <2>4, <1>1, <1>10
  <2>5. CASE i = n + 1 /\ j > n + 1
    <3>1. s[i] = me /\ s[j] = queue[j - 1]
      BY <2>5, <1>1, <1>2, <1>9, <1>10, <1>12
    <3>2. j - 1 \in 1..Len(queue) /\ ~ (j - 1 <= n)
      BY <2>5, <1>1, <1>2, <1>9
    <3>3. ~ (queue[j - 1].wait <= time) /\ queue[j - 1].wait \in Nat
      BY <3>2, <1>2, <1>3
    <3> QED
      BY <3>1, <3>3, <1>1
  <2>6. CASE i > n + 1 /\ j > n + 1
    <3>1. s[i] = queue[i - 1] /\ s[j] = queue[j - 1]
      BY <2>6, <1>1, <1>2, <1>9, <1>12
    <3>2. i - 1 \in 1..Len(queue) /\ j - 1 \in 1..Len(queue) /\ i - 1 <= j - 1
      BY <2>6, <1>1, <1>2, <1>9
    <3> QED
      BY <3>1, <3>2 DEF InOrder
  <2>7. i \in Nat /\ j \in Nat /\ n \in Nat
    BY <1>1, <1>2, <1>9
  <2> QED
    BY <2>1, <2>2, <2>3, <2>4, <2>5, <2>6, <2>7
<1>14. Range(s) = Range(queue) \cup {me}
  <2>1. /\ \A i \in 1..Len(s) : s[i] \in Range(s)
        /\ \A i \in 1..Len(queue) : queue[i] \in Range(queue)
    BY <1>9 DEF Range
  <2>2. ASSUME NEW r \in Range(s) PROVE r \in Range(queue) \cup {me}
    <3>1. PICK i \in 1..Len(s) : r = s[i]
      BY <1>9 DEF Range
    <3>2. CASE i <= n
      <4>1. i \in 1..Len(queue) /\ s[i] = queue[i]
        BY <3>2, <1>1, <1>2, <1>9, <1>11
      <4> QED
        BY <2>1, <3>1, <4>1
    <3>3. CASE i = n + 1
      BY <3>1, <3>3, <1>10
    <3>4. CASE i > n + 1
      <4>1. i - 1 \in 1..Len(queue) /\ s[i] = queue[i - 1]
        BY <3>4, <1>1, <1>2, <1>9, <1>12
      <4> QED
        BY <2>1, <3>1, <4>1
    <3> QED
      BY <3>2, <3>3, <3>4, <1>1, <1>2, <1>9
  <2>3. ASSUME NEW r \in Range(queue) PROVE r \in Range(s)
    <3>1. PICK i \in 1..Len(queue) : r = queue[i]
      BY DEF Range
    <3>2. CASE i <= n
      <4>1. i \in 1..Len(s) /\ s[i] = queue[i]
        BY <3>2, <1>1, <1>2, <1>9, <1>11
      <4> QED
        BY <2>1, <3>1, <4>1
    <3>3. CASE i > n
      <4>1. i + 1 \in 1..Len(s) /\ i + 1 \in (n + 2)..(Len(queue) + 1) /\ (i + 1) - 1 = i
        BY <3>3, <1>1, <1>2, <1>9
      <4>2. s[i + 1] = queue[i]
        BY <4>1, <1>12
      <4> QED
        BY <2>1, <3>1, <4>1, <4>2
    <3> QED
      BY <3>2, <3>3, <1>1, <1>2
  <2>4. me \in Range(s)
    <3>1. n + 1 \in 1..Len(s)
      BY <1>1, <1>2, <1>9
    <3> QED
      BY <2>1, <3>1, <1>10
  <2> QED
    BY <2>2, <2>3, <2>4
<1> QED
  BY <1>9, <1>13, <1>14 DEF s, me
\* SendMessages leaves the requests that are not due, in their order.
LEMMA SentQueue ==
    ASSUME NEW queue \in Seq(Request), InOrder(queue)
    PROVE  LET rest == SubSeq(queue, UpTo(queue, 0) + 1, Len(queue)) IN
           /\ rest \in Seq(Request) /\ InOrder(rest)
           /\ Len(rest) \in Nat /\ Len(rest) <= Len(queue)
           /\ Range(rest) = {r \in Range(queue) : r.wait # 0}
<1> DEFINE n == UpTo(queue, 0)
           rest == SubSeq(queue, n + 1, Len(queue))
<1>1. n \in 0..Len(queue) /\ \A i \in 1..Len(queue) : i <= n <=> queue[i].wait <= 0
  BY UpToDue
<1>2. Len(queue) \in Nat /\ \A i \in 1..Len(queue) : queue[i].wait \in Nat
  BY QueuedRequest
<1> HIDE DEF n
<1>3. /\ rest \in Seq(Request) /\ Len(rest) = Len(queue) - n
      /\ \A i \in 1..(Len(queue) - n) : rest[i] = queue[n + i]
  BY <1>1, <1>2
<1> HIDE DEF rest
<1>4. \A i \in 1..Len(rest) : n + i \in 1..Len(queue) /\ rest[i] = queue[n + i]
  BY <1>1, <1>2, <1>3
<1>5. InOrder(rest)
  <2> SUFFICES ASSUME NEW i \in 1..Len(rest), NEW j \in 1..Len(rest), i <= j
               PROVE  rest[i].wait <= rest[j].wait
    BY DEF InOrder
  <2>1. n + i <= n + j
    BY <1>1, <1>2, <1>3
  <2> QED
    BY <1>4, <2>1 DEF InOrder
<1>6. Range(rest) = {r \in Range(queue) : r.wait # 0}
  <2>1. ASSUME NEW r \in Range(rest) PROVE r \in Range(queue) /\ r.wait # 0
    <3>1. PICK i \in 1..Len(rest) : r = rest[i]
      BY <1>3 DEF Range
    <3>2. n + i \in 1..Len(queue) /\ r = queue[n + i] /\ ~ (n + i <= n)
      BY <1>1, <1>2, <1>3, <1>4, <3>1
    <3>3. r \in Range(queue)
      BY <3>2 DEF Range
    <3>4. ~ (queue[n + i].wait <= 0)
      BY <1>1, <3>2
    <3> QED
      BY <1>2, <3>2, <3>3, <3>4
  <2>2. ASSUME NEW r \in Range(queue), r.wait # 0 PROVE r \in Range(rest)
    <3>1. PICK i \in 1..Len(queue) : r = queue[i]
      BY DEF Range
    <3>2. ~ (i <= n)
      BY <1>1, <1>2, <2>2, <3>1
    <3>3. i - n \in 1..Len(rest) /\ n + (i - n) = i
      BY <1>1, <1>2, <1>3, <3>2
    <3>4. r = rest[i - n]
      BY <1>4, <3>1, <3>3
    <3> QED
      BY <1>3, <3>3, <3>4 DEF Range
  <2> QED
    BY <2>1, <2>2
<1> QED
  BY <1>1, <1>2, <1>3, <1>5, <1>6 DEF rest, n

\* Time leaves a queue in order, with its requests.
LEMMA TickedQueue ==
    ASSUME NEW queue \in Seq(Request), InOrder(queue)
    PROVE  LET later == [i \in 1..Len(queue) |->
                            [queue[i] EXCEPT !.wait = Larger(@ - 1, 0)]] IN
           /\ later \in Seq(Request) /\ InOrder(later)
           /\ Len(later) = Len(queue)
           /\ {r.inv : r \in Range(later)} = {r.inv : r \in Range(queue)}
<1> DEFINE later == [i \in 1..Len(queue) |->
                        [queue[i] EXCEPT !.wait = Larger(@ - 1, 0)]]
<1>1. Len(queue) \in Nat
  OBVIOUS
<1>2. ASSUME NEW i \in 1..Len(queue)
      PROVE  /\ later[i] \in Request /\ later[i].inv = queue[i].inv
             /\ later[i].wait = Larger(queue[i].wait - 1, 0)
             /\ queue[i].wait \in Nat
  <2>1. /\ queue[i] \in [inv : Tx, wait : 0..MaxWait]
        /\ queue[i].wait \in 0..MaxWait /\ queue[i].wait \in Nat
    BY QueuedRequest DEF Request
  <2>2. MaxWait \in Nat
    BY TxRelayAssumption
  <2>3. Larger(queue[i].wait - 1, 0) \in 0..MaxWait
    BY <2>1, <2>2 DEF Larger
  <2> QED
    BY <2>1, <2>3 DEF Request
<1>3. later \in Seq(Request) /\ Len(later) = Len(queue) /\ DOMAIN later = 1..Len(queue)
  BY <1>1, <1>2
<1> HIDE DEF later
<1>4. InOrder(later)
  <2> SUFFICES ASSUME NEW i \in 1..Len(queue), NEW j \in 1..Len(queue), i <= j
               PROVE  later[i].wait <= later[j].wait
    BY <1>3 DEF InOrder
  <2>1. queue[i].wait <= queue[j].wait
    BY DEF InOrder
  <2> QED
    BY <1>2, <2>1 DEF Larger
<1>5. {r.inv : r \in Range(later)} = {r.inv : r \in Range(queue)}
  <2>1. /\ Range(later) = {later[i] : i \in 1..Len(queue)}
        /\ Range(queue) = {queue[i] : i \in 1..Len(queue)}
    BY <1>3 DEF Range
  <2> QED
    BY <1>2, <2>1, SMTT(20)
<1> QED
  BY <1>3, <1>4, <1>5 DEF later

-----------------------------------------------------------------------------
(* The tables of the requests.                                               *)

\* What a peer is asked for, or will be.
QueueInv ==
    /\ setAskFor \in [Peer -> SUBSET Tx]
    /\ mapAskFor \in [Peer -> Seq(Request)]
    /\ \A p \in Peer : Len(mapAskFor[p]) <= MaxAskFor + 1 /\ InOrder(mapAskFor[p])
    /\ asked \in [Peer -> SUBSET Tx]

\* A limitedmap with room for one more entry.
Roomy(f) ==
    /\ f \in [DOMAIN f -> -Retry..MaxWait]
    /\ DOMAIN f \subseteq Tx /\ IsFiniteSet(DOMAIN f)
    /\ Cardinality(DOMAIN f) < MaxAlreadyAsked

LEMMA WithoutRoomy ==
    ASSUME NEW f, Roomy(f), NEW t
    PROVE  /\ Roomy(Without(f, t))
           /\ t \in DOMAIN f => Cardinality(DOMAIN Without(f, t)) + 1 = Cardinality(DOMAIN f)
<1>1. Without(f, t) = [x \in DOMAIN f \ {t} |-> f[x]]
  BY DEF Without, Restrict
<1>2. DOMAIN Without(f, t) = DOMAIN f \ {t}
  BY <1>1
<1>3. Without(f, t) \in [DOMAIN f \ {t} -> -Retry..MaxWait]
  BY <1>1 DEF Roomy
<1>4. /\ IsFiniteSet(DOMAIN f \ {t})
      /\ Cardinality(DOMAIN f \ {t}) =
             IF t \in DOMAIN f THEN Cardinality(DOMAIN f) - 1 ELSE Cardinality(DOMAIN f)
  BY FS_RemoveElement DEF Roomy
<1>5. Cardinality(DOMAIN f) \in Nat /\ MaxAlreadyAsked \in Nat
  BY FS_CardinalityType, TxRelayAssumption DEF Roomy
<1> QED
  BY <1>2, <1>3, <1>4, <1>5 DEF Roomy

LEMMA InsertedRoomy ==
    ASSUME NEW f, Roomy(f), NEW t \in Tx \ DOMAIN f, NEW time \in -Retry..MaxWait,
           NEW g \in Inserted(f, t, time)
    PROVE  Roomy(g)
<1>1. ASSUME NEW h, Roomy(h), t \notin DOMAIN h,
             Cardinality(DOMAIN h) + 1 < MaxAlreadyAsked
      PROVE  Roomy(With(h, t, time))
  <2> DEFINE k == With(h, t, time)
  <2>1. DOMAIN k = DOMAIN h \cup {t}
    BY DEF With
  <2>2. k \in [DOMAIN h \cup {t} -> -Retry..MaxWait]
    BY <1>1 DEF With, Roomy
  <2>3. /\ IsFiniteSet(DOMAIN h \cup {t})
        /\ Cardinality(DOMAIN h \cup {t}) = Cardinality(DOMAIN h) + 1
    BY <1>1, FS_AddElement DEF Roomy
  <2> HIDE DEF k
  <2> QED
    BY <2>1, <2>2, <2>3, <1>1 DEF Roomy, k
<1>2. Cardinality(DOMAIN f) \in Nat /\ MaxAlreadyAsked \in Nat
  BY FS_CardinalityType, TxRelayAssumption DEF Roomy
<1>3. CASE Cardinality(DOMAIN f) + 1 = MaxAlreadyAsked
  <2>1. PICK x \in Lowest(f) : g = With(Without(f, x), t, time)
    BY <1>3 DEF Inserted
  <2>2. x \in DOMAIN f
    BY DEF Lowest
  <2>3. Roomy(Without(f, x)) /\ Cardinality(DOMAIN Without(f, x)) + 1 = Cardinality(DOMAIN f)
    BY <2>2, WithoutRoomy
  <2>4. t \notin DOMAIN Without(f, x)
    BY DEF Without, Restrict
  <2>5. Cardinality(DOMAIN Without(f, x)) + 1 < MaxAlreadyAsked
    BY <1>2, <1>3, <2>3
  <2> QED
    BY <1>1, <2>1, <2>3, <2>4, <2>5
<1>4. CASE Cardinality(DOMAIN f) + 1 # MaxAlreadyAsked
  <2>1. g = With(f, t, time)
    BY <1>4 DEF Inserted
  <2>2. Cardinality(DOMAIN f) + 1 < MaxAlreadyAsked
    BY <1>2, <1>4 DEF Roomy
  <2> QED
    BY <1>1, <2>1, <2>2
<1> QED
  BY <1>3, <1>4
\* The pool and the chain hold transactions; the chain keeps what it had at the
\* start, so an orphan, which lacks an input, spends something else.
LedgerInv ==
    /\ pool \subseteq Tx /\ chain \subseteq Tx
    /\ InitialChain \subseteq chain
    /\ \A o \in mapOrphanTransactions : ~ Inputs[o] \subseteq InitialChain

-----------------------------------------------------------------------------
(* The steps, again.                                                         *)

LEMMA NextRequest ==
    ASSUME Roomy(mapAlreadyAskedFor), NEW t \in Tx, RequestTime(t) <= MaxWait
    PROVE  RequestTime(t) \in 0..MaxWait
<1>1. Retry \in Nat /\ MaxWait \in Nat
  BY TxRelayAssumption
<1>2. t \in DOMAIN mapAlreadyAskedFor => mapAlreadyAskedFor[t] \in -Retry..MaxWait
  BY DEF Roomy
<1> QED
  BY <1>1, <1>2 DEF RequestTime

LEMMA AskForRequests ==
    ASSUME QueueInv, Roomy(mapAlreadyAskedFor),
           NEW p \in Peer, NEW t \in Tx, AskFor(p, t), UNCHANGED asked
    PROVE  /\ QueueInv' /\ Roomy(mapAlreadyAskedFor)'
           /\ setAskFor' = [setAskFor EXCEPT ![p] = @ \cup {t}]
           /\ \A q \in Peer : Range(mapAskFor[q]) \subseteq Range(mapAskFor'[q])
           /\ \E r \in Range(mapAskFor'[p]) : r.inv = t
<1> DEFINE time == RequestTime(t)
           s == Scheduled(mapAskFor[p], t, time)
<1>1. /\ Len(mapAskFor[p]) <= MaxAskFor /\ RequestTime(t) <= MaxWait
      /\ setAskFor' = [setAskFor EXCEPT ![p] = @ \cup {t}]
      /\ mapAskFor' = [mapAskFor EXCEPT ![p] = s]
  BY DEF AskFor
<1>2. time \in 0..MaxWait
  BY <1>1, NextRequest
<1>3. mapAskFor[p] \in Seq(Request) /\ InOrder(mapAskFor[p])
  BY DEF QueueInv
<1> HIDE DEF time
<1>4. /\ s \in Seq(Request) /\ InOrder(s)
      /\ Len(s) = Len(mapAskFor[p]) + 1
      /\ Range(s) = Range(mapAskFor[p]) \cup {[inv |-> t, wait |-> time]}
  BY <1>2, <1>3, ScheduledQueue
<1> HIDE DEF s
<1>5. Len(s) <= MaxAskFor + 1
  <2>1. MaxAskFor \in Nat /\ Len(mapAskFor[p]) \in Nat
    BY <1>3, TxRelayAssumption
  <2> QED
    BY <2>1, <1>1, <1>4
<1>6. \A q \in Peer : mapAskFor'[q] = IF q = p THEN s ELSE mapAskFor[q]
  BY <1>1 DEF QueueInv
<1>7. QueueInv'
  <2>1. setAskFor' \in [Peer -> SUBSET Tx]
    BY <1>1 DEF QueueInv
  <2>2. mapAskFor' \in [Peer -> Seq(Request)]
    BY <1>1, <1>4 DEF QueueInv
  <2>3. \A q \in Peer : Len(mapAskFor'[q]) <= MaxAskFor + 1 /\ InOrder(mapAskFor'[q])
    BY <1>4, <1>5, <1>6 DEF QueueInv
  <2> QED
    BY <2>1, <2>2, <2>3 DEF QueueInv, InOrder
<1>8. Roomy(mapAlreadyAskedFor')
  <2>1. time \in -Retry..MaxWait
    <3>1. Retry \in Nat /\ MaxWait \in Nat
      BY TxRelayAssumption
    <3> QED
      BY <1>2, <3>1
  <2>2. CASE t \in DOMAIN mapAlreadyAskedFor
    <3>1. mapAlreadyAskedFor' = [mapAlreadyAskedFor EXCEPT ![t] = time]
      BY <2>2 DEF AskFor, time
    <3>2. DOMAIN mapAlreadyAskedFor' = DOMAIN mapAlreadyAskedFor
      BY <3>1
    <3>3. mapAlreadyAskedFor' \in [DOMAIN mapAlreadyAskedFor -> -Retry..MaxWait]
      BY <2>1, <3>1 DEF Roomy
    <3> QED
      BY <3>2, <3>3 DEF Roomy
  <2>3. CASE t \notin DOMAIN mapAlreadyAskedFor
    <3>1. mapAlreadyAskedFor' \in Inserted(mapAlreadyAskedFor, t, time)
      BY <2>3 DEF AskFor, time
    <3> QED
      BY <2>1, <2>3, <3>1, InsertedRoomy
  <2> QED
    BY <2>2, <2>3
<1>9. Roomy(mapAlreadyAskedFor)'
  BY <1>8 DEF Roomy
<1>10. \E r \in Range(mapAskFor'[p]) : r.inv = t
  <2>1. [inv |-> t, wait |-> time] \in Range(mapAskFor'[p])
    BY <1>4, <1>6
  <2>2. [inv |-> t, wait |-> time].inv = t
    OBVIOUS
  <2> QED
    BY <2>1, <2>2
<1> QED
  BY <1>1, <1>4, <1>6, <1>7, <1>9, <1>10

LEMMA SendRequests ==
    ASSUME QueueInv, NEW p \in Peer, SendGetData(p)
    PROVE  /\ QueueInv'
           /\ \A q \in Peer : q # p =>
                  mapAskFor'[q] = mapAskFor[q] /\ asked'[q] = asked[q]
           /\ \A q \in Peer : setAskFor'[q] \subseteq setAskFor[q]
           /\ asked[p] \subseteq asked'[p]
           /\ \A r \in Range(mapAskFor[p]) : \/ r \in Range(mapAskFor'[p])
                                             \/ AlreadyHave(r.inv)
                                             \/ r.inv \in asked'[p]
<1> DEFINE rest == SubSeq(mapAskFor[p], UpTo(mapAskFor[p], 0) + 1, Len(mapAskFor[p]))
<1>1. /\ asked' = [asked EXCEPT ![p] = @ \cup {t \in Due(p) : ~ AlreadyHave(t)}]
      /\ setAskFor' = [setAskFor EXCEPT ![p] = @ \ {t \in Due(p) : AlreadyHave(t)}]
      /\ mapAskFor' = [mapAskFor EXCEPT ![p] = rest]
  BY DEF SendGetData
<1>2. mapAskFor[p] \in Seq(Request) /\ InOrder(mapAskFor[p])
  BY DEF QueueInv
<1>3. /\ rest \in Seq(Request) /\ InOrder(rest)
      /\ Len(rest) \in Nat /\ Len(rest) <= Len(mapAskFor[p])
      /\ Range(rest) = {r \in Range(mapAskFor[p]) : r.wait # 0}
  BY <1>2, SentQueue
<1> HIDE DEF rest
<1>4. \A q \in Peer : mapAskFor'[q] = IF q = p THEN rest ELSE mapAskFor[q]
  BY <1>1 DEF QueueInv
<1>5. ASSUME NEW r \in Range(mapAskFor[p])
      PROVE  r \in Request /\ r.inv \in Tx
  <2>1. PICK i \in 1..Len(mapAskFor[p]) : r = mapAskFor[p][i]
    BY <1>2 DEF Range
  <2> QED
    BY <1>2, <2>1, QueuedRequest
<1>6. Due(p) \subseteq Tx
  BY <1>5 DEF Due
<1>7. setAskFor' \in [Peer -> SUBSET Tx] /\ asked' \in [Peer -> SUBSET Tx]
  BY <1>1, <1>6 DEF QueueInv
<1>8. mapAskFor' \in [Peer -> Seq(Request)]
  BY <1>1, <1>3 DEF QueueInv
<1>9. Len(rest) <= MaxAskFor + 1
  <2>1. MaxAskFor \in Nat /\ Len(mapAskFor[p]) \in Nat
    BY <1>2, TxRelayAssumption
  <2>2. Len(mapAskFor[p]) <= MaxAskFor + 1
    BY DEF QueueInv
  <2> QED
    BY <1>3, <2>1, <2>2
<1>10. \A q \in Peer : Len(mapAskFor'[q]) <= MaxAskFor + 1 /\ InOrder(mapAskFor'[q])
  BY <1>3, <1>4, <1>9 DEF QueueInv
<1>11. QueueInv'
  BY <1>7, <1>8, <1>10 DEF QueueInv, InOrder
<1>12. \A r \in Range(mapAskFor[p]) : r.wait = 0 => r.inv \in Due(p)
  BY DEF Due
<1>13. asked'[p] = asked[p] \cup {t \in Due(p) : ~ AlreadyHave(t)}
  BY <1>1 DEF QueueInv
<1> QED
  BY <1>1, <1>3, <1>4, <1>11, <1>12, <1>13 DEF QueueInv

LEMMA TickRequests ==
    ASSUME QueueInv, Roomy(mapAlreadyAskedFor), Tick
    PROVE  /\ QueueInv' /\ Roomy(mapAlreadyAskedFor)'
           /\ \A p \in Peer : {r.inv : r \in Range(mapAskFor'[p])}
                                  = {r.inv : r \in Range(mapAskFor[p])}
<1> DEFINE later(p) == [i \in 1..Len(mapAskFor[p]) |->
               [mapAskFor[p][i] EXCEPT !.wait = Larger(@ - 1, 0)]]
<1>1. /\ mapAskFor' = [p \in Peer |-> later(p)]
      /\ mapAlreadyAskedFor' = [t \in DOMAIN mapAlreadyAskedFor |->
             Larger(mapAlreadyAskedFor[t] - 1, -Retry)]
      /\ UNCHANGED <<setAskFor, asked>>
  BY DEF Tick
<1>2. ASSUME NEW p \in Peer
      PROVE  /\ later(p) \in Seq(Request) /\ InOrder(later(p))
             /\ Len(later(p)) = Len(mapAskFor[p])
             /\ {r.inv : r \in Range(later(p))} = {r.inv : r \in Range(mapAskFor[p])}
  <2>1. mapAskFor[p] \in Seq(Request) /\ InOrder(mapAskFor[p])
    BY DEF QueueInv
  <2> QED
    BY <2>1, TickedQueue
<1> HIDE DEF later
<1>3. \A p \in Peer : mapAskFor'[p] = later(p)
  BY <1>1
<1>4. mapAskFor' \in [Peer -> Seq(Request)]
  BY <1>1, <1>2
<1>5. \A p \in Peer : Len(mapAskFor'[p]) <= MaxAskFor + 1 /\ InOrder(mapAskFor'[p])
  BY <1>2, <1>3 DEF QueueInv
<1>6. QueueInv'
  BY <1>1, <1>4, <1>5 DEF QueueInv, InOrder
<1>7. ASSUME NEW t \in DOMAIN mapAlreadyAskedFor
      PROVE  Larger(mapAlreadyAskedFor[t] - 1, -Retry) \in -Retry..MaxWait
  <2>1. Retry \in Nat /\ MaxWait \in Nat
    BY TxRelayAssumption
  <2>2. mapAlreadyAskedFor[t] \in -Retry..MaxWait
    BY DEF Roomy
  <2> QED
    BY <2>1, <2>2 DEF Larger
<1>8. DOMAIN mapAlreadyAskedFor' = DOMAIN mapAlreadyAskedFor
  BY <1>1
<1>9. mapAlreadyAskedFor' \in [DOMAIN mapAlreadyAskedFor -> -Retry..MaxWait]
  BY <1>1, <1>7
<1>10. Roomy(mapAlreadyAskedFor)'
  BY <1>8, <1>9 DEF Roomy
<1> QED
  BY <1>2, <1>3, <1>6, <1>10
-----------------------------------------------------------------------------
(* Requests and orphans together.                                            *)

RelayInv ==
    /\ OrphanInv /\ QueueInv /\ Roomy(mapAlreadyAskedFor) /\ LedgerInv
    /\ WantedIsPending

\* What a step has to keep for the requests that were pending: what is wanted
\* after it was wanted before, and what was queued or asked for still is.
LEMMA StillPending ==
    ASSUME WantedIsPending,
           NEW p \in Peer, NEW t \in Tx, Wanted(p, t),
           t \in asked[p] => t \in asked'[p],
           {r.inv : r \in Range(mapAskFor[p])} \subseteq
               {r.inv : r \in Range(mapAskFor'[p])}
    PROVE  t \in asked'[p] \/ \E r \in Range(mapAskFor'[p]) : r.inv = t
<1>1. t \in asked[p] \/ \E r \in Range(mapAskFor[p]) : r.inv = t
  BY DEF WantedIsPending
<1>2. CASE t \in asked[p]
  BY <1>2
<1>3. CASE t \notin asked[p]
  <2>1. t \in {r.inv : r \in Range(mapAskFor[p])}
    BY <1>1, <1>3
  <2>2. t \in {r.inv : r \in Range(mapAskFor'[p])}
    BY <2>1
  <2> QED
    BY <2>2
<1> QED
  BY <1>2, <1>3

\* A transaction that enters the pool or the chain stays in one of them, and an
\* orphan is never settled: what is settled and missing after a step was so
\* before it.
LEMMA SettledBefore ==
    ASSUME LedgerInv, pool \cup chain \subseteq pool' \cup chain',
           NEW t \in Tx, Settled(t)', ~ AlreadyHave(t)'
    PROVE  Settled(t) /\ ~ AlreadyHave(t)
<1>1. ~ Conflicts(t, pool' \cup chain') => ~ Conflicts(t, pool \cup chain)
  BY DEF Conflicts
<1>2. Settled(t)
  BY <1>1 DEF Settled, Conflicts
<1>3. t \notin pool \cup chain
  BY DEF AlreadyHave
<1>4. t \notin mapOrphanTransactions
  BY <1>2 DEF Settled, LedgerInv
<1> QED
  BY <1>2, <1>3, <1>4 DEF AlreadyHave

\* A transaction held as an orphan lacks an input of the chain.
LEMMA HoldLedger ==
    ASSUME LedgerInv, NEW t \in Tx, Verdict(t, pool) = "missing", Hold(t)
    PROVE  LedgerInv' /\ pool \cup chain \subseteq pool' \cup chain'
<1>1. /\ mapOrphanTransactions' \subseteq mapOrphanTransactions \cup {t}
      /\ UNCHANGED <<pool, chain>>
  BY DEF Hold
<1>2. ~ Inputs[t] \subseteq InitialChain
  BY DEF Verdict, MissingInputs, LedgerInv
<1> QED
  BY <1>1, <1>2 DEF LedgerInv

LEMMA AcceptLedger ==
    ASSUME OrphanInv, LedgerInv, NEW t \in Tx, Accept(t)
    PROVE  LedgerInv' /\ pool \cup chain \subseteq pool' \cup chain'
<1>1. PICK W \in SUBSET mapOrphanTransactions :
          /\ pool' = pool \cup {t} \cup W
          /\ mapOrphanTransactions' = mapOrphanTransactions \ Processed(W, t)
          /\ UNCHANGED chain
  BY DEF Accept
<1> QED
  BY <1>1 DEF LedgerInv, OrphanInv

LEMMA ReceiveTxRelay ==
    ASSUME RelayInv, NEW p \in Peer, NEW t \in Tx, ReceiveTx(p, t)
    PROVE  RelayInv'
<1>1. /\ ~ AlreadyHave(t)
      /\ asked' = [asked EXCEPT ![p] = @ \ {t}]
      /\ setAskFor' = [setAskFor EXCEPT ![p] = @ \ {t}]
      /\ mapAlreadyAskedFor' = Without(mapAlreadyAskedFor, t)
      /\ UNCHANGED mapAskFor
  BY DEF ReceiveTx
<1>2. OrphanInv'
  BY ReceiveTxOrphans DEF RelayInv
<1>3. LedgerInv' /\ pool \cup chain \subseteq pool' \cup chain'
  <2>1. CASE Verdict(t, pool) = "accepted" /\ Accept(t)
    BY <2>1, AcceptLedger DEF RelayInv
  <2>2. CASE Verdict(t, pool) = "missing" /\ Hold(t)
    BY <2>2, HoldLedger DEF RelayInv
  <2>3. CASE UNCHANGED txVars
    BY <2>3 DEF txVars, RelayInv, LedgerInv
  <2> QED
    BY <2>1, <2>2, <2>3 DEF ReceiveTx
<1>4. QueueInv'
  BY <1>1 DEF RelayInv, QueueInv, InOrder
<1>5. Roomy(mapAlreadyAskedFor)'
  <2>1. Roomy(mapAlreadyAskedFor')
    BY <1>1, WithoutRoomy DEF RelayInv
  <2> QED
    BY <2>1 DEF Roomy
<1>6. WantedIsPending'
  <2> SUFFICES ASSUME NEW q \in Peer, NEW u \in Tx, Wanted(q, u)'
               PROVE  (u \in asked[q] \/ \E r \in Range(mapAskFor[q]) : r.inv = u)'
    BY DEF WantedIsPending
  <2>1. Settled(u) /\ ~ AlreadyHave(u)
    BY <1>3, SettledBefore DEF RelayInv, Wanted
  <2>2. u \in setAskFor[q] /\ ~ (q = p /\ u = t)
    BY <1>1 DEF RelayInv, QueueInv, Wanted
  <2>3. u \in asked[q] => u \in asked'[q]
    BY <1>1, <2>2 DEF RelayInv, QueueInv
  <2>4. Wanted(q, u)
    BY <2>1, <2>2 DEF Wanted
  <2> QED
    BY <1>1, <2>3, <2>4, StillPending DEF RelayInv
<1> QED
  BY <1>2, <1>3, <1>4, <1>5, <1>6 DEF RelayInv

\* A transaction the node has is no longer wanted: the answer may be dropped.
LEMMA ReceiveKnownRelay ==
    ASSUME RelayInv, NEW p \in Peer, NEW t \in Tx, ReceiveKnown(p, t)
    PROVE  RelayInv'
<1>1. /\ AlreadyHave(t)
      /\ asked' = [asked EXCEPT ![p] = @ \ {t}]
      /\ UNCHANGED <<pool, chain, mapOrphanTransactions, mapOrphanTransactionsByPrev,
                     setAskFor, mapAskFor, mapAlreadyAskedFor>>
  BY DEF ReceiveKnown, txVars
<1>2. OrphanInv' /\ LedgerInv' /\ Roomy(mapAlreadyAskedFor)'
  BY <1>1, OtherOrphans DEF RelayInv, LedgerInv, Roomy
<1>3. QueueInv'
  BY <1>1 DEF RelayInv, QueueInv, InOrder
<1>4. WantedIsPending'
  <2> SUFFICES ASSUME NEW q \in Peer, NEW u \in Tx, Wanted(q, u)'
               PROVE  (u \in asked[q] \/ \E r \in Range(mapAskFor[q]) : r.inv = u)'
    BY DEF WantedIsPending
  <2>1. Wanted(q, u)
    BY <1>1 DEF Wanted, Settled, Conflicts, AlreadyHave
  <2>2. u # t
    BY <1>1, <2>1 DEF Wanted
  <2>3. u \in asked[q] => u \in asked'[q]
    BY <1>1, <2>2 DEF RelayInv, QueueInv
  <2> QED
    BY <1>1, <2>1, <2>3, StillPending DEF RelayInv
<1> QED
  BY <1>2, <1>3, <1>4 DEF RelayInv

LEMMA HandleInvRelay ==
    ASSUME RelayInv, NEW p \in Peer, NEW t \in Tx, HandleInv(p, t)
    PROVE  RelayInv'
<1>1. /\ AskFor(p, t)
      /\ UNCHANGED <<pool, chain, mapOrphanTransactions, mapOrphanTransactionsByPrev, asked>>
  BY DEF HandleInv, txVars
<1>2. OrphanInv' /\ LedgerInv'
  BY <1>1, OtherOrphans DEF RelayInv, LedgerInv
<1>3. /\ QueueInv' /\ Roomy(mapAlreadyAskedFor)'
      /\ setAskFor' = [setAskFor EXCEPT ![p] = @ \cup {t}]
      /\ \A q \in Peer : Range(mapAskFor[q]) \subseteq Range(mapAskFor'[q])
      /\ \E r \in Range(mapAskFor'[p]) : r.inv = t
  BY <1>1, AskForRequests DEF RelayInv
<1>4. WantedIsPending'
  <2> SUFFICES ASSUME NEW q \in Peer, NEW u \in Tx, Wanted(q, u)'
               PROVE  (u \in asked[q] \/ \E r \in Range(mapAskFor[q]) : r.inv = u)'
    BY DEF WantedIsPending
  <2>1. CASE q = p /\ u = t
    BY <1>3, <2>1
  <2>2. CASE ~ (q = p /\ u = t)
    <3>1. u \in setAskFor[q]
      BY <1>3, <2>2 DEF Wanted, RelayInv, QueueInv
    <3>2. Wanted(q, u)
      BY <1>1, <3>1 DEF Wanted, Settled, Conflicts, AlreadyHave
    <3> QED
      BY <1>1, <1>3, <3>2, StillPending DEF RelayInv
  <2> QED
    BY <2>1, <2>2
<1> QED
  BY <1>2, <1>3, <1>4 DEF RelayInv

LEMMA SendGetDataRelay ==
    ASSUME RelayInv, NEW p \in Peer, SendGetData(p)
    PROVE  RelayInv'
<1>1. UNCHANGED <<pool, chain, mapOrphanTransactions, mapOrphanTransactionsByPrev,
                  mapAlreadyAskedFor>>
  BY DEF SendGetData, txVars
<1>2. OrphanInv' /\ LedgerInv' /\ Roomy(mapAlreadyAskedFor)'
  BY <1>1, OtherOrphans DEF RelayInv, LedgerInv, Roomy
<1>3. /\ QueueInv'
      /\ \A q \in Peer : q # p =>
             mapAskFor'[q] = mapAskFor[q] /\ asked'[q] = asked[q]
      /\ \A q \in Peer : setAskFor'[q] \subseteq setAskFor[q]
      /\ asked[p] \subseteq asked'[p]
      /\ \A r \in Range(mapAskFor[p]) : \/ r \in Range(mapAskFor'[p])
                                        \/ AlreadyHave(r.inv)
                                        \/ r.inv \in asked'[p]
  BY SendRequests DEF RelayInv
<1>4. WantedIsPending'
  <2> SUFFICES ASSUME NEW q \in Peer, NEW u \in Tx, Wanted(q, u)'
               PROVE  (u \in asked[q] \/ \E r \in Range(mapAskFor[q]) : r.inv = u)'
    BY DEF WantedIsPending
  <2>1. Wanted(q, u)
    BY <1>1, <1>3 DEF Wanted, Settled, Conflicts, AlreadyHave
  <2>2. u \in asked[q] \/ \E r \in Range(mapAskFor[q]) : r.inv = u
    BY <2>1 DEF RelayInv, WantedIsPending
  <2>3. ~ AlreadyHave(u)
    BY <2>1 DEF Wanted
  <2>4. CASE q # p
    BY <1>3, <2>2, <2>4
  <2>5. CASE q = p
    <3>1. CASE u \in asked[p]
      BY <1>3, <2>5, <3>1
    <3>2. CASE u \notin asked[p]
      <4>1. PICK r \in Range(mapAskFor[p]) : r.inv = u
        BY <2>2, <2>5, <3>2
      <4> QED
        BY <1>3, <2>3, <2>5, <4>1
    <3> QED
      BY <3>1, <3>2
  <2> QED
    BY <2>4, <2>5
<1> QED
  BY <1>2, <1>3, <1>4 DEF RelayInv

LEMMA DisconnectRelay ==
    ASSUME RelayInv, NEW p \in Peer, Disconnect(p)
    PROVE  RelayInv'
<1>1. /\ setAskFor' = [setAskFor EXCEPT ![p] = {}]
      /\ mapAskFor' = [mapAskFor EXCEPT ![p] = <<>>]
      /\ asked' = [asked EXCEPT ![p] = {}]
      /\ UNCHANGED <<pool, chain, mapOrphanTransactions, mapOrphanTransactionsByPrev,
                     mapAlreadyAskedFor>>
  BY DEF Disconnect, txVars
<1>2. OrphanInv' /\ LedgerInv' /\ Roomy(mapAlreadyAskedFor)'
  BY <1>1, OtherOrphans DEF RelayInv, LedgerInv, Roomy
<1>3. QueueInv'
  <2>1. mapAskFor' \in [Peer -> Seq(Request)]
    BY <1>1 DEF RelayInv, QueueInv
  <2>2. Len(<<>>) <= MaxAskFor + 1
    BY TxRelayAssumption
  <2>3. \A q \in Peer : Len(mapAskFor'[q]) <= MaxAskFor + 1 /\ InOrder(mapAskFor'[q])
    BY <1>1, <2>2 DEF RelayInv, QueueInv, InOrder
  <2>4. setAskFor' \in [Peer -> SUBSET Tx] /\ asked' \in [Peer -> SUBSET Tx]
    BY <1>1 DEF RelayInv, QueueInv
  <2> QED
    BY <2>1, <2>3, <2>4 DEF QueueInv, InOrder
<1>4. WantedIsPending'
  <2> SUFFICES ASSUME NEW q \in Peer, NEW u \in Tx, Wanted(q, u)'
               PROVE  (u \in asked[q] \/ \E r \in Range(mapAskFor[q]) : r.inv = u)'
    BY DEF WantedIsPending
  <2>1. q # p
    BY <1>1 DEF Wanted, RelayInv, QueueInv
  <2>2. /\ asked'[q] = asked[q] /\ mapAskFor'[q] = mapAskFor[q]
        /\ setAskFor'[q] = setAskFor[q]
    BY <1>1, <2>1 DEF RelayInv, QueueInv
  <2>3. Wanted(q, u)
    BY <1>1, <2>2 DEF Wanted, Settled, Conflicts, AlreadyHave
  <2> QED
    BY <2>2, <2>3, StillPending DEF RelayInv
<1> QED
  BY <1>2, <1>3, <1>4 DEF RelayInv

LEMMA ConfirmRelay ==
    ASSUME RelayInv, NEW t \in Tx, Confirm(t)
    PROVE  RelayInv'
<1>1. /\ chain' = chain \cup {t} /\ pool' = pool \ {t}
      /\ UNCHANGED <<mapOrphanTransactions, mapOrphanTransactionsByPrev,
                     setAskFor, mapAskFor, mapAlreadyAskedFor, asked>>
  BY DEF Confirm, askVars
<1>2. OrphanInv' /\ LedgerInv' /\ Roomy(mapAlreadyAskedFor)'
  BY <1>1, OtherOrphans DEF RelayInv, LedgerInv, Roomy
<1>3. QueueInv'
  BY <1>1 DEF RelayInv, QueueInv, InOrder
<1>4. WantedIsPending'
  <2> SUFFICES ASSUME NEW q \in Peer, NEW u \in Tx, Wanted(q, u)'
               PROVE  (u \in asked[q] \/ \E r \in Range(mapAskFor[q]) : r.inv = u)'
    BY DEF WantedIsPending
  <2>1. pool \cup chain \subseteq pool' \cup chain'
    BY <1>1
  <2>2. Settled(u) /\ ~ AlreadyHave(u)
    BY <2>1, SettledBefore DEF RelayInv, Wanted
  <2>3. Wanted(q, u)
    BY <1>1, <2>2 DEF Wanted
  <2> QED
    BY <1>1, <2>3, StillPending DEF RelayInv
<1> QED
  BY <1>2, <1>3, <1>4 DEF RelayInv

LEMMA TickRelay ==
    ASSUME RelayInv, Tick
    PROVE  RelayInv'
<1>1. UNCHANGED <<pool, chain, mapOrphanTransactions, mapOrphanTransactionsByPrev,
                  setAskFor, asked>>
  BY DEF Tick, txVars
<1>2. OrphanInv' /\ LedgerInv'
  BY <1>1, OtherOrphans DEF RelayInv, LedgerInv
<1>3. /\ QueueInv' /\ Roomy(mapAlreadyAskedFor)'
      /\ \A p \in Peer : {r.inv : r \in Range(mapAskFor'[p])}
                             = {r.inv : r \in Range(mapAskFor[p])}
  BY TickRequests DEF RelayInv
<1>4. WantedIsPending'
  <2> SUFFICES ASSUME NEW q \in Peer, NEW u \in Tx, Wanted(q, u)'
               PROVE  (u \in asked[q] \/ \E r \in Range(mapAskFor[q]) : r.inv = u)'
    BY DEF WantedIsPending
  <2>1. Wanted(q, u)
    BY <1>1 DEF Wanted, Settled, Conflicts, AlreadyHave
  <2> QED
    BY <1>1, <1>3, <2>1, StillPending DEF RelayInv
<1> QED
  BY <1>2, <1>3, <1>4 DEF RelayInv

LEMMA StepRelay == RelayInv /\ [Next]_vars => RelayInv'
<1> SUFFICES ASSUME RelayInv, [Next]_vars PROVE RelayInv'
  OBVIOUS
<1>1. ASSUME NEW p \in Peer, NEW t \in Tx, HandleInv(p, t) PROVE RelayInv'
  BY <1>1, HandleInvRelay
<1>2. ASSUME NEW p \in Peer, NEW t \in Tx, Answer(p, t) \/ Unasked(p, t)
      PROVE  RelayInv'
  BY <1>2, ReceiveKnownRelay, ReceiveTxRelay DEF Answer, Unasked
<1>3. ASSUME NEW p \in Peer, SendGetData(p) \/ Disconnect(p) PROVE RelayInv'
  BY <1>3, SendGetDataRelay, DisconnectRelay
<1>4. ASSUME NEW t \in Tx, Confirm(t) PROVE RelayInv'
  BY <1>4, ConfirmRelay
<1>5. CASE Tick
  BY <1>5, TickRelay
<1>6. CASE UNCHANGED vars
  <2>1. OrphanInv' /\ LedgerInv' /\ QueueInv' /\ Roomy(mapAlreadyAskedFor)'
    BY <1>6, OtherOrphans
       DEF vars, txVars, askVars, RelayInv, LedgerInv, QueueInv, InOrder, Roomy
  <2>2. WantedIsPending'
    BY <1>6 DEF vars, txVars, askVars, RelayInv, WantedIsPending, Wanted, Settled,
                Conflicts, AlreadyHave
  <2> QED
    BY <2>1, <2>2 DEF RelayInv
<1> QED
  BY <1>1, <1>2, <1>3, <1>4, <1>5, <1>6 DEF Next

LEMMA InitRelay == Init => RelayInv
<1> SUFFICES ASSUME Init PROVE RelayInv
  OBVIOUS
<1>1. LedgerInv
  BY TxRelayAssumption DEF Init, LedgerInv
<1>2. QueueInv
  <2>1. Len(<<>>) <= MaxAskFor + 1
    BY TxRelayAssumption
  <2> QED
    BY <2>1 DEF Init, QueueInv, InOrder
<1>3. Roomy(mapAlreadyAskedFor)
  <2>1. DOMAIN mapAlreadyAskedFor = {}
    BY DEF Init
  <2>2. IsFiniteSet({}) /\ Cardinality({}) = 0
    BY FS_EmptySet
  <2>3. 0 < MaxAlreadyAsked
    BY TxRelayAssumption
  <2> QED
    BY <2>1, <2>2, <2>3 DEF Init, Roomy
<1>4. WantedIsPending
  BY DEF Init, WantedIsPending, Wanted
<1> QED
  BY InitOrphans, <1>1, <1>2, <1>3, <1>4 DEF RelayInv

THEOREM RelayAlwaysKept == Spec => []RelayInv
  BY InitRelay, StepRelay, PTL DEF Spec

\* Every queue stays within MAPASKFOR_MAX_SZ and in the order of its times,
\* the limited map stays below its limit, and every table keeps its type.
THEOREM TypesAlwaysOK == Spec => []TypeOK
<1>1. RelayInv => TypeOK
  <2> SUFFICES ASSUME RelayInv PROVE TypeOK
    OBVIOUS
  <2>1. /\ DOMAIN mapOrphanTransactionsByPrev \subseteq Tx
        /\ \A h \in DOMAIN mapOrphanTransactionsByPrev :
               mapOrphanTransactionsByPrev[h] \subseteq Tx
    BY TxRelayAssumption DEF RelayInv, OrphanInv, ByPrevOf
  <2>2. \A t \in DOMAIN mapAlreadyAskedFor : mapAlreadyAskedFor[t] \in -Retry..MaxWait
    BY DEF RelayInv, Roomy
  <2> QED
    BY <2>1, <2>2 DEF TypeOK, RelayInv, OrphanInv, QueueInv, LedgerInv, Roomy
<1> QED
  BY RelayAlwaysKept, <1>1, PTL

\* What setAskFor holds for a peer and the node still lacks is queued at the
\* peer or asked of it: AskFor's early return never loses a transaction.
THEOREM WantedAlwaysPending == Spec => []WantedIsPending
<1>1. RelayInv => WantedIsPending
  BY DEF RelayInv
<1> QED
  BY RelayAlwaysKept, <1>1, PTL
=============================================================================
