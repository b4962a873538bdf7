-------------------------- MODULE BlockSize_proofs -------------------------
(* Composed with the block size calculator the chain state keeps the         *)
(* relation between its commits, for every tree and all sizes: the limit and *)
(* the lookups decide which blocks connect, and the lemmas about the steps   *)
(* hold for whatever ConnectBlock makes of a block.  The limit itself is     *)
(* that of the best chain as long as the list only gets children of the best *)
(* block; this rests on counts of smaller sizes, which a list keeps when one *)
(* size is exchanged, and on what FindBlockByHeight finds.                   *)
EXTENDS BlockSize, ChainLedger_proofs, FiniteSetTheorems

-----------------------------------------------------------------------------
(* The chain, whatever the limit refuses.                                    *)

\* A null pointer followed in the middle of SetBestChain is a crash.
LEMMA SurvivedWork ==
    ASSUME WorkInv, Restart
    PROVE  WorkInv' /\ Heavier
  BY CrashWork DEF Restart

LEMMA SizedExtendWork ==
    ASSUME WorkInv, SizedExtendBest
    PROVE  WorkInv' /\ Heavier
<1>1. /\ target # NoBlock /\ Parent[target] = best
      /\ \E r : Survived(r.c.alive, Extended(r.v, target) /\ Concluded(r, target, r.v.ok))
  BY DEF SizedExtendBest
<1>2. PICK r : Survived(r.c.alive, Extended(r.v, target) /\ Concluded(r, target, r.v.ok))
  BY <1>1
<1>3. CASE Extended(r.v, target)
  BY <1>1, <1>3, ExtendWork
<1>4. CASE Restart
  BY <1>4, SurvivedWork
<1> QED
  BY <1>2, <1>3, <1>4 DEF Survived

LEMMA SizedReorganizeWork ==
    ASSUME WorkInv, SizedReorganize
    PROVE  WorkInv' /\ Heavier
<1> DEFINE b == Intermediate(target)
<1>1. target # NoBlock /\ Parent[target] # best /\ cursor = NoBlock
  BY DEF SizedReorganize
<1>2. \/ \E v : Switched(v, b)
      \/ \E r : Survived(r.c.alive, Switched(r.v, b) /\ Concluded(r, b, FALSE))
  BY DEF SizedReorganize
<1>3. CASE \E v : Switched(v, b)
  BY <1>1, <1>3, ReorganizeWork
<1>4. ASSUME NEW r, Survived(r.c.alive, Switched(r.v, b) /\ Concluded(r, b, FALSE))
      PROVE  WorkInv' /\ Heavier
  <2>1. Switched(r.v, b) \/ Restart
    BY <1>4 DEF Survived
  <2> QED
    BY <1>3, <2>1, SurvivedWork
<1> QED
  BY <1>2, <1>3, <1>4

LEMMA SizedSecondaryWork ==
    ASSUME WorkInv, SizedConnectSecondary
    PROVE  WorkInv' /\ Heavier
<1> DEFINE b == Ancestor(target, Height[cursor] + 1)
<1>1. target # NoBlock /\ cursor # NoBlock
  BY DEF SizedConnectSecondary
<1>2. PICK r : Survived(r.c.alive, Continued(r.v, b) /\ Concluded(r, b, FALSE))
  BY DEF SizedConnectSecondary
<1>3. CASE Continued(r.v, b)
  BY <1>1, <1>3, SecondaryWork
<1>4. CASE Restart
  BY <1>4, SurvivedWork
<1> QED
  BY <1>2, <1>3, <1>4 DEF Survived

LEMMA LookUpWork ==
    ASSUME WorkInv, NEW h, LookUp(h)
    PROVE  WorkInv' /\ Heavier
<1>1. UNCHANGED vars \/ Restart
  BY DEF LookUp, Survived
<1>2. CASE UNCHANGED vars
  BY <1>2, StepWork
<1> QED
  BY <1>1, <1>2, SurvivedWork

LEMMA SizedStepWork ==
    ASSUME WorkInv, [SizedNext]_<<vars, sizeVars>>
    PROVE  WorkInv' /\ Heavier
<1>1. ASSUME NEW b \in Block \ {Genesis}, SizedAcceptBlock(b)
      PROVE  WorkInv' /\ Heavier
  BY <1>1, AcceptWork DEF SizedAcceptBlock
<1>2. ASSUME [Next]_vars
      PROVE  WorkInv' /\ Heavier
  BY <1>2, StepWork
<1>3. RefuseBlock => Next
  BY DEF Next
<1>4. (\E t \in Tx : AcceptToMemoryPool(t)) => Next
  BY DEF Next
<1>5. CASE SizedCrash
  BY <1>5, SurvivedWork DEF SizedCrash
<1> QED
  BY <1>1, <1>2, <1>3, <1>4, <1>5, SizedExtendWork, SizedReorganizeWork,
     SizedSecondaryWork, LookUpWork DEF SizedNext

\* The stored best block, the one in memory and the target of SetBestChain keep
\* their relation whatever blocks the limit refuses.
THEOREM SizedWorkOrdered == SizedSpec => []WorkInv
<1>1. SizedInit => WorkInv
  BY InitWork DEF SizedInit
<1>2. WorkInv /\ [SizedNext]_<<vars, sizeVars>> => WorkInv'
  BY SizedStepWork
<1> QED
  BY <1>1, <1>2, PTL DEF SizedSpec

\* With the calculator as well the stored best block is only replaced by one
\* with more trust: neither a limit nor a null pointer makes it lose any.
THEOREM SizedTrustGrows == SizedSpec => TipWorkGrows
<1>1. WorkInv /\ [SizedNext]_<<vars, sizeVars>> =>
          [dbBest' # dbBest => ChainTrust[dbBest'] > ChainTrust[dbBest]]_vars
  BY SizedStepWork DEF Heavier
<1> QED
  BY SizedWorkOrdered, <1>1, PTL DEF SizedSpec, TipWorkGrows

-----------------------------------------------------------------------------
(* Lists of sizes and how many of their elements are smaller than a number.  *)

LEMMA CountTo ==
    ASSUME NEW n \in Nat
    PROVE  IsFiniteSet(1 .. n) /\ Cardinality(1 .. n) = n
<1>1. 1 \in Int /\ n \in Int
  OBVIOUS
<1>2. IsFiniteSet(1 .. n) /\ Cardinality(1 .. n) = IF 1 > n THEN 0 ELSE n - 1 + 1
  BY <1>1, FS_Interval, Zenon
<1> QED
  BY <1>2

LEMMA SmallerType ==
    ASSUME NEW s \in Seq(Nat), NEW x \in Nat
    PROVE  /\ Smaller(s, x) \in 0 .. Len(s) /\ NotLarger(s, x) \in 0 .. Len(s)
           /\ IsFiniteSet({i \in DOMAIN s : s[i] < x})
           /\ NotLarger(s, x) = Smaller(s, x + 1)
<1>1. DOMAIN s = 1 .. Len(s) /\ Len(s) \in Nat
  OBVIOUS
<1>2. IsFiniteSet(1 .. Len(s)) /\ Cardinality(1 .. Len(s)) = Len(s)
  BY <1>1, CountTo
<1>3. {i \in DOMAIN s : s[i] < x} \in SUBSET (1 .. Len(s))
  BY <1>1
<1>4. {i \in DOMAIN s : s[i] <= x} \in SUBSET (1 .. Len(s))
  BY <1>1
<1>5. /\ IsFiniteSet({i \in DOMAIN s : s[i] < x})
      /\ Cardinality({i \in DOMAIN s : s[i] < x}) <= Len(s)
      /\ Cardinality({i \in DOMAIN s : s[i] < x}) \in Nat
  BY <1>2, <1>3, FS_Subset, FS_CardinalityType
<1>6. /\ Cardinality({i \in DOMAIN s : s[i] <= x}) <= Len(s)
      /\ Cardinality({i \in DOMAIN s : s[i] <= x}) \in Nat
  BY <1>2, <1>4, FS_Subset, FS_CardinalityType
<1>7. {i \in DOMAIN s : s[i] <= x} = {i \in DOMAIN s : s[i] < x + 1}
  OBVIOUS
<1>8. /\ Smaller(s, x) = Cardinality({i \in DOMAIN s : s[i] < x})
      /\ NotLarger(s, x) = Cardinality({i \in DOMAIN s : s[i] <= x})
      /\ Smaller(s, x + 1) = Cardinality({i \in DOMAIN s : s[i] < x + 1})
  BY DEF Smaller, NotLarger
<1>9. NotLarger(s, x) = Smaller(s, x + 1)
  BY <1>7, <1>8
<1> QED
  BY <1>1, <1>5, <1>6, <1>8, <1>9

\* The counts grow with the number, and jump where it is in the list.
LEMMA SmallerGrows ==
    ASSUME NEW s \in Seq(Nat), NEW x \in Nat, NEW y \in Nat, x <= y
    PROVE  /\ Smaller(s, x) <= Smaller(s, y)
           /\ Smaller(s, x) < Smaller(s, y) <=> \E i \in DOMAIN s : x <= s[i] /\ s[i] < y
<1> DEFINE A == {i \in DOMAIN s : s[i] < x}
           B == {i \in DOMAIN s : s[i] < y}
<1>1. A \in SUBSET B
  OBVIOUS
<1>2. IsFiniteSet(B)
  BY SmallerType
<1>3. /\ Cardinality(A) <= Cardinality(B) /\ (Cardinality(A) = Cardinality(B) => A = B)
  BY <1>1, <1>2, FS_Subset
<1>4. A = B <=> ~ \E i \in DOMAIN s : x <= s[i] /\ s[i] < y
  OBVIOUS
<1>5. Smaller(s, x) = Cardinality(A) /\ Smaller(s, y) = Cardinality(B)
  BY DEF Smaller
<1>6. Smaller(s, x) \in Nat /\ Smaller(s, y) \in Nat
  <2>1. Smaller(s, x) \in 0 .. Len(s) /\ Smaller(s, y) \in 0 .. Len(s)
    BY SmallerType
  <2> QED
    BY <2>1
<1>7. (A # B) <=> \E i \in DOMAIN s : x <= s[i] /\ s[i] < y
  BY <1>4
<1> HIDE DEF A, B
<1>8. Cardinality(A) # Cardinality(B) <=> A # B
  BY <1>3
<1>9. Smaller(s, x) <= Smaller(s, y) /\ (Smaller(s, x) # Smaller(s, y) <=> A # B)
  BY <1>3, <1>5, <1>8
<1> QED
  BY <1>6, <1>7, <1>9

\* A list without its k-th element.
Without(s, k) == [j \in 1 .. Len(s) - 1 |-> IF j < k THEN s[j] ELSE s[j + 1]]

LEMMA WithoutCounts ==
    ASSUME NEW s \in Seq(Nat), NEW k \in 1 .. Len(s)
    PROVE  /\ Without(s, k) \in Seq(Nat) /\ Len(Without(s, k)) = Len(s) - 1
           /\ \A x \in Nat : Smaller(s, x) = Smaller(Without(s, k), x)
                                             + (IF s[k] < x THEN 1 ELSE 0)
<1> DEFINE t == Without(s, k)
<1>1. Len(s) \in Nat /\ DOMAIN s = 1 .. Len(s) /\ Len(s) - 1 \in Nat
  OBVIOUS
<1>2. \A j \in 1 .. Len(s) - 1 : (IF j < k THEN s[j] ELSE s[j + 1]) \in Nat
  BY <1>1
<1>4. t \in Seq(Nat) /\ Len(t) = Len(s) - 1 /\ DOMAIN t = 1 .. Len(s) - 1
  BY <1>1, <1>2 DEF Without
<1>5. \A j \in 1 .. Len(s) - 1 : t[j] = IF j < k THEN s[j] ELSE s[j + 1]
  BY DEF Without
<1>50. /\ \A j \in 1 .. Len(s) - 1 : j < k => t[j] = s[j] /\ j \in 1 .. Len(s)
       /\ \A j \in 1 .. Len(s) - 1 : j >= k => t[j] = s[j + 1] /\ j + 1 \in 1 .. Len(s)
  BY <1>1, <1>5
<1> HIDE DEF t
<1>6. ASSUME NEW x \in Nat
      PROVE  Smaller(s, x) = Smaller(t, x) + (IF s[k] < x THEN 1 ELSE 0)
  <2> DEFINE A == {i \in DOMAIN s : s[i] < x}
             B == {j \in DOMAIN t : t[j] < x}
             f == [j \in B |-> IF j < k THEN j ELSE j + 1]
  <2>1. IsFiniteSet(A) /\ IsFiniteSet(B)
    BY <1>4, <1>6, SmallerType
  <2>2. IsFiniteSet(A \ {k})
        /\ Cardinality(A \ {k}) = IF k \in A THEN Cardinality(A) - 1 ELSE Cardinality(A)
    BY <2>1, FS_RemoveElement
  <2>3. f \in [B -> A \ {k}]
    <3>1. ASSUME NEW j \in B
          PROVE  (IF j < k THEN j ELSE j + 1) \in A \ {k}
      <4>1. j \in 1 .. Len(s) - 1 /\ t[j] < x
        BY <1>4
      <4>2. CASE j < k
        BY <1>1, <1>50, <4>1, <4>2
      <4>3. CASE ~ (j < k)
        <5>1. j >= k /\ j + 1 # k /\ k \in Nat /\ j \in Nat
          BY <4>1, <4>3
        <5>2. t[j] = s[j + 1] /\ j + 1 \in DOMAIN s
          BY <1>1, <1>50, <4>1, <5>1
        <5> QED
          BY <4>1, <4>3, <5>1, <5>2
      <4> QED
        BY <4>2, <4>3
    <3> QED
      BY <3>1
  <2>4. \A i, j \in B : f[i] = f[j] => i = j
    <3>1. B \subseteq Nat /\ k \in Nat
      BY <1>4
    <3>2. \A i \in B : f[i] = IF i < k THEN i ELSE i + 1
      OBVIOUS
    <3> HIDE DEF B, f
    <3> QED
      BY <3>1, <3>2
  <2>5. \A i \in A \ {k} : \E j \in B : f[j] = i
    <3>1. ASSUME NEW i \in A \ {k}
          PROVE  \E j \in B : f[j] = i
      <4> DEFINE j == IF i < k THEN i ELSE i - 1
      <4>1. j \in 1 .. Len(s) - 1 /\ t[j] = s[i] /\ (IF j < k THEN j ELSE j + 1) = i
        <5>1. i \in 1 .. Len(s) /\ i # k /\ k \in 1 .. Len(s)
          BY <1>1
        <5>2. CASE i < k
          <6>1. i \in 1 .. Len(s) - 1
            BY <1>1, <5>1, <5>2
          <6> QED
            BY <5>2, <6>1, <1>50
        <5>3. CASE ~ (i < k)
          <6>1. i - 1 \in 1 .. Len(s) - 1 /\ i - 1 >= k /\ i - 1 + 1 = i /\ ~ (i - 1 < k)
            BY <1>1, <5>1, <5>3
          <6> QED
            BY <5>3, <6>1, <1>50
        <5> QED
          BY <5>2, <5>3
      <4>2. j \in B
        BY <1>4, <4>1
      <4> QED
        BY <4>1, <4>2
    <3> QED
      BY <3>1
  <2>6. ExistsBijection(B, A \ {k})
    BY <2>3, <2>4, <2>5, Zenon DEF ExistsBijection, Bijection, Injection, Surjection, IsInjective
  <2>7. Cardinality(A \ {k}) = Cardinality(B)
    BY <2>1, <2>6, FS_Bijection
  <2>8. k \in A <=> s[k] < x
    BY <1>1
  <2>9. Smaller(s, x) = Cardinality(A) /\ Smaller(t, x) = Cardinality(B)
    BY DEF Smaller
  <2>10. Cardinality(A) \in Nat /\ Cardinality(B) \in Nat
    BY <2>1, FS_CardinalityType
  <2> HIDE DEF A, B
  <2> QED
    BY <2>2, <2>7, <2>8, <2>9, <2>10
<1> QED
  BY <1>4, <1>6 DEF t
LEMMA JoinedLists ==
    ASSUME NEW a \in Seq(Nat), NEW b \in Seq(Nat)
    PROVE  /\ a \o b \in Seq(Nat) /\ Len(a \o b) = Len(a) + Len(b)
           /\ \A i \in 1 .. Len(a) + Len(b) :
                 (a \o b)[i] = IF i <= Len(a) THEN a[i] ELSE b[i - Len(a)]
  OBVIOUS

LEMMA PartOfList ==
    ASSUME NEW s \in Seq(Nat), NEW i \in 1 .. Len(s) + 1, NEW j \in 0 .. Len(s), i <= j + 1
    PROVE  /\ SubSeq(s, i, j) \in Seq(Nat) /\ Len(SubSeq(s, i, j)) = j + 1 - i
           /\ \A k \in 1 .. j + 1 - i : SubSeq(s, i, j)[k] = s[i + k - 1]
  OBVIOUS

LEMMA SameLists ==
    ASSUME NEW s \in Seq(Nat), NEW t \in Seq(Nat), Len(s) = Len(t),
           \A i \in 1 .. Len(s) : s[i] = t[i]
    PROVE  s = t
  OBVIOUS

\* erase of a size that is in the list takes out one element.
LEMMA RemoveFirstIsWithout ==
    ASSUME NEW s \in Seq(Nat), NEW e \in Range(s)
    PROVE  \E k \in 1 .. Len(s) : s[k] = e /\ RemoveFirst(s, e) = Without(s, k)
<1>1. Len(s) \in Nat /\ DOMAIN s = 1 .. Len(s)
  OBVIOUS
<1> DEFINE I == {i \in 1 .. Len(s) : s[i] = e}
<1>2. I \in SUBSET Nat /\ I # {}
  BY <1>1 DEF Range
<1>3. PICK k \in I : \A i \in I : k <= i
  BY <1>2, LeastNat
<1>4. Min(I) \in I /\ \A i \in I : Min(I) <= i
  BY <1>3 DEF Min
<1>5. Min(I) = k
  BY <1>2, <1>3, <1>4
<1>6. SelectInSeq(s, LAMBDA v : v = e) = k
  BY <1>2, <1>5 DEF SelectInSeq
<1>7. RemoveFirst(s, e) = RemoveAt(s, k)
  BY <1>2, <1>6 DEF RemoveFirst
<1>8. k \in 1 .. Len(s) /\ s[k] = e
  OBVIOUS
<1> HIDE DEF I
<1>9. RemoveAt(s, k) = Without(s, k)
  <2> DEFINE a == SubSeq(s, 1, k - 1)
             c == SubSeq(s, k + 1, Len(s))
             n == Len(s)
  <2>1. n \in Nat /\ k \in 1 .. n
    BY <1>1, <1>8
  <2>2. /\ a \in Seq(Nat) /\ Len(a) = k - 1 /\ \A i \in 1 .. k - 1 : a[i] = s[i]
    BY <2>1, PartOfList
  <2>3. /\ c \in Seq(Nat) /\ Len(c) = n - k /\ \A i \in 1 .. n - k : c[i] = s[k + i]
    <3>1. k + 1 \in 1 .. n + 1 /\ n \in 0 .. n /\ k + 1 <= n + 1
      BY <2>1
    <3>2. /\ c \in Seq(Nat) /\ Len(c) = n + 1 - (k + 1)
          /\ \A i \in 1 .. n + 1 - (k + 1) : c[i] = s[k + 1 + i - 1]
      BY <3>1, PartOfList
    <3> HIDE DEF c, n
    <3> QED
      BY <2>1, <3>2
  <2>4. RemoveAt(s, k) = a \o c
    BY DEF RemoveAt
  <2> HIDE DEF a, c
  <2>5. /\ a \o c \in Seq(Nat) /\ Len(a \o c) = k - 1 + (n - k)
        /\ \A i \in 1 .. k - 1 + (n - k) : (a \o c)[i] = IF i <= k - 1 THEN a[i] ELSE c[i - (k - 1)]
    <3>1. a \in Seq(Nat) /\ c \in Seq(Nat) /\ Len(a) = k - 1 /\ Len(c) = n - k
      BY <2>2, <2>3
    <3>2. /\ a \o c \in Seq(Nat) /\ Len(a \o c) = Len(a) + Len(c)
          /\ \A i \in 1 .. Len(a) + Len(c) :
                (a \o c)[i] = IF i <= Len(a) THEN a[i] ELSE c[i - Len(a)]
      BY <3>1, JoinedLists
    <3> QED
      BY <3>1, <3>2
  <2>6. /\ Without(s, k) \in Seq(Nat) /\ Len(Without(s, k)) = n - 1
        /\ \A j \in 1 .. n - 1 : Without(s, k)[j] = IF j < k THEN s[j] ELSE s[j + 1]
    <3>1. Without(s, k) \in Seq(Nat) /\ Len(Without(s, k)) = n - 1
      BY <2>1, WithoutCounts
    <3>2. \A j \in 1 .. n - 1 : Without(s, k)[j] = IF j < k THEN s[j] ELSE s[j + 1]
      BY DEF Without
    <3> QED
      BY <3>1, <3>2
  <2>7. \A j \in 1 .. n - 1 : (a \o c)[j] = Without(s, k)[j]
    <3> HIDE DEF n
    <3> SUFFICES ASSUME NEW j \in 1 .. n - 1 PROVE (a \o c)[j] = Without(s, k)[j]
      OBVIOUS
    <3>1. (a \o c)[j] = IF j <= k - 1 THEN a[j] ELSE c[j - (k - 1)]
      BY <2>1, <2>5
    <3>2. CASE j < k
      BY <2>1, <2>2, <2>6, <3>1, <3>2
    <3>3. CASE ~ (j < k)
      <4>1. j - (k - 1) \in 1 .. n - k /\ k + (j - (k - 1)) = j + 1 /\ ~ (j <= k - 1)
        BY <2>1, <3>3
      <4>2. (a \o c)[j] = c[j - (k - 1)]
        BY <3>1, <4>1
      <4>3. c[j - (k - 1)] = s[j + 1]
        BY <2>3, <4>1
      <4> QED
        BY <2>6, <3>3, <4>2, <4>3
    <3> QED
      BY <3>2, <3>3
  <2>8. Len(a \o c) = n - 1
    <3> HIDE DEF n
    <3> QED
      BY <2>1, <2>5
  <2> QED
    BY <2>4, <2>5, <2>6, <2>7, <2>8, SameLists
<1> QED
  BY <1>7, <1>8, <1>9

\* insert puts in one element.
LEMMA InsertAtIs ==
    ASSUME NEW s \in Seq(Nat), NEW k \in 1 .. Len(s) + 1, NEW x \in Nat
    PROVE  LET t == InsertAt(s, k, x) IN
           /\ t \in Seq(Nat) /\ Len(t) = Len(s) + 1
           /\ \A i \in 1 .. Len(s) + 1 :
                 t[i] = IF i < k THEN s[i] ELSE IF i = k THEN x ELSE s[i - 1]
           /\ Without(t, k) = s
<1> DEFINE t == InsertAt(s, k, x)
           n == Len(s)
<1>1. n \in Nat /\ DOMAIN s = 1 .. n
  OBVIOUS
<1> DEFINE a == SubSeq(s, 1, k - 1)
           c == SubSeq(s, k, n)
           u == a \o <<x>>
<1>2. /\ a \in Seq(Nat) /\ Len(a) = k - 1 /\ \A i \in 1 .. k - 1 : a[i] = s[i]
  BY <1>1, PartOfList
<1>3. /\ c \in Seq(Nat) /\ Len(c) = n + 1 - k
      /\ \A i \in 1 .. n + 1 - k : c[i] = s[k + i - 1]
  <2>1. k \in 1 .. Len(s) + 1 /\ n \in 0 .. Len(s) /\ k <= n + 1
    BY <1>1
  <2> HIDE DEF n
  <2> QED
    BY <2>1, PartOfList
<1>4. t = u \o c
  <2>1. t = a \o <<x>> \o c
    BY DEF InsertAt
  <2> QED
    BY <2>1
<1> HIDE DEF t, a, c
<1>5. /\ u \in Seq(Nat) /\ Len(u) = k
      /\ \A i \in 1 .. k : u[i] = IF i < k THEN s[i] ELSE x
  <2> DEFINE o == <<x>>
  <2>1. o \in Seq(Nat) /\ Len(o) = 1 /\ o[1] = x
    OBVIOUS
  <2> HIDE DEF o
  <2>2. /\ a \o o \in Seq(Nat) /\ Len(a \o o) = k - 1 + 1
        /\ \A i \in 1 .. k - 1 + 1 : (a \o o)[i] = IF i <= k - 1 THEN a[i] ELSE o[i - (k - 1)]
    <3>1. a \in Seq(Nat) /\ Len(a) = k - 1
      BY <1>2
    <3>2. /\ a \o o \in Seq(Nat) /\ Len(a \o o) = Len(a) + Len(o)
          /\ \A i \in 1 .. Len(a) + Len(o) :
                (a \o o)[i] = IF i <= Len(a) THEN a[i] ELSE o[i - Len(a)]
      BY <2>1, <3>1, JoinedLists
    <3> QED
      BY <2>1, <3>1, <3>2
  <2>3. k - 1 + 1 = k /\ k \in Nat
    OBVIOUS
  <2>4. ASSUME NEW i \in 1 .. k
        PROVE  (a \o o)[i] = IF i < k THEN s[i] ELSE x
    <3>1. (a \o o)[i] = IF i <= k - 1 THEN a[i] ELSE o[i - (k - 1)]
      BY <2>2, <2>3
    <3>2. CASE i < k
      BY <1>2, <2>3, <3>1, <3>2
    <3>3. CASE i = k
      <4>1. i - (k - 1) = 1 /\ ~ (i <= k - 1)
        BY <2>3, <3>3
      <4> QED
        BY <2>1, <3>1, <3>3, <4>1
    <3>4. i < k \/ i = k
      BY <2>3
    <3> QED
      BY <2>3, <3>2, <3>3, <3>4
  <2> QED
    BY <2>2, <2>3, <2>4 DEF o
<1> HIDE DEF u
<1>6. /\ u \o c \in Seq(Nat) /\ Len(u \o c) = k + (n + 1 - k)
      /\ \A i \in 1 .. k + (n + 1 - k) : (u \o c)[i] = IF i <= k THEN u[i] ELSE c[i - k]
  <2>1. u \in Seq(Nat) /\ c \in Seq(Nat) /\ Len(u) = k /\ Len(c) = n + 1 - k
    BY <1>3, <1>5
  <2>2. /\ u \o c \in Seq(Nat) /\ Len(u \o c) = Len(u) + Len(c)
        /\ \A i \in 1 .. Len(u) + Len(c) :
              (u \o c)[i] = IF i <= Len(u) THEN u[i] ELSE c[i - Len(u)]
    BY <2>1, JoinedLists
  <2> QED
    BY <2>1, <2>2
<1>7. k + (n + 1 - k) = n + 1 /\ k \in 1 .. n + 1
  BY <1>1
<1>8. t \in Seq(Nat) /\ Len(t) = n + 1
  BY <1>4, <1>6, <1>7
<1>9. ASSUME NEW i \in 1 .. n + 1
      PROVE  t[i] = IF i < k THEN s[i] ELSE IF i = k THEN x ELSE s[i - 1]
  <2>1. t[i] = IF i <= k THEN u[i] ELSE c[i - k]
    BY <1>4, <1>6, <1>7
  <2>2. CASE i <= k
    BY <1>1, <1>5, <2>1, <2>2
  <2>3. CASE ~ (i <= k)
    <3>1. i - k \in 1 .. n + 1 - k /\ ~ (i < k) /\ i # k
      BY <1>1, <2>3
    <3>2. k + (i - k) - 1 = i - 1
      BY <1>1
    <3>3. c[i - k] = s[k + (i - k) - 1]
      BY <1>3, <3>1
    <3> QED
      BY <2>1, <2>3, <3>1, <3>2, <3>3
  <2> QED
    BY <2>2, <2>3
<1>10. Without(t, k) = s
  <2>1. /\ Without(t, k) \in Seq(Nat) /\ Len(Without(t, k)) = n + 1 - 1
        /\ \A j \in 1 .. n + 1 - 1 : Without(t, k)[j] = IF j < k THEN t[j] ELSE t[j + 1]
    <3>1. k \in 1 .. Len(t)
      BY <1>7, <1>8
    <3> QED
      <4>1. Without(t, k) \in Seq(Nat) /\ Len(Without(t, k)) = n + 1 - 1
        BY <1>8, <3>1, WithoutCounts
      <4>2. \A j \in 1 .. Len(t) - 1 : Without(t, k)[j] = IF j < k THEN t[j] ELSE t[j + 1]
        BY DEF Without
      <4> QED
        BY <1>8, <4>1, <4>2
  <2>2. n + 1 - 1 = n
    BY <1>1
  <2>3. ASSUME NEW j \in 1 .. n
        PROVE  Without(t, k)[j] = s[j]
    <3>1. Without(t, k)[j] = IF j < k THEN t[j] ELSE t[j + 1]
      BY <2>1, <2>2
    <3>2. CASE j < k
      BY <1>1, <1>9, <3>1, <3>2
    <3>3. CASE ~ (j < k)
      <4>1. j + 1 \in 1 .. n + 1 /\ ~ (j + 1 < k) /\ j + 1 # k /\ j + 1 - 1 = j
        BY <1>1, <3>3
      <4>2. t[j + 1] = s[j]
        BY <1>9, <4>1
      <4> QED
        BY <3>1, <3>3, <4>2
    <3> QED
      BY <3>2, <3>3
  <2> QED
    BY <2>1, <2>2, <2>3, SameLists
<1> QED
  BY <1>8, <1>9, <1>10 DEF t
-----------------------------------------------------------------------------
(* Sorting.                                                                  *)

Ranks(s, k, x) == Smaller(s, x) < k /\ k <= NotLarger(s, x)
Ascending(s) == \A i, j \in DOMAIN s : i < j => s[i] <= s[j]
SameSizes(s, t) == Len(s) = Len(t) /\ \A x \in Nat : Smaller(s, x) = Smaller(t, x)

LEMMA LargestSize ==
    ASSUME NEW s \in Seq(Nat), s # <<>>
    PROVE  \E x \in Nat : NotLarger(s, x) = Len(s)
<1>1. Len(s) \in Nat /\ DOMAIN s = 1 .. Len(s) /\ 1 \in DOMAIN s
  OBVIOUS
<1>2. \A i \in DOMAIN s : s[i] \in Nat /\ NotLarger(s, s[i]) \in 0 .. Len(s)
  <2>1. \A i \in DOMAIN s : s[i] \in Nat
    BY <1>1
  <2> QED
    BY <2>1, SmallerType
<1> DEFINE T == {Len(s) - NotLarger(s, s[i]) : i \in DOMAIN s}
<1>3. T \in SUBSET Nat /\ T # {}
  <2>1. \A i \in DOMAIN s : Len(s) - NotLarger(s, s[i]) \in Nat
    BY <1>1, <1>2
  <2> QED
    BY <1>1, <2>1
<1>4. PICK m \in T : \A y \in T : m <= y
  <2> HIDE DEF T
  <2> QED
    BY <1>3, LeastNat
<1>5. PICK i \in DOMAIN s : m = Len(s) - NotLarger(s, s[i])
  OBVIOUS
<1>6. ASSUME NEW j \in DOMAIN s
      PROVE  s[j] <= s[i]
  <2>1. Len(s) - NotLarger(s, s[i]) <= Len(s) - NotLarger(s, s[j])
    BY <1>4, <1>5
  <2>2. NotLarger(s, s[j]) <= NotLarger(s, s[i])
    BY <1>1, <1>2, <2>1
  <2>3. NotLarger(s, s[j]) = Smaller(s, s[j] + 1) /\ NotLarger(s, s[i]) = Smaller(s, s[i] + 1)
    BY <1>2, SmallerType
  <2>4. ASSUME s[i] < s[j]
        PROVE  FALSE
    <3>1. s[i] + 1 \in Nat /\ s[j] + 1 \in Nat /\ s[i] + 1 <= s[j] /\ s[j] < s[j] + 1
          /\ s[i] + 1 <= s[j] + 1
      <4>1. s[i] \in Nat /\ s[j] \in Nat
        BY <1>2
      <4>2. \A x, y \in Nat : x < y =>
                x + 1 \in Nat /\ y + 1 \in Nat /\ x + 1 <= y /\ y < y + 1 /\ x + 1 <= y + 1
        OBVIOUS
      <4> QED
        BY ONLY <2>4, <4>1, <4>2
    <3>2. Smaller(s, s[i] + 1) < Smaller(s, s[j] + 1)
      BY <3>1, SmallerGrows
    <3>3. NotLarger(s, s[i]) \in Nat /\ NotLarger(s, s[j]) \in Nat
      BY <1>2
    <3> QED
      BY ONLY <2>2, <2>3, <3>2, <3>3
  <2> QED
    BY <1>2, <2>4
<1>7. {j \in DOMAIN s : s[j] <= s[i]} = 1 .. Len(s)
  BY <1>1, <1>6
<1>8. Cardinality(1 .. Len(s)) = Len(s)
  BY <1>1, CountTo
<1>9. NotLarger(s, s[i]) = Len(s)
  BY <1>7, <1>8 DEF NotLarger
<1> QED
  BY <1>2, <1>9

\* Every rank is taken by an element of the list, and by one only.
LEMMA RankExists ==
    ASSUME NEW s \in Seq(Nat), NEW k \in 1 .. Len(s)
    PROVE  \E x \in Range(s) : x \in Nat /\ Ranks(s, k, x)
<1>1. Len(s) \in Nat /\ DOMAIN s = 1 .. Len(s) /\ s # <<>>
  OBVIOUS
<1> DEFINE T == {x \in Nat : k <= NotLarger(s, x)}
<1>2. T \in SUBSET Nat /\ T # {}
  <2>1. PICK x \in Nat : NotLarger(s, x) = Len(s)
    BY <1>1, LargestSize
  <2>2. k <= Len(s)
    BY <1>1
  <2> QED
    BY <2>1, <2>2
<1>3. PICK x \in T : \A y \in T : x <= y
  <2> HIDE DEF T
  <2> QED
    BY <1>2, LeastNat
<1>4. x \in Nat /\ k <= NotLarger(s, x) /\ k \in Nat /\ 1 <= k
  BY <1>1
<1>5. /\ NotLarger(s, x) = Smaller(s, x + 1)
      /\ Smaller(s, x) \in Nat /\ Smaller(s, x + 1) \in Nat
  <2>1. /\ NotLarger(s, x) = Smaller(s, x + 1) /\ Smaller(s, x) \in 0 .. Len(s)
        /\ Smaller(s, x + 1) \in 0 .. Len(s)
    BY <1>4, SmallerType
  <2> QED
    BY <2>1
<1>6. Smaller(s, x) < k
  <2>1. CASE x = 0
    <3>1. {i \in DOMAIN s : s[i] < x} = {}
      BY <1>1, <2>1
    <3>2. Smaller(s, x) = 0
      BY <3>1, FS_EmptySet DEF Smaller
    <3> QED
      BY <1>4, <3>2
  <2>2. CASE x # 0
    <3>1. x - 1 \in Nat /\ x - 1 + 1 = x /\ ~ (x <= x - 1)
      BY <1>4, <2>2
    <3>2. ~ (k <= NotLarger(s, x - 1))
      BY <1>3, <3>1
    <3>3. NotLarger(s, x - 1) = Smaller(s, x)
      BY <3>1, SmallerType
    <3> QED
      BY <1>4, <1>5, <3>2, <3>3
  <2> QED
    BY <2>1, <2>2
<1>7. x \in Range(s)
  <2>1. Smaller(s, x) < Smaller(s, x + 1)
    BY <1>4, <1>5, <1>6
  <2>2. x <= x + 1 /\ x + 1 \in Nat
    BY <1>4
  <2>3. PICK i \in DOMAIN s : x <= s[i] /\ s[i] < x + 1
    BY <1>4, <2>1, <2>2, SmallerGrows
  <2>4. s[i] = x
    BY <1>1, <1>4, <2>3
  <2> QED
    BY <2>4 DEF Range
<1> QED
  BY <1>4, <1>6, <1>7 DEF Ranks

LEMMA RanksOrdered ==
    ASSUME NEW s \in Seq(Nat), NEW x \in Nat, NEW y \in Nat, NEW j \in Nat, NEW k \in Nat,
           Ranks(s, j, x), Ranks(s, k, y), j <= k
    PROVE  x <= y
<1> SUFFICES ASSUME y < x PROVE FALSE
  OBVIOUS
<1>1. y + 1 \in Nat /\ y + 1 <= x
  OBVIOUS
<1>2. Smaller(s, y + 1) <= Smaller(s, x)
  BY <1>1, SmallerGrows
<1>3. NotLarger(s, y) = Smaller(s, y + 1)
  BY SmallerType
<1>4. Smaller(s, x) \in Nat /\ Smaller(s, y + 1) \in Nat
  <2>1. Smaller(s, x) \in 0 .. Len(s) /\ Smaller(s, y + 1) \in 0 .. Len(s)
    BY <1>1, SmallerType
  <2> QED
    BY <2>1
<1> QED
  BY <1>2, <1>3, <1>4 DEF Ranks

LEMMA SortedRanks ==
    ASSUME NEW s \in Seq(Nat)
    PROVE  /\ Sorted(s) \in Seq(Nat) /\ Len(Sorted(s)) = Len(s)
           /\ \A k \in 1 .. Len(s) : Ranks(s, k, Sorted(s)[k])
<1>1. \A k \in 1 .. Len(s) : \E x \in Range(s) : x \in Nat /\ Ranks(s, k, x)
  BY RankExists
<1> DEFINE R(k) == CHOOSE x \in Range(s) : Smaller(s, x) < k /\ k <= NotLarger(s, x)
<1>2. \A k \in 1 .. Len(s) : R(k) \in Range(s) /\ Ranks(s, k, R(k))
  BY <1>1 DEF Ranks
<1>3. Range(s) \subseteq Nat
  BY DEF Range
<1>4. Sorted(s) = [k \in 1 .. Len(s) |-> R(k)]
  BY DEF Sorted
<1> HIDE DEF R
<1> QED
  BY <1>2, <1>3, <1>4

LEMMA SortedIsAscending ==
    ASSUME NEW s \in Seq(Nat)
    PROVE  Ascending(Sorted(s)) /\ SameSizes(Sorted(s), s)
<1> DEFINE t == Sorted(s)
<1>1. /\ t \in Seq(Nat) /\ Len(t) = Len(s) /\ Len(s) \in Nat /\ DOMAIN t = 1 .. Len(s)
      /\ \A k \in 1 .. Len(s) : Ranks(s, k, t[k]) /\ t[k] \in Nat
  BY SortedRanks
<1> HIDE DEF t
<1>2. Ascending(t)
  <2> SUFFICES ASSUME NEW i \in 1 .. Len(s), NEW j \in 1 .. Len(s), i < j
               PROVE  t[i] <= t[j]
    BY <1>1 DEF Ascending
  <2>1. i \in Nat /\ j \in Nat /\ i <= j
    BY <1>1
  <2> QED
    BY <1>1, <2>1, RanksOrdered
<1>3. ASSUME NEW x \in Nat
      PROVE  Smaller(t, x) = Smaller(s, x)
  <2>1. Smaller(s, x) \in Nat /\ Smaller(s, x) <= Len(s)
    <3>1. Smaller(s, x) \in 0 .. Len(s)
      BY SmallerType
    <3> QED
      BY <1>1, <3>1
  <2>2. ASSUME NEW k \in 1 .. Len(s)
        PROVE  t[k] < x <=> k <= Smaller(s, x)
    <3>1. t[k] \in Nat /\ k \in Nat /\ Smaller(s, t[k]) < k /\ k <= NotLarger(s, t[k])
      BY <1>1 DEF Ranks
    <3>2. Smaller(s, t[k]) \in Nat /\ NotLarger(s, t[k]) = Smaller(s, t[k] + 1)
          /\ Smaller(s, t[k] + 1) \in Nat
      <4>1. /\ Smaller(s, t[k]) \in 0 .. Len(s) /\ Smaller(s, t[k] + 1) \in 0 .. Len(s)
            /\ NotLarger(s, t[k]) = Smaller(s, t[k] + 1)
        BY <3>1, SmallerType
      <4> QED
        BY <4>1
    <3>3. CASE t[k] < x
      <4>1. t[k] + 1 \in Nat /\ t[k] + 1 <= x
        BY <3>1, <3>3
      <4>2. Smaller(s, t[k] + 1) <= Smaller(s, x)
        BY <4>1, SmallerGrows
      <4> QED
        BY <2>1, <3>1, <3>2, <3>3, <4>2
    <3>4. CASE x <= t[k]
      <4>1. Smaller(s, x) <= Smaller(s, t[k])
        BY <3>1, <3>4, SmallerGrows
      <4> QED
        BY <2>1, <3>1, <3>2, <3>4, <4>1
    <3> QED
      BY <3>1, <3>3, <3>4
  <2>3. {k \in DOMAIN t : t[k] < x} = 1 .. Smaller(s, x)
    BY <1>1, <2>1, <2>2
  <2>4. Cardinality(1 .. Smaller(s, x)) = Smaller(s, x)
    BY <2>1, CountTo
  <2> QED
    BY <2>3, <2>4 DEF Smaller
<1> QED
  BY <1>1, <1>2, <1>3 DEF SameSizes, t

\* A list that is in order and has the same sizes is the sorted list.
LEMMA SortedUnique ==
    ASSUME NEW s \in Seq(Nat), NEW t \in Seq(Nat), Ascending(t), SameSizes(t, s)
    PROVE  t = Sorted(s)
<1>1. /\ Sorted(s) \in Seq(Nat) /\ Len(Sorted(s)) = Len(s) /\ Len(s) \in Nat
      /\ \A k \in 1 .. Len(s) : Ranks(s, k, Sorted(s)[k]) /\ Sorted(s)[k] \in Nat
  BY SortedRanks
<1>2. Len(t) = Len(s) /\ DOMAIN t = 1 .. Len(s) /\ \A x \in Nat : Smaller(t, x) = Smaller(s, x)
  BY DEF SameSizes
<1>3. ASSUME NEW k \in 1 .. Len(s)
      PROVE  Ranks(s, k, t[k]) /\ t[k] \in Nat
  <2>1. t[k] \in Nat /\ k \in Nat /\ k - 1 \in Nat
    BY <1>2
  <2>2. /\ Smaller(s, t[k]) = Smaller(t, t[k]) /\ NotLarger(s, t[k]) = Smaller(t, t[k] + 1)
        /\ NotLarger(t, t[k]) = Smaller(t, t[k] + 1)
    <3>1. NotLarger(s, t[k]) = Smaller(s, t[k] + 1) /\ NotLarger(t, t[k]) = Smaller(t, t[k] + 1)
      BY <2>1, SmallerType
    <3>2. t[k] + 1 \in Nat
      BY <2>1
    <3> QED
      BY <1>2, <2>1, <3>1, <3>2
  <2>3. {i \in DOMAIN t : t[i] < t[k]} \in SUBSET (1 .. k - 1)
    <3>1. ASSUME NEW i \in 1 .. Len(s), t[i] < t[k]
          PROVE  i \in 1 .. k - 1
      <4>1. ~ (k < i) /\ i # k
        <5>1. t[i] \in Nat /\ ~ (t[k] <= t[i])
          BY <1>2, <2>1, <3>1
        <5>2. i # k
          BY <2>1, <5>1
        <5>3. k \in DOMAIN t /\ i \in DOMAIN t
          BY <1>2
        <5> QED
          BY <5>1, <5>2, <5>3 DEF Ascending
      <4> QED
        BY <1>1, <4>1
    <3> QED
      BY <1>2, <3>1
  <2>4. Smaller(t, t[k]) <= k - 1
    BY <2>1, <2>3, CountTo, FS_Subset DEF Smaller
  <2>5. 1 .. k \in SUBSET {i \in DOMAIN t : t[i] <= t[k]}
    <3>1. ASSUME NEW i \in 1 .. k
          PROVE  i \in DOMAIN t /\ t[i] <= t[k]
      <4>1. i \in DOMAIN t /\ k \in DOMAIN t /\ (i < k \/ i = k)
        BY <1>1, <1>2
      <4> QED
        BY <2>1, <4>1 DEF Ascending
    <3> QED
      BY <3>1
  <2>6. IsFiniteSet({i \in DOMAIN t : t[i] <= t[k]})
    <3>1. t[k] + 1 \in Nat /\ {i \in DOMAIN t : t[i] <= t[k]} = {i \in DOMAIN t : t[i] < t[k] + 1}
      BY <1>2, <2>1
    <3> QED
      BY <3>1, SmallerType
  <2>7. k <= NotLarger(t, t[k])
    BY <2>1, <2>5, <2>6, CountTo, FS_Subset DEF NotLarger
  <2>8. Smaller(t, t[k]) \in Nat
    <3>1. Smaller(t, t[k]) \in 0 .. Len(t)
      BY <2>1, SmallerType
    <3> QED
      BY <3>1
  <2> QED
    BY <2>1, <2>2, <2>4, <2>7, <2>8 DEF Ranks
<1>4. ASSUME NEW k \in 1 .. Len(s)
      PROVE  t[k] = Sorted(s)[k]
  <2>1. k \in Nat /\ k <= k /\ t[k] \in Nat /\ Sorted(s)[k] \in Nat
    BY <1>1, <1>3
  <2>2. t[k] <= Sorted(s)[k] /\ Sorted(s)[k] <= t[k]
    BY <1>1, <1>3, <2>1, RanksOrdered
  <2> QED
    BY <2>1, <2>2
<1> QED
  BY <1>1, <1>2, <1>4, SameLists

-----------------------------------------------------------------------------
(* GetBlockSizes: one size is taken out and one put in.                      *)

LEMMA WithoutAscending ==
    ASSUME NEW s \in Seq(Nat), NEW k \in 1 .. Len(s), Ascending(s)
    PROVE  Ascending(Without(s, k))
<1>1. Len(s) \in Nat /\ DOMAIN s = 1 .. Len(s)
  OBVIOUS
<1> SUFFICES ASSUME NEW i \in 1 .. Len(s) - 1, NEW j \in 1 .. Len(s) - 1, i < j
             PROVE  Without(s, k)[i] <= Without(s, k)[j]
  BY <1>1 DEF Ascending, Without
<1>2. PICK p \in DOMAIN s : p = IF i < k THEN i ELSE i + 1
  BY <1>1
<1>3. PICK q \in DOMAIN s : q = IF j < k THEN j ELSE j + 1
  BY <1>1
<1>4. p < q
  BY <1>1, <1>2, <1>3
<1>5. Without(s, k)[i] = s[p] /\ Without(s, k)[j] = s[q]
  BY <1>1, <1>2, <1>3 DEF Without
<1> QED
  BY <1>4, <1>5 DEF Ascending

\* In a list that is in order the smaller sizes come first.
LEMMA SmallerFirst ==
    ASSUME NEW s \in Seq(Nat), Ascending(s), NEW x \in Nat, NEW i \in DOMAIN s
    PROVE  s[i] < x <=> i <= Smaller(s, x)
<1>1. Len(s) \in Nat /\ DOMAIN s = 1 .. Len(s) /\ i \in Nat /\ 1 <= i /\ i - 1 \in Nat /\ s[i] \in Nat
  OBVIOUS
<1> DEFINE A == {j \in DOMAIN s : s[j] < x}
<1>2. IsFiniteSet(A) /\ Smaller(s, x) = Cardinality(A) /\ Cardinality(A) \in Nat
  <2>1. IsFiniteSet(A)
    BY SmallerType
  <2> QED
    BY <2>1, FS_CardinalityType DEF Smaller
<1>3. CASE s[i] < x
  <2>1. ASSUME NEW j \in 1 .. i
        PROVE  j \in A
    <3>1. j \in DOMAIN s /\ (j = i \/ j < i) /\ s[j] \in Nat
      BY <1>1
    <3>2. s[j] <= s[i]
      BY <1>1, <3>1 DEF Ascending
    <3> QED
      BY <1>1, <1>3, <3>1, <3>2
  <2>2. 1 .. i \in SUBSET A
    BY <2>1
  <2> HIDE DEF A
  <2>3. Cardinality(1 .. i) <= Cardinality(A)
    BY <1>2, <2>2, FS_Subset
  <2>4. Cardinality(1 .. i) = i
    BY <1>1, CountTo
  <2> QED
    BY <1>2, <1>3, <2>3, <2>4
<1>4. CASE ~ (s[i] < x)
  <2>1. ASSUME NEW j \in A
        PROVE  j \in 1 .. i - 1
    <3>1. j \in DOMAIN s /\ s[j] < x /\ s[j] \in Nat
      BY <1>1
    <3>2. j # i /\ ~ (s[i] <= s[j])
      BY <1>1, <1>4, <3>1
    <3>3. ~ (i < j)
      BY <1>1, <3>1, <3>2 DEF Ascending
    <3> QED
      BY <1>1, <3>1, <3>2, <3>3
  <2>2. A \in SUBSET (1 .. i - 1)
    BY <2>1
  <2> HIDE DEF A
  <2>3. Cardinality(A) <= Cardinality(1 .. i - 1)
    BY <1>1, <2>2, CountTo, FS_Subset
  <2>4. Cardinality(1 .. i - 1) = i - 1
    BY <1>1, CountTo
  <2> QED
    BY <1>1, <1>2, <1>4, <2>3, <2>4
<1> QED
  BY <1>3, <1>4

LEMMA InsertedType ==
    ASSUME NEW s \in Seq(Nat), NEW x \in Nat, NEW r \in Inserted(s, x)
    PROVE  r \in Seq(Nat) /\ Len(r) = Len(s) + 1
<1>1. Len(s) \in Nat /\ Smaller(s, x) \in 0 .. Len(s)
  <2>1. Len(s) \in Nat
    OBVIOUS
  <2> QED
    BY <2>1, SmallerType
<1>2. PICK k \in 1 .. Len(s) + 1 : r = InsertAt(s, k, x)
  <2>1. Smaller(s, x) + 1 \in 1 .. Len(s) + 1
    BY <1>1
  <2> QED
    BY <2>1 DEF Inserted
<1> QED
  BY <1>2, InsertAtIs

LEMMA InsertedInOrder ==
    ASSUME NEW s \in Seq(Nat), NEW x \in Nat, NEW r \in Inserted(s, x), Ascending(s)
    PROVE  /\ Ascending(r)
           /\ \A y \in Nat : Smaller(r, y) = Smaller(s, y) + (IF x < y THEN 1 ELSE 0)
<1>1. Len(s) \in Nat /\ DOMAIN s = 1 .. Len(s) /\ \A i \in DOMAIN s : s[i] \in Nat
  OBVIOUS
<1>2. \A i, j \in DOMAIN s : (i < j /\ s[j] < x) => s[i] < x
  BY <1>1 DEF Ascending
<1>3. PICK k : k = Smaller(s, x) + 1
  OBVIOUS
<1>4. r = InsertAt(s, k, x)
  BY <1>2, <1>3 DEF Inserted
<1>5. k \in 1 .. Len(s) + 1
  <2>1. Smaller(s, x) \in 0 .. Len(s)
    BY SmallerType
  <2> QED
    BY <1>1, <1>3, <2>1
<1>6. /\ r \in Seq(Nat) /\ Len(r) = Len(s) + 1 /\ Without(r, k) = s
      /\ \A i \in 1 .. Len(s) + 1 :
            r[i] = IF i < k THEN s[i] ELSE IF i = k THEN x ELSE s[i - 1]
  <2> DEFINE t == InsertAt(s, k, x)
  <2>1. /\ t \in Seq(Nat) /\ Len(t) = Len(s) + 1 /\ Without(t, k) = s
        /\ \A i \in 1 .. Len(s) + 1 :
              t[i] = IF i < k THEN s[i] ELSE IF i = k THEN x ELSE s[i - 1]
    BY <1>5, InsertAtIs
  <2>2. r = t
    BY <1>4
  <2> HIDE DEF t
  <2> QED
    BY <2>1, <2>2
<1>7. \A i \in DOMAIN s : s[i] < x <=> i < k
  <2>1. \A i \in DOMAIN s : s[i] < x <=> i <= Smaller(s, x)
    BY SmallerFirst
  <2>2. Smaller(s, x) \in 0 .. Len(s)
    BY SmallerType
  <2> QED
    BY <1>1, <1>3, <2>1, <2>2
<1>8. Ascending(r)
  <2> SUFFICES ASSUME NEW i \in 1 .. Len(s) + 1, NEW j \in 1 .. Len(s) + 1, i < j
               PROVE  r[i] <= r[j]
    BY <1>6 DEF Ascending
  <2>1. CASE j < k
    <3>1. i \in DOMAIN s /\ j \in DOMAIN s /\ r[i] = s[i] /\ r[j] = s[j]
      BY <1>1, <1>5, <1>6, <2>1
    <3> QED
      BY <3>1 DEF Ascending
  <2>2. CASE j = k
    <3>1. i \in DOMAIN s /\ r[i] = s[i] /\ r[j] = x /\ i < k
      BY <1>1, <1>5, <1>6, <2>2
    <3> QED
      BY <1>1, <1>7, <3>1
  <2>3. CASE k < j
    <3>1. j - 1 \in DOMAIN s /\ ~ (j < k) /\ j # k /\ r[j] = s[j - 1] /\ ~ (j - 1 < k)
      BY <1>1, <1>5, <1>6, <2>3
    <3>2. s[j - 1] \in Nat /\ x <= s[j - 1]
      BY <1>1, <1>7, <3>1, SMTT(20)
    <3>3. CASE i < k
      <4>1. i \in DOMAIN s /\ r[i] = s[i] /\ i < j - 1
        BY <1>1, <1>5, <1>6, <2>3, <3>3
      <4> QED
        BY <3>1, <4>1 DEF Ascending
    <3>4. CASE i = k
      <4>1. r[i] = x
        BY <1>5, <1>6, <3>4
      <4> QED
        BY <3>1, <3>2, <4>1
    <3>5. CASE k < i
      <4>1. i - 1 \in DOMAIN s /\ ~ (i < k) /\ i # k /\ r[i] = s[i - 1] /\ i - 1 < j - 1
        BY <1>1, <1>5, <1>6, <3>5
      <4> QED
        BY <3>1, <4>1 DEF Ascending
    <3> QED
      BY <1>5, <3>3, <3>4, <3>5
  <2> QED
    BY <1>5, <2>1, <2>2, <2>3
<1>9. k \in 1 .. Len(r) /\ r[k] = x
  BY <1>5, <1>6
<1> QED
  BY <1>6, <1>8, <1>9, WithoutCounts

LEMMA ReplacedType ==
    ASSUME NEW s \in Seq(Nat), NEW old, NEW new \in Nat, NEW r \in Replaced(s, old, new)
    PROVE  r \in Seq(Nat) /\ Len(r) = Len(s)
<1>1. CASE old \notin Range(s)
  BY <1>1 DEF Replaced
<1>2. CASE old \in Range(s)
  <2>1. PICK k \in 1 .. Len(s) : s[k] = old /\ RemoveFirst(s, old) = Without(s, k)
    BY <1>2, RemoveFirstIsWithout
  <2>2. Without(s, k) \in Seq(Nat) /\ Len(Without(s, k)) = Len(s) - 1
    BY WithoutCounts
  <2>3. r \in Inserted(Without(s, k), new)
    BY <1>2, <2>1 DEF Replaced
  <2>4. r \in Seq(Nat) /\ Len(r) = Len(s) - 1 + 1
    BY <2>2, <2>3, InsertedType
  <2>5. Len(s) \in Nat
    OBVIOUS
  <2> QED
    BY <2>4, <2>5
<1> QED
  BY <1>1, <1>2

LEMMA ReplacedInOrder ==
    ASSUME NEW s \in Seq(Nat), NEW old \in Range(s), NEW new \in Nat,
           NEW r \in Replaced(s, old, new), Ascending(s)
    PROVE  /\ Ascending(r)
           /\ \A y \in Nat : Smaller(r, y) + (IF old < y THEN 1 ELSE 0)
                             = Smaller(s, y) + (IF new < y THEN 1 ELSE 0)
<1>1. PICK k \in 1 .. Len(s) : s[k] = old /\ RemoveFirst(s, old) = Without(s, k)
  BY RemoveFirstIsWithout
<1> DEFINE w == Without(s, k)
<1>2. /\ w \in Seq(Nat) /\ Ascending(w)
      /\ \A y \in Nat : Smaller(s, y) = Smaller(w, y) + (IF old < y THEN 1 ELSE 0)
  BY <1>1, WithoutCounts, WithoutAscending
<1> HIDE DEF w
<1>3. r \in Inserted(w, new)
  BY <1>1 DEF Replaced, w
<1>4. Ascending(r) /\ \A y \in Nat : Smaller(r, y) = Smaller(w, y) + (IF new < y THEN 1 ELSE 0)
  BY <1>2, <1>3, InsertedInOrder
<1>5. \A y \in Nat : Smaller(w, y) \in Nat
  <2> SUFFICES ASSUME NEW y \in Nat PROVE Smaller(w, y) \in Nat
    OBVIOUS
  <2>1. Smaller(w, y) \in 0 .. Len(w)
    BY <1>2, SmallerType
  <2> QED
    BY <2>1
<1>6. ASSUME NEW y \in Nat
      PROVE  Smaller(r, y) + (IF old < y THEN 1 ELSE 0) = Smaller(s, y) + (IF new < y THEN 1 ELSE 0)
  <2>1. /\ Smaller(s, y) = Smaller(w, y) + (IF old < y THEN 1 ELSE 0)
        /\ Smaller(r, y) = Smaller(w, y) + (IF new < y THEN 1 ELSE 0) /\ Smaller(w, y) \in Nat
    BY <1>2, <1>4, <1>5
  <2> QED
    BY <2>1
<1> QED
  BY <1>4, <1>6

-----------------------------------------------------------------------------
(* FindBlockByHeight.                                                        *)

\* Every next link leads one block up along a branch; some may be missing.
LinksWithin(next, b) ==
    \A c \in Block : next[c] # NoBlock =>
        c \in Branch[b] /\ c # b /\ next[c] = Ancestor(b, Height[c] + 1)

\* The loop over pnext, which tlapm takes for a choice of a function that
\* satisfies its equation.
Climb(up, start) ==
    [n \in Nat |->
        IF n <= Height[start] THEN start
        ELSE IF up[n - 1] = NoBlock THEN NoBlock ELSE pnext[up[n - 1]]]

LEMMA ClimbExists ==
    ASSUME NEW b \in Block, NEW start \in Block, LinksWithin(pnext, b)
    PROVE  \E up : up = Climb(up, start)
<1> DEFINE low == Height[start]
           Reached(n) == /\ start \in Branch[b]
                         /\ \A k \in low .. n - 1 :
                               k < Height[b] /\ pnext[Ancestor(b, k)] # NoBlock
           up == [n \in Nat |-> IF n <= low THEN start
                                ELSE IF Reached(n) THEN Ancestor(b, n) ELSE NoBlock]
<1>1. low \in Nat /\ Height[b] \in Nat
  BY BranchType
<1>2. ASSUME NEW n \in Nat, ~ (n <= low)
      PROVE  up[n] = IF up[n - 1] = NoBlock THEN NoBlock ELSE pnext[up[n - 1]]
  <2>1. n - 1 \in Nat /\ low <= n - 1 /\ n - 1 + 1 = n
    BY <1>1, <1>2
  <2>2. up[n] = IF Reached(n) THEN Ancestor(b, n) ELSE NoBlock
    BY <1>2
  <2>3. CASE start \notin Branch[b]
    <3>1. up[n] = NoBlock
      BY <2>2, <2>3
    <3>2. pnext[start] = NoBlock
      BY <2>3 DEF LinksWithin
    <3>3. up[n - 1] = start \/ up[n - 1] = NoBlock
      BY <2>1, <2>3
    <3> QED
      BY <3>1, <3>2, <3>3
  <2>4. CASE start \in Branch[b]
    <3>1. start = Ancestor(b, low)
      BY <2>4, AncestorAt
    <3>2. Reached(n) <=> /\ \A k \in low .. n - 2 :
                               k < Height[b] /\ pnext[Ancestor(b, k)] # NoBlock
                         /\ n - 1 < Height[b] /\ pnext[Ancestor(b, n - 1)] # NoBlock
      <4>1. \A k : k \in low .. n - 1 <=> k \in low .. n - 2 \/ k = n - 1
        BY <1>1, <2>1
      <4> QED
        BY <2>4, <4>1
    <3>3. CASE n - 1 <= low
      <4>1. n - 1 = low /\ up[n - 1] = start
        BY <1>1, <2>1, <3>3
      <4>2. low .. n - 2 = {}
        BY <1>1, <4>1
      <4>3. Reached(n) <=> low < Height[b] /\ pnext[start] # NoBlock
        BY <3>1, <3>2, <4>1, <4>2
      <4>4. pnext[start] # NoBlock => pnext[start] = Ancestor(b, low + 1) /\ low < Height[b]
        BY <2>4, AncestorsBelow DEF LinksWithin
      <4>5. start # NoBlock /\ low + 1 = n
        BY <4>1, ChainAssumption, <2>1
      <4> QED
        BY <2>2, <4>1, <4>3, <4>4, <4>5
    <3>4. CASE ~ (n - 1 <= low)
      <4>1. up[n - 1] = IF Reached(n - 1) THEN Ancestor(b, n - 1) ELSE NoBlock
        BY <2>1, <3>4
      <4>2. Reached(n - 1) <=> \A k \in low .. n - 2 :
                                   k < Height[b] /\ pnext[Ancestor(b, k)] # NoBlock
        <5>1. n - 1 - 1 = n - 2
          BY <2>1
        <5> QED
          BY <2>4, <5>1
      <4>3. CASE ~ Reached(n - 1)
        <5>1. ~ Reached(n)
          BY <3>2, <4>2, <4>3
        <5> HIDE DEF Reached, up
        <5> QED
          BY <2>2, <4>1, <4>3, <5>1
      <4>4. CASE Reached(n - 1)
        <5>1. n - 2 \in low .. n - 2
          BY <1>1, <2>1, <3>4
        <5>2. n - 1 \in 0 .. Height[b]
          BY <1>1, <2>1, <4>2, <4>4, <5>1
        <5>3. PICK a : a = Ancestor(b, n - 1)
          OBVIOUS
        <5>4. a \in Branch[b] /\ a \in Block /\ Height[a] = n - 1 /\ a # NoBlock
          BY <5>2, <5>3, AncestorOf, ChainAssumption
        <5>5. up[n - 1] = a
          BY <4>1, <4>4, <5>3
        <5>6. pnext[a] # NoBlock => /\ pnext[a] = Ancestor(b, n) /\ n - 1 < Height[b]
          BY <2>1, <5>4, AncestorsBelow DEF LinksWithin
        <5>7. Reached(n) <=> n - 1 < Height[b] /\ pnext[a] # NoBlock
          BY <3>2, <4>2, <4>4, <5>3
        <5> HIDE DEF Reached, up
        <5> QED
          BY <2>2, <5>4, <5>5, <5>6, <5>7
      <4> QED
        BY <4>3, <4>4
    <3> QED
      BY <3>3, <3>4
  <2> QED
    BY <2>3, <2>4
<1>3. \A n \in Nat : up[n] = IF n <= Height[start] THEN start
                             ELSE IF up[n - 1] = NoBlock THEN NoBlock ELSE pnext[up[n - 1]]
  <2>1. \A n \in Nat : n <= low => up[n] = start
    OBVIOUS
  <2> HIDE DEF up, Reached
  <2> QED
    BY <1>2, <2>1
<1>4. up = [n \in Nat |-> up[n]]
  OBVIOUS
<1> HIDE DEF up, Reached
<1>5. up = Climb(up, start)
  BY <1>3, <1>4 DEF Climb
<1> QED
  BY <1>5

\* The loop stays on the branch the next links lie on, and ends early only at
\* a missing link.
LEMMA ClimbStays ==
    ASSUME NEW b \in Block, NEW start \in Block, LinksWithin(pnext, b),
           NEW up, up = Climb(up, start), NEW h \in Nat, Height[start] < h
    PROVE  \/ up[h] = NoBlock
           \/ start \in Branch[b] /\ h \in 0 .. Height[b] /\ up[h] = Ancestor(b, h)
<1> DEFINE low == Height[start]
           Good(n) == \/ up[n] = NoBlock
                      \/ start \in Branch[b] /\ n \in 0 .. Height[b] /\ up[n] = Ancestor(b, n)
           bad == {n \in Nat : low < n /\ ~ Good(n)}
<1>1. low \in Nat /\ Height[b] \in Nat
  BY BranchType
<1>2. \A n \in Nat : up[n] = IF n <= low THEN start
                             ELSE IF up[n - 1] = NoBlock THEN NoBlock ELSE pnext[up[n - 1]]
  <2>1. \A n \in Nat : Climb(up, start)[n] =
            IF n <= low THEN start
            ELSE IF up[n - 1] = NoBlock THEN NoBlock ELSE pnext[up[n - 1]]
    BY DEF Climb
  <2> QED
    BY <2>1, Zenon
<1>3. SUFFICES ASSUME bad # {} PROVE FALSE
  OBVIOUS
<1>4. PICK n \in bad : \A k \in bad : n <= k
  <2>1. bad \in SUBSET Nat
    OBVIOUS
  <2> HIDE DEF bad
  <2> QED
    BY <1>3, <2>1, LeastNat
<1>5. n \in Nat /\ low < n /\ ~ Good(n) /\ n - 1 \in Nat /\ low <= n - 1 /\ n - 1 + 1 = n
      /\ n - 1 \notin bad
  <2>1. n \in Nat /\ low < n /\ ~ Good(n)
    OBVIOUS
  <2>2. n - 1 \in Nat /\ low <= n - 1 /\ n - 1 + 1 = n /\ ~ (n <= n - 1)
    BY <1>1, <2>1
  <2> HIDE DEF bad
  <2> QED
    BY <1>4, <2>1, <2>2
<1>6. up[n - 1] # NoBlock /\ up[n] = pnext[up[n - 1]] /\ up[n] # NoBlock
  BY <1>1, <1>2, <1>5
<1>7. PICK a : a = up[n - 1]
  OBVIOUS
<1>8. a \in Block /\ Height[a] = n - 1 /\ (a \in Branch[b] => start \in Branch[b])
  <2>1. CASE n - 1 <= low
    <3>1. n - 1 = low /\ a = start
      BY <1>1, <1>2, <1>5, <1>7, <2>1
    <3> QED
      BY <3>1
  <2>2. CASE ~ (n - 1 <= low)
    <3>1. Good(n - 1)
      BY <1>1, <1>5, <2>2
    <3>2. start \in Branch[b] /\ n - 1 \in 0 .. Height[b] /\ a = Ancestor(b, n - 1)
      BY <1>6, <1>7, <3>1
    <3> QED
      BY <3>2, AncestorOf
  <2> QED
    BY <2>1, <2>2
<1>9. pnext[a] # NoBlock
  BY <1>6, <1>7
<1>10. a \in Branch[b] /\ a # b /\ pnext[a] = Ancestor(b, n)
  BY <1>5, <1>8, <1>9 DEF LinksWithin
<1>11. n \in 0 .. Height[b]
  BY <1>1, <1>5, <1>8, <1>10, AncestorsBelow
<1> QED
  BY <1>5, <1>6, <1>7, <1>8, <1>10, <1>11
\* When no link is missing it reaches every height of the chain.
LEMMA ClimbReaches ==
    ASSUME NEW tip \in Block, NoGap(tip), NEW start \in Branch[tip],
           NEW up, up = Climb(up, start),
           NEW h \in Nat, Height[start] <= h, h <= Height[tip]
    PROVE  up[h] = Ancestor(tip, h)
<1> DEFINE low == Height[start]
           Good(n) == up[n] = Ancestor(tip, n)
           bad == {n \in Nat : low <= n /\ n <= Height[tip] /\ ~ Good(n)}
<1>1. low \in Nat /\ Height[tip] \in Nat /\ start \in Block
  BY BranchType
<1>2. \A n \in Nat : up[n] = IF n <= low THEN start
                             ELSE IF up[n - 1] = NoBlock THEN NoBlock ELSE pnext[up[n - 1]]
  <2>1. \A n \in Nat : Climb(up, start)[n] =
            IF n <= low THEN start
            ELSE IF up[n - 1] = NoBlock THEN NoBlock ELSE pnext[up[n - 1]]
    BY DEF Climb
  <2> QED
    BY <2>1, Zenon
<1>3. SUFFICES ASSUME bad # {} PROVE FALSE
  OBVIOUS
<1>4. PICK n \in bad : \A k \in bad : n <= k
  <2>1. bad \in SUBSET Nat
    OBVIOUS
  <2> HIDE DEF bad
  <2> QED
    BY <1>3, <2>1, LeastNat
<1>5. n \in Nat /\ low <= n /\ n <= Height[tip] /\ ~ Good(n)
  OBVIOUS
<1>6. low < n
  <2>1. up[low] = start /\ start = Ancestor(tip, low)
    BY <1>1, <1>2, AncestorAt
  <2>2. n # low
    BY <1>5, <2>1
  <2> QED
    BY <1>1, <1>5, <2>2
<1>7. n - 1 \in Nat /\ low <= n - 1 /\ n - 1 <= Height[tip] /\ n \in 1 .. Height[tip]
      /\ n - 1 \in 0 .. Height[tip] /\ ~ (n <= n - 1)
  BY <1>1, <1>5, <1>6
<1>8. up[n - 1] = Ancestor(tip, n - 1)
  <2>1. n - 1 \notin bad
    <3> HIDE DEF bad
    <3> QED
      BY <1>4, <1>7
  <2> QED
    BY <1>7, <2>1
<1>9. PICK a : a = Ancestor(tip, n - 1)
  OBVIOUS
<1>10. PICK c : c = Ancestor(tip, n)
  OBVIOUS
<1>11. c \in Branch[tip] \ {Genesis} /\ Parent[c] = a
  BY <1>7, <1>9, <1>10, AncestorStep
<1>12. pnext[a] = c
  BY <1>11 DEF NoGap
<1>13. a # NoBlock
  BY <1>7, <1>9, AncestorOf, ChainAssumption
<1> QED
  BY <1>1, <1>2, <1>5, <1>6, <1>8, <1>9, <1>10, <1>12, <1>13

\* Where the search starts.
LEMMA StartBlock ==
    ASSUME best \in Block, NEW last \in Block \cup {NoBlock}, NEW h
    PROVE  /\ SearchFrom(last, h) \in Block
           /\ SearchFrom(last, h) \in Branch[best] \/ SearchFrom(last, h) = last
<1>1. Genesis \in Branch[best] /\ best \in Branch[best] /\ Genesis \in Block
  BY GenesisBelow, BranchType, TreeAssumption
<1> QED
  BY <1>1 DEF SearchFrom

LEMMA FindIsClimb ==
    ASSUME NEW b \in Block, LinksWithin(pnext, b), NEW last, NEW h,
           NEW start \in Block, start = SearchFrom(last, h)
    PROVE  \E up : /\ up = Climb(up, start)
                   /\ FindBlockByHeight(last, h) =
                          IF h <= Height[start] THEN Ancestor(start, h) ELSE up[h]
<1>1. \E up : up = Climb(up, start)
  BY ClimbExists
<1> DEFINE up == CHOOSE f : f = Climb(f, start)
<1>2. up = Climb(up, start)
  BY <1>1
<1>3. FindBlockByHeight(last, h) = IF h <= Height[start] THEN Ancestor(start, h) ELSE up[h]
  BY DEF FindBlockByHeight, Climb
<1> QED
  BY <1>2, <1>3

\* A search that starts on the chain the next links lie on finds its block at
\* that height, or follows a missing link.
LEMMA FindOnTip ==
    ASSUME best \in Block, NEW tip \in Block, LinksWithin(pnext, tip), NEW h \in Nat,
           NEW last, SearchFrom(last, h) \in Branch[tip],
           NEW found, found = FindBlockByHeight(last, h)
    PROVE  /\ \/ found = NoBlock
              \/ h \in 0 .. Height[tip] /\ found = Ancestor(tip, h)
           /\ found = NoBlock /\ h <= Height[tip] => ~ NoGap(tip)
<1>1. PICK start : start = SearchFrom(last, h)
  OBVIOUS
<1>2. start \in Block /\ start \in Branch[tip]
  BY <1>1, BranchType
<1>3. Height[start] \in Nat /\ Height[tip] \in Nat /\ Height[start] <= Height[tip]
  <2>1. start = tip \/ Height[start] < Height[tip]
    BY <1>2, AncestorsBelow
  <2>2. Height[start] \in Nat /\ Height[tip] \in Nat
    BY <1>2, BranchType
  <2> QED
    BY <2>1, <2>2
<1>4. PICK up : /\ up = Climb(up, start)
                /\ found = IF h <= Height[start] THEN Ancestor(start, h) ELSE up[h]
  BY <1>1, <1>2, FindIsClimb
<1>5. CASE h <= Height[start]
  <2>1. h \in 0 .. Height[start] /\ h \in 0 .. Height[tip]
    BY <1>3, <1>5
  <2>2. found \in Branch[start] /\ found \in Block /\ Height[found] = h
    BY <1>2, <1>4, <1>5, <2>1, AncestorOf
  <2>3. found \in Branch[tip]
    BY <1>2, <2>2, BranchesNest
  <2>4. found = Ancestor(tip, h)
    BY <2>2, <2>3, AncestorAt
  <2> QED
    BY <2>1, <2>2, <2>4, ChainAssumption
<1>6. CASE ~ (h <= Height[start])
  <2>1. Height[start] < h /\ Height[start] <= h /\ found = up[h]
    BY <1>3, <1>4, <1>6
  <2>2. \/ found = NoBlock
        \/ h \in 0 .. Height[tip] /\ found = Ancestor(tip, h)
    BY <1>2, <1>4, <2>1, ClimbStays
  <2>3. ASSUME NoGap(tip), h <= Height[tip]
        PROVE  found # NoBlock
    <3>1. found = Ancestor(tip, h)
      BY <1>2, <1>4, <2>1, <2>3, ClimbReaches
    <3>2. h \in 0 .. Height[tip]
      BY <1>3, <2>3
    <3> QED
      BY <3>1, <3>2, AncestorOf, ChainAssumption
  <2> QED
    BY <2>2, <2>3
<1> QED
  BY <1>5, <1>6

\* One that starts elsewhere, on the best block's branch, stays there.
LEMMA FindOffTip ==
    ASSUME best \in Block, NEW tip \in Block, LinksWithin(pnext, tip), NEW h \in Nat,
           NEW last, SearchFrom(last, h) \in Branch[best] \ Branch[tip],
           NEW found, found = FindBlockByHeight(last, h)
    PROVE  IF h <= Height[SearchFrom(last, h)]
           THEN found = Ancestor(best, h) /\ found \in Branch[best]
           ELSE found = NoBlock
<1>1. PICK start : start = SearchFrom(last, h)
  OBVIOUS
<1>2. start \in Block /\ start \in Branch[best] /\ start \notin Branch[tip] /\ Height[start] \in Nat
  BY <1>1, BranchType
<1>3. PICK up : /\ up = Climb(up, start)
                /\ found = IF h <= Height[start] THEN Ancestor(start, h) ELSE up[h]
  BY <1>1, <1>2, FindIsClimb
<1>4. CASE h <= Height[start]
  <2>1. h \in 0 .. Height[start]
    BY <1>2, <1>4
  <2>2. found \in Branch[start] /\ Height[found] = h
    BY <1>2, <1>3, <1>4, <2>1, AncestorOf
  <2>3. found \in Branch[best]
    BY <1>2, <2>2, BranchesNest
  <2>4. found = Ancestor(best, h)
    BY <2>2, <2>3, AncestorAt
  <2> QED
    BY <1>1, <1>4, <2>3, <2>4
<1>5. CASE ~ (h <= Height[start])
  <2>1. Height[start] < h /\ found = up[h]
    BY <1>2, <1>3, <1>5
  <2>2. found = NoBlock
    BY <1>2, <1>3, <2>1, ClimbStays
  <2> QED
    BY <1>1, <1>5, <2>2
<1> QED
  BY <1>4, <1>5

\* Whatever it starts from it ends at a block or a null pointer.
LEMMA FindType ==
    ASSUME best \in Block, NEW b \in Block, LinksWithin(pnext, b), NEW h \in Nat,
           NEW last \in Block \cup {NoBlock}
    PROVE  FindBlockByHeight(last, h) \in Block \cup {NoBlock}
<1>1. PICK start : start = SearchFrom(last, h)
  OBVIOUS
<1>2. start \in Block /\ Height[start] \in Nat
  BY <1>1, StartBlock, BranchType
<1>3. PICK up : /\ up = Climb(up, start)
                /\ FindBlockByHeight(last, h) =
                       IF h <= Height[start] THEN Ancestor(start, h) ELSE up[h]
  BY <1>1, <1>2, FindIsClimb
<1>4. CASE h <= Height[start]
  <2>1. h \in 0 .. Height[start]
    BY <1>2, <1>4
  <2> QED
    BY <1>2, <1>3, <1>4, <2>1, AncestorOf
<1>5. CASE ~ (h <= Height[start])
  <2>1. Height[start] < h
    BY <1>2, <1>5
  <2>2. up[h] = NoBlock \/ (h \in 0 .. Height[b] /\ up[h] = Ancestor(b, h))
    BY <1>2, <1>3, <2>1, ClimbStays
  <2> QED
    BY <1>3, <1>5, <2>2, AncestorOf
<1> QED
  BY <1>4, <1>5

-----------------------------------------------------------------------------
(* The next links lie on the branch that is being connected.                 *)

LEMMA WithinWider ==
    ASSUME NEW b \in Block, NEW a \in Branch[b], NEW next, LinksWithin(next, a)
    PROVE  LinksWithin(next, b)
<1> SUFFICES ASSUME NEW c \in Block, next[c] # NoBlock
             PROVE  c \in Branch[b] /\ c # b /\ next[c] = Ancestor(b, Height[c] + 1)
  BY DEF LinksWithin
<1>1. c \in Branch[a] /\ c # a /\ next[c] = Ancestor(a, Height[c] + 1)
  BY DEF LinksWithin
<1>2. a \in Block /\ Branch[a] \subseteq Branch[b]
  BY BranchType, BranchesNest
<1>3. Height[c] \in Nat /\ Height[a] \in Nat /\ Height[b] \in Nat /\ Height[c] < Height[a]
      /\ Height[a] <= Height[b]
  <2>1. a = b \/ Height[a] < Height[b]
    BY AncestorsBelow
  <2>2. Height[c] < Height[a]
    BY <1>1, <1>2, AncestorsBelow
  <2> QED
    BY <1>2, <2>1, <2>2, BranchType
<1>4. Height[c] + 1 \in 0 .. Height[a]
  BY <1>3
<1>5. PICK d : d = Ancestor(a, Height[c] + 1)
  OBVIOUS
<1>6. d \in Branch[a] /\ d \in Block /\ Height[d] = Height[c] + 1
  BY <1>2, <1>4, <1>5, AncestorOf
<1>7. d \in Branch[b]
  BY <1>2, <1>6
<1>8. Ancestor(b, Height[d]) = d
  BY <1>7, AncestorAt
<1>9. c # b
  BY <1>3
<1> QED
  BY <1>1, <1>2, <1>5, <1>6, <1>8, <1>9

LEMMA WithinDisconnect ==
    ASSUME NEW b \in Block \ {Genesis}, NEW next \in [Block -> Block \cup {NoBlock}],
           LinksWithin(next, b)
    PROVE  LinksWithin([next EXCEPT ![Parent[b]] = NoBlock], Parent[b])
<1> DEFINE p == Parent[b]
           after == [next EXCEPT ![p] = NoBlock]
<1>1. p \in Block /\ p \in Branch[b] /\ Branch[b] = Branch[p] \cup {b} /\ p # b
  BY BranchTxs
<1>2. after[p] = NoBlock /\ \A c \in Block : c # p => after[c] = next[c]
  BY <1>1
<1> HIDE DEF after, p
<1> SUFFICES ASSUME NEW c \in Block, after[c] # NoBlock
             PROVE  c \in Branch[p] /\ c # p /\ after[c] = Ancestor(p, Height[c] + 1)
  BY DEF LinksWithin, after, p
<1>3. c # p /\ after[c] = next[c]
  BY <1>2
<1>4. c \in Branch[b] /\ c # b /\ next[c] = Ancestor(b, Height[c] + 1)
  BY <1>3 DEF LinksWithin
<1>5. c \in Branch[p]
  BY <1>1, <1>4
<1>6. Height[c] \in Nat /\ Height[p] \in Nat /\ Height[c] < Height[p]
  BY <1>1, <1>3, <1>5, BranchType, AncestorsBelow
<1>7. Height[c] + 1 \in 0 .. Height[p]
  BY <1>6
<1>8. PICK d : d = Ancestor(p, Height[c] + 1)
  OBVIOUS
<1>9. d \in Branch[p] /\ Height[d] = Height[c] + 1
  BY <1>1, <1>7, <1>8, AncestorOf
<1>10. d \in Branch[b]
  BY <1>1, <1>9
<1>11. Ancestor(b, Height[d]) = d
  BY <1>10, AncestorAt
<1> QED
  BY <1>3, <1>4, <1>5, <1>8, <1>9, <1>11

LEMMA WithinConnect ==
    ASSUME NEW b \in Block \ {Genesis}, NEW next, NEW after, LinksWithin(next, Parent[b]),
           after[Parent[b]] = b,
           \A c \in Block : c # Parent[b] => after[c] = next[c] \/ after[c] = NoBlock
    PROVE  LinksWithin(after, b)
<1>1. /\ Parent[b] \in Block /\ Parent[b] \in Branch[b] /\ Parent[b] # b
      /\ Height[b] = Height[Parent[b]] + 1
  BY BranchTxs, BranchType
<1>2. LinksWithin(next, b)
  BY <1>1, WithinWider
<1>3. Ancestor(b, Height[b]) = b
  BY BranchType, AncestorAt
<1> SUFFICES ASSUME NEW c \in Block, after[c] # NoBlock
             PROVE  c \in Branch[b] /\ c # b /\ after[c] = Ancestor(b, Height[c] + 1)
  BY DEF LinksWithin
<1>4. CASE c = Parent[b]
  BY <1>1, <1>3, <1>4
<1>5. CASE c # Parent[b]
  BY <1>2, <1>5 DEF LinksWithin
<1> QED
  BY <1>4, <1>5

LEMMA WithinRelinked ==
    ASSUME best \in Block, NEW b \in Block, LinksWithin(pnext, best)
    PROVE  LinksWithin(Relinked(ForkOf(best, b), b), b)
<1> DEFINE f == ForkOf(best, b)
           after == Relinked(f, b)
<1>1. /\ f \in Block /\ f \in Branch[best] /\ f \in Branch[b]
      /\ Branch[f] = Branch[best] \cap Branch[b]
  BY ForkIsTip
<1> HIDE DEF f
<1>2. ASSUME NEW c \in Block
      PROVE  after[c] =
               IF c \in Branch[b] /\ c # b /\ Height[c] >= Height[f]
               THEN Ancestor(b, Height[c] + 1)
               ELSE IF c \in Branch[best] /\ Height[c] >= Height[f] /\ c # best
                    THEN NoBlock ELSE pnext[c]
  BY DEF Relinked
<1> HIDE DEF after
<1> SUFFICES ASSUME NEW c \in Block, after[c] # NoBlock
             PROVE  c \in Branch[b] /\ c # b /\ after[c] = Ancestor(b, Height[c] + 1)
  BY DEF LinksWithin, after, f
<1>3. CASE c \in Branch[b] /\ c # b /\ Height[c] >= Height[f]
  BY <1>2, <1>3
<1>4. CASE ~ (c \in Branch[b] /\ c # b /\ Height[c] >= Height[f])
  <2>1. after[c] = pnext[c] /\ ~ (c \in Branch[best] /\ Height[c] >= Height[f] /\ c # best)
    BY <1>2, <1>4
  <2>2. c \in Branch[best] /\ c # best /\ pnext[c] = Ancestor(best, Height[c] + 1)
    BY <2>1 DEF LinksWithin
  <2>3. Height[c] \in Nat /\ Height[f] \in Nat /\ Height[c] < Height[f] /\ Height[c] <= Height[f]
    BY <1>1, <2>1, <2>2, BranchType
  <2>4. c \in Branch[f] /\ c # f
    BY <1>1, <2>2, <2>3, BranchIsAChain
  <2>5. Height[c] + 1 \in 0 .. Height[f]
    BY <2>3
  <2>6. PICK d : d = Ancestor(f, Height[c] + 1)
    OBVIOUS
  <2>7. d \in Branch[f] /\ Height[d] = Height[c] + 1
    BY <1>1, <2>5, <2>6, AncestorOf
  <2>8. d \in Branch[best] /\ d \in Branch[b]
    BY <1>1, <2>7
  <2>9. Ancestor(best, Height[d]) = d /\ Ancestor(b, Height[d]) = d
    BY <2>8, AncestorAt
  <2>10. c \in Branch[b] /\ Height[b] \in Nat
    BY <1>1, <2>4, BranchType
  <2>11. c # b
    <3>1. f = b \/ Height[f] < Height[b]
      BY <1>1, AncestorsBelow
    <3> QED
      BY <2>3, <3>1
  <2> QED
    BY <2>1, <2>2, <2>7, <2>9, <2>10, <2>11
<1> QED
  BY <1>3, <1>4

-----------------------------------------------------------------------------
(* The views of SetBestChain keep to that branch as well.                    *)

\* The stored links lead along the branch of the stored best block, those in
\* memory along the chain that is being connected; a link may be missing.
ChainInv ==
    /\ BehindInv /\ TableInv
    /\ LinksWithin(dbNext, dbBest) /\ LinksWithin(pnext, CurrentTip)

LEMMA DisconnectWithin ==
    ASSUME NEW v \in ViewSet, NEW b \in Block \ {Genesis}, LinksWithin(v.next, b)
    PROVE  LinksWithin(DisconnectBlock(v, b).next, Parent[b])
<1>1. DisconnectBlock(v, b).next = [v.next EXCEPT ![Parent[b]] = NoBlock]
  BY DisconnectFields
<1>2. v.next \in [Block -> Block \cup {NoBlock}]
  BY ViewFields
<1> QED
  BY <1>1, <1>2, WithinDisconnect

LEMMA ConnectWithin ==
    ASSUME TableInv, NEW v \in ViewSet, NEW b \in Block \ {Genesis}, pnext[b] = NoBlock,
           LinksWithin(v.next, Parent[b])
    PROVE  ConnectBlock(v, b) \in ViewSet /\ LinksWithin(ConnectBlock(v, b).next, b)
<1> DEFINE w == ConnectBlock(v, b)
<1>1. /\ w \in ViewSet
      /\ ~ w.ok => w = [v EXCEPT !.ok = FALSE]
      /\ w.ok => w.next = [v.next EXCEPT ![b] = pnext[b], ![Parent[b]] = b]
  BY ConnectFields
<1> HIDE DEF w
<1>2. Parent[b] \in Block /\ Parent[b] \in Branch[b] /\ Parent[b] # b
  BY BranchTxs
<1>3. CASE ~ w.ok
  <2>1. w.next = v.next
    BY <1>1, <1>3, ViewWithOk
  <2> QED
    BY <1>1, <1>2, <2>1, WithinWider DEF w
<1>4. CASE w.ok
  <2>1. v.next \in [Block -> Block \cup {NoBlock}]
    BY ViewFields
  <2>2. /\ w.next[Parent[b]] = b
        /\ \A c \in Block : c # Parent[b] => w.next[c] = v.next[c] \/ w.next[c] = NoBlock
    BY <1>1, <1>2, <1>4, <2>1
  <2> QED
    BY <1>1, <2>2, WithinConnect DEF w
<1> QED
  BY <1>3, <1>4

LEMMA UnwoundWithin ==
    ASSUME ChainInv, cursor = NoBlock, NEW b \in Block
    PROVE  Unwound(b) \in ViewSet /\ LinksWithin(Unwound(b).next, ForkOf(best, b))
<1> DEFINE f == ForkOf(best, b)
           n == Height[best] - Height[f]
           down == Reverse(Path(f, best))
           V == [i \in 0 .. n |->
                    {v \in ViewSet : LinksWithin(v.next, Ancestor(best, Height[best] - i))}]
<1>1. best \in Block /\ dbBest \in Block /\ dbBest \in Branch[best] /\ TableInv
  BY DEF ChainInv, BehindInv, WorkInv
<1>2. f \in Branch[best]
  BY <1>1, ForkIsTip
<1>3. n \in Nat /\ Height[best] \in Nat /\ Height[f] \in Nat
  BY <1>1, <1>2, PathBlocks, BranchType
<1>4. /\ DOMAIN down = 1 .. n
      /\ \A i \in 1 .. n : /\ down[i] = Ancestor(best, Height[best] - (i - 1))
                           /\ down[i] \in Block \ {Genesis}
                           /\ Parent[down[i]] = Ancestor(best, Height[best] - i)
  BY <1>1, <1>2, ReversePath
<1>5. Ancestor(best, Height[best]) = best /\ Ancestor(best, Height[f]) = f
  BY <1>1, <1>2, AncestorAt, BranchType
<1>6. Height[best] - 0 = Height[best] /\ Height[best] - n = Height[f]
  BY <1>3
<1>7. View \in ViewSet /\ LinksWithin(View.next, best)
  BY <1>1, ViewOfTables, WithinWider DEF ChainInv
<1> HIDE DEF f, n, down
<1>8. 0 \in 0 .. n /\ n \in 0 .. n
  BY <1>3
<1>9. View \in V[0]
  <2>1. LinksWithin(View.next, Ancestor(best, Height[best] - 0))
    BY <1>5, <1>6, <1>7
  <2> QED
    BY <1>7, <1>8, <2>1
<1>10. \A v \in ViewSet : \A i \in 1 .. n : DisconnectBlock(v, down[i]) \in ViewSet
  BY <1>4, DisconnectFields
<1>11. \A i \in 1 .. n : \A v \in V[i - 1] :
          v \in ViewSet => DisconnectBlock(v, down[i]) \in V[i]
  <2> SUFFICES ASSUME NEW i \in 1 .. n, NEW v \in V[i - 1]
               PROVE  DisconnectBlock(v, down[i]) \in V[i]
    OBVIOUS
  <2>1. i \in 0 .. n /\ i - 1 \in 0 .. n
    BY <1>3
  <2>2. v \in ViewSet /\ LinksWithin(v.next, down[i])
    BY <1>4, <2>1
  <2>3. LinksWithin(DisconnectBlock(v, down[i]).next, Ancestor(best, Height[best] - i))
    BY <1>4, <2>2, DisconnectWithin
  <2> QED
    BY <1>10, <2>1, <2>2, <2>3
<1> HIDE DEF V
<1>12. FoldLeft(DisconnectBlock, View, down) \in ViewSet \cap V[n]
  BY <1>3, <1>4, <1>7, <1>9, <1>10, <1>11, UnwindFold
<1>13. Unwound(b) \in ViewSet /\ Unwound(b) \in V[n]
  BY <1>12 DEF Unwound, down, f
<1>14. LinksWithin(Unwound(b).next, Ancestor(best, Height[best] - n))
  BY <1>8, <1>13 DEF V
<1> QED
  BY <1>5, <1>6, <1>13, <1>14 DEF f

-----------------------------------------------------------------------------
(* ComputeBlockSize.                                                         *)

CalculatorSet ==
    [sizes : {s \in Seq(Nat) : Len(s) \in {0, Past}}, sorted : BOOLEAN, limit : Nat,
     last : Block \cup {NoBlock}, alive : BOOLEAN]

LEMMA CalculatorFields ==
    ASSUME NEW c \in CalculatorSet
    PROVE  /\ c.sizes \in Seq(Nat) /\ Len(c.sizes) \in {0, Past} /\ c.sorted \in BOOLEAN
           /\ c.limit \in Nat /\ c.last \in Block \cup {NoBlock} /\ c.alive \in BOOLEAN
           /\ c = [sizes |-> c.sizes, sorted |-> c.sorted, limit |-> c.limit,
                   last |-> c.last, alive |-> c.alive]
  BY DEF CalculatorSet

LEMMA FieldChanged ==
    ASSUME NEW S, NEW T, NEW U, NEW V, NEW W,
           NEW c \in [sizes : S, sorted : T, limit : U, last : V, alive : W], NEW x
    PROVE  /\ [c EXCEPT !.sizes = x] = [sizes |-> x, sorted |-> c.sorted, limit |-> c.limit,
                                        last |-> c.last, alive |-> c.alive]
           /\ [c EXCEPT !.sorted = x] = [sizes |-> c.sizes, sorted |-> x, limit |-> c.limit,
                                         last |-> c.last, alive |-> c.alive]
           /\ [c EXCEPT !.limit = x] = [sizes |-> c.sizes, sorted |-> c.sorted, limit |-> x,
                                        last |-> c.last, alive |-> c.alive]
           /\ [c EXCEPT !.last = x] = [sizes |-> c.sizes, sorted |-> c.sorted,
                                       limit |-> c.limit, last |-> x, alive |-> c.alive]
           /\ [c EXCEPT !.alive = x] = [sizes |-> c.sizes, sorted |-> c.sorted,
                                        limit |-> c.limit, last |-> c.last, alive |-> x]
  OBVIOUS

LEMMA SizesChanged ==
    ASSUME NEW c \in CalculatorSet, NEW s
    PROVE  [c EXCEPT !.sizes = s] = [sizes |-> s, sorted |-> c.sorted, limit |-> c.limit,
                                     last |-> c.last, alive |-> c.alive]
  BY DEF CalculatorSet

LEMMA AliveChanged ==
    ASSUME NEW c \in CalculatorSet, NEW t
    PROVE  [c EXCEPT !.alive = t] = [sizes |-> c.sizes, sorted |-> c.sorted,
                                     limit |-> c.limit, last |-> c.last, alive |-> t]
  BY DEF CalculatorSet

LEMMA LastChanged ==
    ASSUME NEW c \in CalculatorSet, NEW s, NEW f
    PROVE  [c EXCEPT !.sizes = s, !.last = f] =
               [sizes |-> s, sorted |-> c.sorted, limit |-> c.limit,
                last |-> f, alive |-> c.alive]
<1> DEFINE d == [sizes |-> s, sorted |-> c.sorted, limit |-> c.limit,
                 last |-> c.last, alive |-> c.alive]
<1>1. d \in [sizes : {s}, sorted : {c.sorted}, limit : {c.limit}, last : {c.last},
             alive : {c.alive}]
  OBVIOUS
<1>2. [d EXCEPT !.last = f] = [sizes |-> s, sorted |-> c.sorted, limit |-> c.limit,
                               last |-> f, alive |-> c.alive]
  BY <1>1, FieldChanged
<1> HIDE DEF d
<1>3. [c EXCEPT !.sizes = s, !.last = f] = [[c EXCEPT !.sizes = s] EXCEPT !.last = f]
  BY DEF CalculatorSet
<1>4. [c EXCEPT !.sizes = s] = d
  BY SizesChanged DEF d
<1> QED
  BY <1>2, <1>3, <1>4, Zenon

LEMMA LimitChanged ==
    ASSUME NEW c \in CalculatorSet, NEW s, NEW t, NEW x
    PROVE  [c EXCEPT !.sizes = s, !.sorted = t, !.limit = x] =
               [sizes |-> s, sorted |-> t, limit |-> x, last |-> c.last, alive |-> c.alive]
<1> DEFINE d == [sizes |-> s, sorted |-> c.sorted, limit |-> c.limit,
                 last |-> c.last, alive |-> c.alive]
           e == [sizes |-> s, sorted |-> t, limit |-> c.limit,
                 last |-> c.last, alive |-> c.alive]
<1>1. d \in [sizes : {s}, sorted : {c.sorted}, limit : {c.limit}, last : {c.last},
             alive : {c.alive}]
  OBVIOUS
<1>2. [d EXCEPT !.sorted = t] = e
  BY <1>1, FieldChanged
<1>3. e \in [sizes : {s}, sorted : {t}, limit : {c.limit}, last : {c.last},
             alive : {c.alive}]
  OBVIOUS
<1>4. [e EXCEPT !.limit = x] = [sizes |-> s, sorted |-> t, limit |-> x,
                                last |-> c.last, alive |-> c.alive]
  BY <1>3, FieldChanged
<1> HIDE DEF d, e
<1>5. [c EXCEPT !.sizes = s, !.sorted = t, !.limit = x] =
          [[[c EXCEPT !.sizes = s] EXCEPT !.sorted = t] EXCEPT !.limit = x]
  BY DEF CalculatorSet
<1>6. [c EXCEPT !.sizes = s] = d
  BY SizesChanged DEF d
<1> QED
  BY <1>2, <1>4, <1>5, <1>6, Zenon

LEMMA RecentType ==
    ASSUME NEW b \in Block, Past <= Height[b]
    PROVE  /\ RecentSizes(b) \in Seq(Nat) /\ Len(RecentSizes(b)) = Past
           /\ \A i \in 1 .. Past : RecentSizes(b)[i] = Size[Ancestor(b, Height[b] + 1 - i)]
<1>1. Past \in Nat /\ Height[b] \in Nat
  BY SizeAssumption, BranchType
<1>2. ASSUME NEW i \in 1 .. Past
      PROVE  Size[Ancestor(b, Height[b] + 1 - i)] \in Nat
  <2>1. Height[b] + 1 - i \in 0 .. Height[b]
    BY <1>1
  <2>2. Ancestor(b, Height[b] + 1 - i) \in Block
    BY <2>1, AncestorOf
  <2> QED
    BY <2>2, SizeAssumption
<1> QED
  BY <1>1, <1>2 DEF RecentSizes

LEMMA MedianType ==
    ASSUME NEW s \in Seq(Nat), Len(s) = Past
    PROVE  Median(s) \in Nat
<1>1. Past \in Nat \ {0} /\ UIntRange \in Nat \ {0} /\ DOMAIN s = 1 .. Past
  BY SizeAssumption
<1>2. CASE Past % 2 = 0
  <2>1. Past \div 2 \in 1 .. Past /\ Past \div 2 + 1 \in 1 .. Past
    BY <1>1, <1>2
  <2>2. PICK x \in Nat : x = s[Past \div 2] + s[Past \div 2 + 1]
    BY <1>1, <2>1
  <2>3. x % UIntRange \in Nat
    BY <1>1
  <2>4. (x % UIntRange) \div 2 \in Nat
    BY <2>3
  <2> QED
    BY <1>2, <2>2, <2>4 DEF Median
<1>3. CASE Past % 2 # 0
  <2>1. Past \div 2 + 1 \in 1 .. Past
    BY <1>1, <1>3
  <2> QED
    BY <1>1, <1>3, <2>1 DEF Median
<1> QED
  BY <1>2, <1>3

LEMMA LimitType ==
    ASSUME NEW m \in Nat
    PROVE  LimitOf(m) \in Nat
<1>1. UIntRange \in Nat \ {0} /\ Multiple \in Nat /\ MinBlockSize \in Nat
  BY SizeAssumption
<1>2. (m * Multiple) % UIntRange \in Nat
  <2>1. m * Multiple \in Nat
    BY <1>1
  <2> QED
    BY <1>1, <2>1
<1>3. UIntRange - 1 \in Nat
  BY <1>1
<1> QED
  BY <1>1, <1>2, <1>3 DEF LimitOf

\* The block found last is on the best block's branch or on the chain that is
\* being connected.
FoundOnChain(last) == last \in Branch[best] \cup Branch[CurrentTip] \cup {NoBlock}

LEMMA GetBlockSizesType ==
    ASSUME best \in Block, NEW tip \in Block, LinksWithin(pnext, tip),
           NEW c \in CalculatorSet, NEW b \in Block, NEW d \in GetBlockSizes(c, b)
    PROVE  /\ d \in CalculatorSet /\ d.sorted = c.sorted
           /\ tip = CurrentTip /\ FoundOnChain(c.last) => FoundOnChain(d.last)
<1>1. Past \in Nat /\ Height[b] \in Nat /\ Size[b] \in Nat
  BY SizeAssumption, BranchType
<1>2. CASE Height[b] < Past
  BY <1>2 DEF GetBlockSizes
<1>3. CASE ~ (Height[b] < Past) /\ c.sizes = <<>>
  <2>1. d = [c EXCEPT !.sizes = RecentSizes(b)]
    BY <1>3 DEF GetBlockSizes
  <2>2. RecentSizes(b) \in Seq(Nat) /\ Len(RecentSizes(b)) = Past
    BY <1>1, <1>3, RecentType
  <2>3. d = [sizes |-> RecentSizes(b), sorted |-> c.sorted, limit |-> c.limit,
             last |-> c.last, alive |-> c.alive]
    BY <2>1, SizesChanged
  <2> QED
    BY <2>2, <2>3, CalculatorFields DEF CalculatorSet
<1>4. CASE ~ (Height[b] < Past) /\ c.sizes # <<>>
  <2> DEFINE first == FindBlockByHeight(c.last, Height[b] - Past)
  <2>1. Height[b] - Past \in Nat
    BY <1>1, <1>4
  <2>2. first \in Block \cup {NoBlock}
    BY <2>1, FindType, CalculatorFields
  <2>3. tip = CurrentTip /\ FoundOnChain(c.last) => FoundOnChain(first)
    <3> SUFFICES ASSUME tip = CurrentTip, FoundOnChain(c.last)
                 PROVE  FoundOnChain(first)
      OBVIOUS
    <3>1. PICK h \in Nat : h = Height[b] - Past
      BY <2>1
    <3>2. PICK start : start = SearchFrom(c.last, h)
      OBVIOUS
    <3>3. start \in Branch[best] \cup Branch[tip]
      <4>1. c.last \in Block \cup {NoBlock}
        BY CalculatorFields
      <4>2. start \in Block /\ (start \in Branch[best] \/ start = c.last)
        BY <3>2, <4>1, StartBlock
      <4> QED
        BY <4>2, ChainAssumption DEF FoundOnChain
    <3>4. CASE start \in Branch[tip]
      <4>1. first = NoBlock \/ (h \in 0 .. Height[tip] /\ first = Ancestor(tip, h))
        BY <3>1, <3>2, <3>4, FindOnTip
      <4> HIDE DEF first
      <4> QED
        BY <4>1, AncestorOf DEF FoundOnChain
    <3>5. CASE start \notin Branch[tip]
      <4>1. first \in Branch[best] \/ first = NoBlock
        BY <3>1, <3>2, <3>3, <3>5, FindOffTip
      <4> HIDE DEF first
      <4> QED
        BY <4>1 DEF FoundOnChain
    <3> QED
      BY <3>4, <3>5
  <2>4. \/ first = NoBlock /\ d = [c EXCEPT !.alive = FALSE]
        \/ /\ first # NoBlock
           /\ \E s \in Replaced(c.sizes, Size[first], Size[b]) :
                 d = [c EXCEPT !.sizes = s, !.last = first]
    BY <1>4 DEF GetBlockSizes
  <2> HIDE DEF first
  <2>5. CASE first = NoBlock /\ d = [c EXCEPT !.alive = FALSE]
    <3>1. d = [sizes |-> c.sizes, sorted |-> c.sorted, limit |-> c.limit,
               last |-> c.last, alive |-> FALSE]
      BY <2>5, AliveChanged, Zenon
    <3>2. FALSE \in BOOLEAN
      OBVIOUS
    <3> QED
      BY <3>1, <3>2, CalculatorFields DEF CalculatorSet
  <2>6. CASE first # NoBlock
    <3>1. PICK s \in Replaced(c.sizes, Size[first], Size[b]) :
               d = [c EXCEPT !.sizes = s, !.last = first]
      BY <2>4, <2>6
    <3>2. s \in Seq(Nat) /\ Len(s) = Len(c.sizes)
      BY <1>1, <3>1, ReplacedType, CalculatorFields
    <3>3. d = [sizes |-> s, sorted |-> c.sorted, limit |-> c.limit,
               last |-> first, alive |-> c.alive]
      <4>1. [c EXCEPT !.sizes = s, !.last = first] =
                [sizes |-> s, sorted |-> c.sorted, limit |-> c.limit,
                 last |-> first, alive |-> c.alive]
        BY LastChanged
      <4> QED
        BY <3>1, <4>1, Zenon
    <3> QED
      BY <2>2, <2>3, <3>2, <3>3, CalculatorFields DEF CalculatorSet
  <2> QED
    BY <2>4, <2>5, <2>6
<1> QED
  BY <1>2, <1>3, <1>4

LEMMA ComputedType ==
    ASSUME best \in Block, NEW tip \in Block, LinksWithin(pnext, tip),
           NEW c \in CalculatorSet, NEW b \in Block, NEW e \in ComputeBlockSize(c, b)
    PROVE  e \in CalculatorSet /\ (tip = CurrentTip /\ FoundOnChain(c.last) => FoundOnChain(e.last))
<1> DEFINE Sizes(d) == IF d.sorted THEN d.sizes ELSE Sorted(d.sizes)
           Limit(d) == LimitOf(IF Len(Sizes(d)) = Past THEN Median(Sizes(d)) ELSE 0)
<1>1. PICK d \in GetBlockSizes(c, b) :
           e = [d EXCEPT !.sizes = Sizes(d), !.sorted = TRUE, !.limit = Limit(d)]
  BY DEF ComputeBlockSize
<1>2. d \in CalculatorSet /\ (tip = CurrentTip /\ FoundOnChain(c.last) => FoundOnChain(d.last))
  BY GetBlockSizesType
<1>3. Sizes(d) \in Seq(Nat) /\ Len(Sizes(d)) \in {0, Past}
  BY <1>2, SortedRanks, CalculatorFields
<1>4. Limit(d) \in Nat
  <2>1. (IF Len(Sizes(d)) = Past THEN Median(Sizes(d)) ELSE 0) \in Nat
    BY <1>3, MedianType
  <2> QED
    BY <2>1, LimitType
<1> HIDE DEF Sizes, Limit
<1>5. e = [sizes |-> Sizes(d), sorted |-> TRUE, limit |-> Limit(d),
           last |-> d.last, alive |-> d.alive]
  BY <1>1, <1>2, LimitChanged, Zenon
<1>6. TRUE \in BOOLEAN
  OBVIOUS
<1>7. e \in CalculatorSet /\ e.last = d.last
  BY <1>2, <1>3, <1>4, <1>5, <1>6, CalculatorFields DEF CalculatorSet
<1> QED
  BY <1>2, <1>7

-----------------------------------------------------------------------------
(* Results of ConnectBlock with the calculator, and the fold over a path.    *)

ResultSet == [v : ViewSet, c : CalculatorSet]

\* What the steps need of every result when the blocks up to a are connected.
GoodResults(results, a) ==
    \A r \in results :
        /\ r \in ResultSet /\ LinksWithin(r.v.next, a)
        /\ FoundOnChain(r.c.last)

LEMMA ResultFields ==
    ASSUME NEW r \in ResultSet
    PROVE  r.v \in ViewSet /\ r.c \in CalculatorSet /\ r = [v |-> r.v, c |-> r.c]
  BY DEF ResultSet

LEMMA ResultOf ==
    ASSUME NEW v \in ViewSet, NEW c \in CalculatorSet, NEW r, r = [v |-> v, c |-> c]
    PROVE  r \in ResultSet /\ r.v = v /\ r.c = c
  BY DEF ResultSet

\* A failed test changes nothing but the view's flag.
LEMMA FlagOnly ==
    ASSUME NEW v \in ViewSet, NEW ok \in BOOLEAN, NEW w, w = [v EXCEPT !.ok = ok]
    PROVE  w \in ViewSet /\ w.ok = ok /\ w.next = v.next
<1>1. w = [ok |-> ok, tx |-> v.tx, next |-> v.next, disk |-> v.disk, mem |-> v.mem]
  BY ViewWithOk
<1> QED
  BY <1>1, ViewFields DEF ViewSet

LEMMA TipOfSearch ==
    ASSUME ChainInv
    PROVE  /\ best \in Block /\ TableInv
           /\ CurrentTip \in Block /\ LinksWithin(pnext, CurrentTip)
<1>1. /\ best \in Block /\ TableInv /\ LinksWithin(pnext, CurrentTip)
      /\ dbBest \in Block /\ (cursor # NoBlock => cursor = dbBest)
  BY DEF ChainInv, BehindInv, WorkInv
<1> QED
  BY <1>1 DEF CurrentTip

LEMMA ConnectingStep ==
    ASSUME ChainInv, NEW b \in Block \ {Genesis}, NEW R \in SUBSET ResultSet,
           NEW r \in Connecting(R, b)
    PROVE  /\ r \in ResultSet
           /\ \E q \in R :
                 /\ pnext[b] = NoBlock /\ LinksWithin(q.v.next, Parent[b]) =>
                        LinksWithin(r.v.next, b)
                 /\ FoundOnChain(q.c.last) => FoundOnChain(r.c.last)
<1>1. PICK tip \in Block : LinksWithin(pnext, tip) /\ tip = CurrentTip
  BY TipOfSearch
<1>2. best \in Block /\ TableInv
  BY TipOfSearch
<1>3. Parent[b] \in Branch[b]
  BY BranchTxs
<1>4. PICK q \in R :
         r \in IF ~ q.v.ok \/ ~ q.c.alive THEN {q}
               ELSE IF Size[b] > q.c.limit
                    THEN {[v |-> [q.v EXCEPT !.ok = FALSE], c |-> q.c]}
               ELSE {[v |-> ConnectBlock(q.v, b), c |-> c] : c \in ComputeBlockSize(q.c, b)}
  BY DEF Connecting
<1>5. q \in ResultSet /\ q.v \in ViewSet /\ q.c \in CalculatorSet
  BY ResultFields
<1> DEFINE Kept == /\ pnext[b] = NoBlock /\ LinksWithin(q.v.next, Parent[b]) =>
                          LinksWithin(r.v.next, b)
                   /\ FoundOnChain(q.c.last) => FoundOnChain(r.c.last)
<1>6. CASE r = q
  BY <1>3, <1>5, <1>6, WithinWider
<1>7. CASE r = [v |-> [q.v EXCEPT !.ok = FALSE], c |-> q.c]
  <2>1. FALSE \in BOOLEAN
    OBVIOUS
  <2>2. PICK w : w = [q.v EXCEPT !.ok = FALSE]
    OBVIOUS
  <2>3. w \in ViewSet /\ w.next = q.v.next
    <3>1. PICK v \in ViewSet : v = q.v
      BY <1>5
    <3>2. PICK ok \in BOOLEAN : ok = FALSE
      BY <2>1
    <3>3. w = [v EXCEPT !.ok = ok]
      BY <2>2, <3>1, <3>2, Zenon
    <3> QED
      BY <3>1, <3>3, FlagOnly
  <2>4. r = [v |-> w, c |-> q.c]
    BY <1>7, <2>2, Zenon
  <2>5. r \in ResultSet /\ r.v = w /\ r.c = q.c
    BY <1>5, <2>3, <2>4, ResultOf
  <2>6. Kept
    BY <1>3, <2>3, <2>5, WithinWider
  <2> QED
    BY <2>5, <2>6
<1>8. ASSUME NEW c \in ComputeBlockSize(q.c, b), r = [v |-> ConnectBlock(q.v, b), c |-> c]
      PROVE  r \in ResultSet /\ Kept
  <2>1. PICK w : w = ConnectBlock(q.v, b)
    OBVIOUS
  <2>2. w \in ViewSet
    BY <1>2, <1>5, <2>1, ConnectFields
  <2>3. pnext[b] = NoBlock /\ LinksWithin(q.v.next, Parent[b]) => LinksWithin(w.next, b)
    BY <1>2, <1>5, <2>1, ConnectWithin
  <2>4. c \in CalculatorSet /\ (tip = CurrentTip /\ FoundOnChain(q.c.last) => FoundOnChain(c.last))
    BY <1>1, <1>2, <1>5, <1>8, ComputedType
  <2>5. r = [v |-> w, c |-> c]
    BY <1>8, <2>1
  <2>6. r \in ResultSet /\ r.v = w /\ r.c = c
    BY <2>2, <2>4, <2>5, ResultOf
  <2>7. Kept
    BY <1>1, <2>3, <2>4, <2>6
  <2> QED
    BY <2>6, <2>7
<1> QED
  BY <1>4, <1>5, <1>6, <1>7, <1>8

LEMMA CheckedStep ==
    ASSUME ChainInv, NEW b \in Block \ {Genesis}, NEW R \in SUBSET ResultSet,
           NEW r \in ConnectingChecked(R, b)
    PROVE  /\ r \in ResultSet
           /\ \E q \in Connecting(R, b) : r.v.next = q.v.next /\ r.c = q.c
<1>1. PICK q \in Connecting(R, b) :
          r = [v |-> [q.v EXCEPT !.ok = @ /\ VelocityPasses(b)], c |-> q.c]
  BY DEF ConnectingChecked
<1>2. PICK v \in ViewSet : v = q.v
  BY ConnectingStep, ResultFields
<1>3. q.c \in CalculatorSet
  BY ConnectingStep, ResultFields
<1>4. PICK ok \in BOOLEAN : ok = (q.v.ok /\ VelocityPasses(b))
  OBVIOUS
<1>5. PICK w : w = [v EXCEPT !.ok = ok]
  OBVIOUS
<1>6. r = [v |-> w, c |-> q.c]
  BY <1>1, <1>2, <1>4, <1>5, Zenon
<1>7. w \in ViewSet /\ w.next = v.next
  BY <1>5, FlagOnly
<1>8. r \in ResultSet /\ r.v = w /\ r.c = q.c
  BY <1>3, <1>6, <1>7, ResultOf
<1> QED
  BY <1>2, <1>7, <1>8

LEMMA ConnectingGood ==
    ASSUME ChainInv, NEW b \in Block \ {Genesis}, pnext[b] = NoBlock,
           NEW R \in SUBSET ResultSet, GoodResults(R, Parent[b])
    PROVE  GoodResults(Connecting(R, b), b)
<1> SUFFICES ASSUME NEW r \in Connecting(R, b)
             PROVE  /\ r \in ResultSet /\ LinksWithin(r.v.next, b)
                    /\ FoundOnChain(r.c.last)
  BY DEF GoodResults
<1> QED
  BY ConnectingStep DEF GoodResults

LEMMA ConnectingCheckedGood ==
    ASSUME ChainInv, NEW b \in Block \ {Genesis}, pnext[b] = NoBlock,
           NEW R \in SUBSET ResultSet, GoodResults(R, Parent[b])
    PROVE  GoodResults(ConnectingChecked(R, b), b)
<1>1. GoodResults(Connecting(R, b), b)
  BY ConnectingGood
<1> SUFFICES ASSUME NEW r \in ConnectingChecked(R, b)
             PROVE  /\ r \in ResultSet /\ LinksWithin(r.v.next, b)
                    /\ FoundOnChain(r.c.last)
  BY DEF GoodResults
<1> QED
  BY <1>1, CheckedStep DEF GoodResults

-----------------------------------------------------------------------------
(* The fold of Reorganize over sets of results; as those of                  *)
(* ChainLedger_proofs.                                                       *)

ResultBody(g, base, blocks, n) ==
    [s \in SUBSET (1..n) |->
        IF s = {} THEN base
        ELSE LET m == Max(s) IN ConnectingChecked(g[s \ {m}], blocks[m])]

LEMMA ResultExists ==
    ASSUME NEW U, NEW base \in U, NEW n \in Nat, NEW blocks,
           \A v \in U : \A i \in 1..n : ConnectingChecked(v, blocks[i]) \in U
    PROVE  \E g : g = ResultBody(g, base, blocks, n)
<1> DEFINE F == [x \in U \X (1..n) |-> ConnectingChecked(x[1], blocks[x[2]])]
<1>1. F \in [U \X (1..n) -> U]
  OBVIOUS
<1>2. PICK g : IsFold(g, F, base, U, n)
  <2> HIDE DEF F
  <2> QED
    BY <1>1, FoldExists
<1>3. ASSUME NEW s \in SUBSET (1..n), s # {}
      PROVE  g[s] = ConnectingChecked(g[s \ {Max(s)}], blocks[Max(s)])
  <2>1. Max(s) \in 1..n
    BY <1>3, MaxOf
  <2>2. s \ {Max(s)} \in SUBSET (1..n)
    BY <1>3
  <2>3. g[s \ {Max(s)}] \in U
    BY <1>2, <2>2 DEF IsFold
  <2>4. F[<<g[s \ {Max(s)}], Max(s)>>] = ConnectingChecked(g[s \ {Max(s)}], blocks[Max(s)])
    BY <2>1, <2>3
  <2> QED
    BY <1>2, <1>3, <2>4 DEF IsFold
<1>4. g = ResultBody(g, base, blocks, n)
  <2> HIDE DEF F
  <2> QED
    BY <1>2, <1>3 DEF IsFold, ResultBody
<1> QED
  BY <1>4

LEMMA ResultFold ==
    ASSUME NEW U, NEW base \in U, NEW n \in Nat, NEW blocks, DOMAIN blocks = 1..n,
           \A v \in U : \A i \in 1..n : ConnectingChecked(v, blocks[i]) \in U,
           NEW V, base \in V[0],
           \A i \in 1..n : \A v \in V[i - 1] :
               v \in U => ConnectingChecked(v, blocks[i]) \in V[i]
    PROVE  FoldLeft(ConnectingChecked, base, blocks) \in U \cap V[n]
<1> DEFINE Body(g) == ResultBody(g, base, blocks, n)
           it == CHOOSE g : g = Body(g)
<1>1. \E g : g = Body(g)
  BY ResultExists
<1> USE DEF ResultBody
<1>2. it = Body(it)
  <2> HIDE DEF Body
  <2> QED
    BY <1>1
<1>3. FoldLeft(ConnectingChecked, base, blocks) = it[1..n]
  BY DEF FoldLeft, MapThenFoldSet
<1> HIDE DEF it
<1>4. it[{}] = base
  BY <1>2
<1>5. ASSUME NEW k \in 1..n
      PROVE  it[1..k] = ConnectingChecked(it[1..(k - 1)], blocks[k])
  <2>1. 1..k \in SUBSET (1..n) /\ 1..k # {} /\ k \in Nat
    <3>1. k \in Nat /\ k >= 1 /\ k <= n
      OBVIOUS
    <3>2. k \in 1..k
      BY <3>1
    <3>3. \A i \in 1..k : i \in 1..n
      BY <3>1
    <3> QED
      BY <3>1, <3>2, <3>3
  <2>2. Max(1..k) \in 1..k /\ k <= Max(1..k)
    <3>1. 1..k \in SUBSET (1..k)
      OBVIOUS
    <3>2. k \in 1..k
      BY <2>1
    <3>3. Max(1..k) \in 1..k /\ \A i \in 1..k : i <= Max(1..k)
      BY <2>1, <3>1, MaxOf
    <3> QED
      BY <3>2, <3>3
  <2>3. Max(1..k) = k
    BY <2>2
  <2>4. (1..k) \ {k} = 1..(k - 1)
    OBVIOUS
  <2>5. it[1..k] = ConnectingChecked(it[(1..k) \ {Max(1..k)}], blocks[Max(1..k)])
    BY <1>2, <2>1
  <2> QED
    BY <2>3, <2>4, <2>5
<1> HIDE DEF Body
<1> DEFINE bad == {k \in 0..n : it[1..k] \notin U \cap V[k]}
<1>6. bad = {}
  <2> SUFFICES ASSUME bad # {} PROVE FALSE
    OBVIOUS
  <2>1. PICK k \in bad : \A j \in bad : k <= j
    <3>1. bad \in SUBSET Nat
      OBVIOUS
    <3> HIDE DEF bad
    <3> QED
      BY <3>1, LeastNat
  <2>2. k # 0
    <3>1. 1..0 = {}
      OBVIOUS
    <3> QED
      BY <1>4, <3>1
  <2>3. k \in 1..n /\ k - 1 \in 0..n /\ ~ (k <= k - 1)
    BY <2>2
  <2>4. it[1..(k - 1)] \in U \cap V[k - 1]
    BY <2>1, <2>3
  <2>5. it[1..k] \in U \cap V[k]
    BY <1>5, <2>3, <2>4
  <2> QED
    BY <2>1, <2>5
<1>7. n \in 0..n
  OBVIOUS
<1> QED
  BY <1>3, <1>6, <1>7

LEMMA CalculatorType ==
    ASSUME SizesOK
    PROVE  /\ Calculator \in CalculatorSet /\ Calculator.sizes = blocksizes
           /\ Calculator.sorted = sorted /\ Calculator.limit = maxBlockSize
           /\ Calculator.last = lastFound /\ Calculator.alive = TRUE
<1>1. TRUE \in BOOLEAN
  OBVIOUS
<1> QED
  BY <1>1 DEF SizesOK, Calculator, CalculatorSet

\* The results of a reorganization to b.
LEMMA ReorganizedResults ==
    ASSUME ChainInv, SizesOK, FoundOnChain(lastFound), cursor = NoBlock, NEW b \in Block
    PROVE  GoodResults(FoldLeft(ConnectingChecked, {[v |-> Unwound(b), c |-> Calculator]},
                                Path(ForkOf(best, b), b)), b)
<1> DEFINE f == ForkOf(best, b)
           n == Height[b] - Height[f]
           up == Path(f, b)
           base == {[v |-> Unwound(b), c |-> Calculator]}
           V == [i \in 0 .. n |->
                    {R \in SUBSET ResultSet : GoodResults(R, Ancestor(b, Height[f] + i))}]
<1>1. best \in Block /\ TableInv /\ LinksWithin(pnext, best)
  BY DEF ChainInv, BehindInv, WorkInv, CurrentTip
<1>2. f \in Branch[b] /\ f \in Block /\ Branch[f] = Branch[best] \cap Branch[b]
  BY <1>1, ForkIsTip
<1>3. n \in Nat /\ Height[b] \in Nat /\ Height[f] \in Nat
  BY <1>2, PathBlocks, BranchType
<1>4. /\ DOMAIN up = 1 .. n
      /\ \A i \in 1 .. n : /\ up[i] = Ancestor(b, Height[f] + i)
                           /\ up[i] \in Block \ {Genesis} /\ up[i] \in Branch[b]
                           /\ up[i] \notin Branch[f]
                           /\ Parent[up[i]] = Ancestor(b, Height[f] + i - 1)
  BY <1>2, PathBlocks
<1>5. Ancestor(b, Height[b]) = b /\ Ancestor(b, Height[f]) = f
  BY <1>1, <1>2, AncestorAt, BranchType
<1>6. Height[f] + 0 = Height[f] /\ Height[f] + n = Height[b]
  BY <1>3
<1>7. Unwound(b) \in ViewSet /\ LinksWithin(Unwound(b).next, f)
  BY UnwoundWithin
<1>8. Calculator \in CalculatorSet /\ FoundOnChain(Calculator.last)
  BY CalculatorType
<1> HIDE DEF f, n, up
<1>9. base \in SUBSET ResultSet /\ GoodResults(base, f)
  <2>1. PICK r : r = [v |-> Unwound(b), c |-> Calculator]
    OBVIOUS
  <2>2. r \in ResultSet /\ r.v = Unwound(b) /\ r.c = Calculator
    BY <1>7, <1>8, <2>1, ResultOf
  <2>3. base = {r}
    BY <2>1
  <2> HIDE DEF base
  <2> QED
    BY <1>7, <1>8, <2>2, <2>3 DEF GoodResults
<1> HIDE DEF base
<1>10. 0 \in 0 .. n /\ n \in 0 .. n
  BY <1>3
<1>11. base \in V[0]
  <2>1. GoodResults(base, Ancestor(b, Height[f] + 0))
    BY <1>5, <1>6, <1>9
  <2> QED
    BY <1>9, <1>10, <2>1
<1>12. ASSUME NEW i \in 1 .. n
       PROVE  pnext[up[i]] = NoBlock
  <2>1. up[i] \in Block /\ up[i] \notin Branch[best]
    BY <1>2, <1>4
  <2> QED
    BY <1>1, <2>1 DEF LinksWithin
<1>13. \A R \in SUBSET ResultSet : \A i \in 1 .. n :
           ConnectingChecked(R, up[i]) \in SUBSET ResultSet
  <2> SUFFICES ASSUME NEW R \in SUBSET ResultSet, NEW i \in 1 .. n
               PROVE  ConnectingChecked(R, up[i]) \in SUBSET ResultSet
    OBVIOUS
  <2> QED
    BY <1>4, CheckedStep
<1>14. \A i \in 1 .. n : \A R \in V[i - 1] :
           R \in SUBSET ResultSet => ConnectingChecked(R, up[i]) \in V[i]
  <2> SUFFICES ASSUME NEW i \in 1 .. n, NEW R \in V[i - 1]
               PROVE  ConnectingChecked(R, up[i]) \in V[i]
    OBVIOUS
  <2>1. i \in 0 .. n /\ i - 1 \in 0 .. n /\ Height[f] + (i - 1) = Height[f] + i - 1
    BY <1>3
  <2>2. R \in SUBSET ResultSet /\ GoodResults(R, Parent[up[i]])
    BY <1>4, <2>1
  <2>3. GoodResults(ConnectingChecked(R, up[i]), up[i])
    BY <1>4, <1>12, <2>2, ConnectingCheckedGood
  <2>4. ConnectingChecked(R, up[i]) \in SUBSET ResultSet
    BY <1>13, <2>2
  <2> QED
    BY <1>4, <2>1, <2>3, <2>4
<1> HIDE DEF V
<1>15. FoldLeft(ConnectingChecked, base, up) \in (SUBSET ResultSet) \cap V[n]
  BY <1>3, <1>4, <1>9, <1>11, <1>13, <1>14, ResultFold
<1>16. GoodResults(FoldLeft(ConnectingChecked, base, up), Ancestor(b, Height[f] + n))
  BY <1>10, <1>15 DEF V
<1> QED
  BY <1>5, <1>6, <1>16 DEF base, up, f

-----------------------------------------------------------------------------
(* What each step of the chain does to its links.                            *)

\* A committed view, and links in memory that lead to the block it ends at.
LEMMA CommittedChain ==
    ASSUME BehindInv', NEW v \in ViewSet, NEW b \in Block, LinksWithin(v.next, b), Commit(v, b),
           pnext' \in [Block -> Block \cup {NoBlock}], LinksWithin(pnext', b), Advanced(b)
    PROVE  ChainInv'
<1>1. /\ dbNext' \in [Block -> Block \cup {NoBlock}]
      /\ dbSupply' \in [Block -> Nat] /\ moneySupply' \in [Block -> Nat]
      /\ dbTx' \in [Tx -> Tx \cup {Absent, Unspent}]
  BY CommittedTypes
<1>2. TableInv'
  BY <1>1 DEF TableInv, BehindInv
<1>3. dbNext' = v.next /\ dbBest' = b
  BY DEF Commit
<1>4. LinksWithin(dbNext', dbBest')
  BY <1>3
<1>5. CurrentTip' = b
  BY ChainAssumption DEF CurrentTip, Advanced, NewBest
<1>6. LinksWithin(pnext', CurrentTip')
  BY <1>5
<1> QED
  BY <1>2, <1>4, <1>6 DEF ChainInv

\* An aborted one; the chain in memory ends at the tip it had or above.
LEMMA AbortedChain ==
    ASSUME ChainInv, BehindInv', NEW v \in ViewSet, Abort(v), UNCHANGED pnext,
           CurrentTip' \in Block, CurrentTip \in Branch[CurrentTip']
    PROVE  ChainInv'
<1>1. moneySupply' \in [Block -> Nat] /\ UNCHANGED <<index, dbBest, dbNext, dbSupply, dbTx>>
  BY AbortedTypes
<1>2. TableInv'
  BY <1>1 DEF TableInv, BehindInv, ChainInv
<1>3. LinksWithin(dbNext', dbBest')
  BY <1>1 DEF ChainInv
<1>4. LinksWithin(pnext', CurrentTip')
  <2>1. LinksWithin(pnext, CurrentTip')
    BY WithinWider DEF ChainInv
  <2> QED
    BY <2>1
<1> QED
  BY <1>2, <1>3, <1>4 DEF ChainInv

LEMMA LinkedWithin ==
    ASSUME ChainInv, NEW b \in Block \ {Genesis}, CurrentTip = Parent[b]
    PROVE  /\ pnext[b] = NoBlock
           /\ [pnext EXCEPT ![Parent[b]] = b] \in [Block -> Block \cup {NoBlock}]
           /\ LinksWithin([pnext EXCEPT ![Parent[b]] = b], b)
<1>1. LinksWithin(pnext, Parent[b]) /\ pnext \in [Block -> Block \cup {NoBlock}]
  BY DEF ChainInv, TableInv
<1>2. Parent[b] \in Block /\ b \notin Branch[Parent[b]]
  BY BranchTxs
<1>3. pnext[b] = NoBlock
  BY <1>1, <1>2 DEF LinksWithin
<1> DEFINE after == [pnext EXCEPT ![Parent[b]] = b]
<1>4. /\ after[Parent[b]] = b
      /\ \A c \in Block : c # Parent[b] => after[c] = pnext[c] \/ after[c] = NoBlock
  BY <1>1, <1>2
<1>5. after \in [Block -> Block \cup {NoBlock}]
  BY <1>1
<1> HIDE DEF after
<1>6. LinksWithin(after, b)
  BY <1>1, <1>4, WithinConnect
<1> QED
  BY <1>3, <1>5, <1>6 DEF after

\* A child of the best block.
LEMMA TargetBlock ==
    ASSUME WorkInv, target # NoBlock
    PROVE  target \in Block \ {Genesis} /\ best \in Block /\ ChainTrust[target] > ChainTrust[best]
<1>1. target \in Block /\ best \in Block /\ ChainTrust[target] > ChainTrust[best]
  BY DEF WorkInv
<1>2. ChainTrust[Genesis] <= ChainTrust[best]
  BY <1>1, GenesisBelow
<1>3. ChainTrust[Genesis] \in Nat /\ ChainTrust[best] \in Nat
  BY <1>1, BranchType, TreeAssumption
<1> QED
  BY <1>1, <1>2, <1>3

LEMMA ExtendChain ==
    ASSUME ChainInv, target # NoBlock, Parent[target] = best,
           NEW v \in ViewSet, LinksWithin(v.next, target), Extended(v, target)
    PROVE  ChainInv'
<1>1. BehindInv /\ WorkInv
  BY DEF ChainInv, BehindInv
<1>2. BehindInv'
  BY <1>1, ExtendBehind
<1>3. target \in Block \ {Genesis} /\ best \in Block /\ cursor = NoBlock
  BY <1>1, TargetBlock DEF WorkInv
<1>4. CurrentTip = best
  BY <1>3 DEF CurrentTip
<1>5. CASE v.ok /\ Attached(v, target) /\ NewBest(target)
  <2>1. Commit(v, target) /\ pnext' = [pnext EXCEPT ![Parent[target]] = target]
    BY <1>5 DEF Attached
  <2>2. Advanced(target)
    BY <1>5 DEF Advanced
  <2>3. pnext' \in [Block -> Block \cup {NoBlock}] /\ LinksWithin(pnext', target)
    BY <1>3, <1>4, <2>1, LinkedWithin
  <2> QED
    BY <1>2, <1>3, <2>1, <2>2, <2>3, CommittedChain
<1>6. CASE Abort(v) /\ Refused /\ UNCHANGED <<pnext, pool>>
  <2>1. CurrentTip' = best
    BY <1>6 DEF CurrentTip, Refused
  <2>2. best \in Branch[best]
    BY <1>3, BranchType
  <2> QED
    BY <1>2, <1>3, <1>4, <1>6, <2>1, <2>2, AbortedChain
<1> QED
  BY <1>5, <1>6 DEF Extended

LEMMA SwitchChain ==
    ASSUME ChainInv, target # NoBlock, Parent[target] # best, cursor = NoBlock,
           NEW b, b = Intermediate(target), NEW v \in ViewSet,
           v.ok => MayReorganize(b) /\ LinksWithin(v.next, b), Switched(v, b)
    PROVE  ChainInv' /\ b \in Block
<1>1. BehindInv /\ WorkInv
  BY DEF ChainInv, BehindInv
<1>2. BehindInv'
  BY <1>1, SwitchedBehind
<1>3. target \in Block /\ best \in Block /\ b \in Block
  BY <1>1, TargetBlock, IntermediateIsHeavier
<1>4. CurrentTip = best
  BY DEF CurrentTip
<1>5. CASE v.ok
  <2>1. Commit(v, b) /\ pnext' = Relinked(ForkOf(best, b), b) /\ Advanced(b)
    BY <1>5 DEF Switched
  <2>2. LinksWithin(pnext, best) /\ \A c \in Block : pnext[c] \in Block \cup {NoBlock}
    BY <1>4 DEF ChainInv, TableInv
  <2>3. LinksWithin(pnext', b)
    BY <1>3, <2>1, <2>2, WithinRelinked
  <2>4. pnext' \in [Block -> Block \cup {NoBlock}]
    <3>1. \A c \in Branch[b] : c # b => Ancestor(b, Height[c] + 1) \in Block
      BY <1>3, NextOnBranch
    <3> QED
      BY <2>1, <2>2, <3>1 DEF Relinked
  <2> QED
    BY <1>2, <1>3, <1>5, <2>1, <2>3, <2>4, CommittedChain
<1>6. CASE ~ v.ok
  <2>1. Abort(v) /\ Refused /\ UNCHANGED pnext
    BY <1>6 DEF Switched
  <2>2. CurrentTip' = best /\ best \in Branch[best]
    BY <1>3, <2>1, BranchType DEF CurrentTip, Refused
  <2> QED
    BY <1>2, <1>3, <1>4, <2>1, <2>2, AbortedChain
<1> QED
  BY <1>5, <1>6

\* The next of the further blocks.
LEMMA NextBlock ==
    ASSUME WorkInv, target # NoBlock, cursor # NoBlock,
           NEW b, b = Ancestor(target, Height[cursor] + 1)
    PROVE  /\ b \in Block \ {Genesis} /\ Parent[b] = cursor /\ b \in Branch[target]
           /\ target \in Block /\ cursor \in Branch[target]
<1>1. /\ target \in Block /\ cursor \in Branch[target] /\ cursor # target /\ cursor \in Block
  BY DEF WorkInv
<1>2. Height[cursor] \in Nat /\ Height[target] \in Nat /\ Height[cursor] < Height[target]
  BY <1>1, BranchType, AncestorsBelow
<1>3. Height[cursor] + 1 \in 1 .. Height[target] /\ Height[cursor] + 1 - 1 = Height[cursor]
  BY <1>2
<1>4. Ancestor(target, Height[cursor]) = cursor
  BY <1>1, AncestorAt
<1>5. PICK h \in 1 .. Height[target] : h = Height[cursor] + 1 /\ h - 1 = Height[cursor]
  BY <1>2, <1>3
<1>6. /\ Ancestor(target, h) \in Branch[target] /\ Ancestor(target, h) \in Block \ {Genesis}
      /\ Parent[Ancestor(target, h)] = Ancestor(target, h - 1)
  BY <1>1, AncestorStep
<1>7. b = Ancestor(target, h) /\ Ancestor(target, h - 1) = cursor
  BY <1>4, <1>5
<1> QED
  BY <1>1, <1>6, <1>7

LEMMA ContinueChain ==
    ASSUME ChainInv, target # NoBlock, cursor # NoBlock,
           NEW b, b = Ancestor(target, Height[cursor] + 1),
           NEW v \in ViewSet, LinksWithin(v.next, b), Continued(v, b)
    PROVE  ChainInv'
<1>1. BehindInv /\ WorkInv
  BY DEF ChainInv, BehindInv
<1>2. BehindInv'
  BY <1>1, SecondaryBehind
<1>3. /\ b \in Block \ {Genesis} /\ Parent[b] = cursor /\ target \in Block
      /\ cursor \in Branch[target]
  BY <1>1, NextBlock
<1>4. CurrentTip = cursor
  BY DEF CurrentTip
<1>5. CASE v.ok /\ Attached(v, b) /\ Advanced(b)
  <2>1. Commit(v, b) /\ pnext' = [pnext EXCEPT ![Parent[b]] = b]
    BY <1>5 DEF Attached
  <2>2. pnext' \in [Block -> Block \cup {NoBlock}] /\ LinksWithin(pnext', b)
    BY <1>3, <1>4, <2>1, LinkedWithin
  <2> QED
    BY <1>2, <1>3, <1>5, <2>1, <2>2, CommittedChain
<1>6. CASE Abort(v) /\ NewBest(target) /\ UNCHANGED <<pnext, pool>>
  <2>1. CurrentTip' = target
    BY <1>6 DEF CurrentTip, NewBest
  <2> QED
    BY <1>2, <1>3, <1>4, <1>6, <2>1, AbortedChain
<1> QED
  BY <1>5, <1>6 DEF Continued

LEMMA RestartChain ==
    ASSUME ChainInv, Restarted
    PROVE  ChainInv'
<1>1. /\ best' = dbBest /\ pnext' = dbNext /\ moneySupply' = dbSupply
      /\ target' = NoBlock /\ cursor' = NoBlock
      /\ UNCHANGED <<index, dbBest, dbNext, dbSupply, dbTx>>
  BY DEF Restarted, LoadBlockIndex, dbVars
<1>2. WorkInv'
  BY CrashWork DEF ChainInv, BehindInv
<1>3. dbBest \in Block
  BY DEF ChainInv, BehindInv, WorkInv
<1>4. BehindInv'
  BY <1>1, <1>2, <1>3, BranchType DEF BehindInv
<1>5. TableInv'
  BY <1>1, <1>2 DEF TableInv, ChainInv
<1>6. CurrentTip' = dbBest
  BY <1>1 DEF CurrentTip
<1>7. LinksWithin(dbNext', dbBest') /\ LinksWithin(pnext', CurrentTip')
  BY <1>1, <1>6 DEF ChainInv
<1> QED
  BY <1>4, <1>5, <1>7 DEF ChainInv

LEMMA SameChain ==
    ASSUME ChainInv, WorkInv',
           UNCHANGED <<dbBest, dbNext, dbSupply, dbTx, best, pnext, moneySupply, cursor>>
    PROVE  ChainInv'
<1>1. BehindInv' /\ TableInv'
  BY DEF ChainInv, BehindInv, TableInv
<1>2. CurrentTip' = CurrentTip
  BY DEF CurrentTip
<1>3. LinksWithin(dbNext', dbBest') /\ LinksWithin(pnext', CurrentTip')
  BY <1>2 DEF ChainInv
<1> QED
  BY <1>1, <1>3 DEF ChainInv

-----------------------------------------------------------------------------
(* One size out, one in.                                                     *)

\* The sizes above a child of a block are those above the block without the
\* lowest, and the child's.
LEMMA RecentShift ==
    ASSUME NEW b \in Block \ {Genesis}, Past <= Height[Parent[b]]
    PROVE  LET p == Parent[b]
               old == Ancestor(p, Height[b] - Past)
           IN  /\ old \in Block
               /\ \A y \in Nat : Smaller(RecentSizes(p), y) + (IF Size[b] < y THEN 1 ELSE 0)
                                 = Smaller(RecentSizes(b), y) + (IF Size[old] < y THEN 1 ELSE 0)
               /\ \E i \in 1 .. Past : RecentSizes(p)[i] = Size[old]
<1> DEFINE p == Parent[b]
           old == Ancestor(p, Height[b] - Past)
<1>1. p \in Block /\ Branch[p] \subseteq Branch[b] /\ b \in Block
  BY BranchTxs
<1>2. /\ Past \in Nat \ {0} /\ Height[p] \in Nat /\ Height[b] = Height[p] + 1
      /\ Past <= Height[p] /\ Past <= Height[b]
  BY <1>1, SizeAssumption, BranchType
<1>3. PICK s : s = RecentSizes(p)
  OBVIOUS
<1>4. PICK t : t = RecentSizes(b)
  OBVIOUS
<1>5. /\ s \in Seq(Nat) /\ Len(s) = Past
      /\ \A i \in 1 .. Past : s[i] = Size[Ancestor(p, Height[p] + 1 - i)]
  BY <1>1, <1>2, <1>3, RecentType
<1>6. /\ t \in Seq(Nat) /\ Len(t) = Past
      /\ \A i \in 1 .. Past : t[i] = Size[Ancestor(b, Height[b] + 1 - i)]
  BY <1>1, <1>2, <1>4, RecentType
<1>7. old \in Block
  <2>1. Height[b] - Past \in 0 .. Height[p]
    BY <1>2
  <2> QED
    BY <1>1, <2>1, AncestorOf
<1>8. s[Past] = Size[old]
  <2>1. Past \in 1 .. Past /\ Height[p] + 1 - Past = Height[b] - Past
    BY <1>2
  <2> QED
    BY <1>5, <2>1
<1>9. t[1] = Size[b]
  <2>1. 1 \in 1 .. Past /\ Height[b] + 1 - 1 = Height[b]
    BY <1>2
  <2>2. Ancestor(b, Height[b]) = b
    BY <1>1, BranchType, AncestorAt
  <2> QED
    BY <1>6, <2>1, <2>2
<1> HIDE DEF p, old
<1>10. ASSUME NEW j \in 1 .. Past - 1
       PROVE  s[j] = t[j + 1]
  <2>1. /\ j \in 1 .. Past /\ j + 1 \in 1 .. Past /\ Height[b] + 1 - (j + 1) = Height[p] + 1 - j
        /\ Height[p] + 1 - j \in 0 .. Height[p]
    BY <1>2
  <2>2. PICK a : a = Ancestor(p, Height[p] + 1 - j)
    OBVIOUS
  <2>3. a \in Branch[p] /\ Height[a] = Height[p] + 1 - j
    BY <1>1, <2>1, <2>2, AncestorOf
  <2>4. a \in Branch[b] /\ Ancestor(b, Height[a]) = a
    BY <1>1, <2>3, AncestorAt
  <2>5. s[j] = Size[a]
    BY <1>5, <2>1, <2>2
  <2>6. t[j + 1] = Size[Ancestor(b, Height[b] + 1 - (j + 1))]
    BY <1>6, <2>1
  <2> QED
    BY <2>1, <2>3, <2>4, <2>5, <2>6
<1>11. Past \in 1 .. Len(s) /\ 1 \in 1 .. Len(t)
  BY <1>2, <1>5, <1>6
<1>12. /\ Without(s, Past) \in Seq(Nat) /\ Len(Without(s, Past)) = Past - 1
       /\ \A y \in Nat : Smaller(s, y) = Smaller(Without(s, Past), y)
                                         + (IF s[Past] < y THEN 1 ELSE 0)
       /\ \A y \in Nat : Smaller(Without(s, Past), y) \in Nat
  <2>1. Without(s, Past) \in Seq(Nat) /\ Len(Without(s, Past)) = Past - 1
    BY <1>5, <1>11, WithoutCounts
  <2>2. \A y \in Nat : Smaller(Without(s, Past), y) \in 0 .. Past - 1
    BY <2>1, SmallerType
  <2>3. \A y \in Nat : Smaller(Without(s, Past), y) \in Nat
    BY <1>2, <2>2
  <2>4. \A y \in Nat : Smaller(s, y) = Smaller(Without(s, Past), y)
                                     + (IF s[Past] < y THEN 1 ELSE 0)
    BY <1>5, <1>11, WithoutCounts
  <2> QED
    BY <2>1, <2>3, <2>4
<1>13. /\ Without(t, 1) \in Seq(Nat) /\ Len(Without(t, 1)) = Past - 1
       /\ \A y \in Nat : Smaller(t, y) = Smaller(Without(t, 1), y)
                                         + (IF t[1] < y THEN 1 ELSE 0)
  BY <1>6, <1>11, WithoutCounts
<1>14. Without(s, Past) = Without(t, 1)
  <2>1. ASSUME NEW j \in 1 .. Past - 1
        PROVE  Without(s, Past)[j] = Without(t, 1)[j]
    <3>1. j < Past /\ ~ (j < 1)
      BY <1>2
    <3>2. Without(s, Past)[j] = s[j]
      BY <1>5, <3>1 DEF Without
    <3>3. Without(t, 1)[j] = t[j + 1]
      BY <1>6, <3>1 DEF Without
    <3> QED
      BY <1>10, <3>2, <3>3
  <2> QED
    BY <1>12, <1>13, <2>1, SameLists
<1>15. \A y \in Nat : Smaller(s, y) + (IF Size[b] < y THEN 1 ELSE 0)
                      = Smaller(t, y) + (IF Size[old] < y THEN 1 ELSE 0)
  <2> SUFFICES ASSUME NEW y \in Nat
               PROVE  Smaller(s, y) + (IF Size[b] < y THEN 1 ELSE 0)
                      = Smaller(t, y) + (IF Size[old] < y THEN 1 ELSE 0)
    OBVIOUS
  <2>1. PICK m \in Nat : m = Smaller(Without(s, Past), y)
    BY <1>12
  <2>2. Smaller(s, y) = m + (IF Size[old] < y THEN 1 ELSE 0)
    BY <1>8, <1>12, <2>1
  <2>3. Smaller(t, y) = m + (IF Size[b] < y THEN 1 ELSE 0)
    BY <1>9, <1>13, <1>14, <2>1
  <2> QED
    BY <2>2, <2>3
<1>16. \E i \in 1 .. Past : s[i] = Size[old]
  BY <1>2, <1>8
<1> QED
  BY <1>3, <1>4, <1>7, <1>15, <1>16 DEF p, old

\* Lists with the same counts have the same elements.
LEMMA SameElements ==
    ASSUME NEW s \in Seq(Nat), NEW t \in Seq(Nat), SameSizes(s, t), NEW i \in 1 .. Len(t)
    PROVE  t[i] \in Range(s)
<1>1. PICK x \in Nat : x = t[i]
  OBVIOUS
<1>2. x + 1 \in Nat /\ x <= x + 1 /\ \A y \in Nat : x <= y /\ y < x + 1 => y = x
  OBVIOUS
<1>3. Smaller(t, x) < Smaller(t, x + 1)
  <2>1. i \in DOMAIN t /\ x <= t[i] /\ t[i] < x + 1
    BY <1>1
  <2> QED
    BY <1>2, <2>1, SmallerGrows
<1>4. Smaller(s, x) < Smaller(s, x + 1)
  BY <1>2, <1>3 DEF SameSizes
<1>5. PICK j \in DOMAIN s : x <= s[j] /\ s[j] < x + 1
  BY <1>2, <1>4, SmallerGrows
<1>6. s[j] = x
  <2>1. s[j] \in Nat
    OBVIOUS
  <2> QED
    BY <1>2, <1>5, <2>1
<1> QED
  BY <1>1, <1>6 DEF Range

\* The list of the best block with one size exchanged is that of its child.
LEMMA SteadySizes ==
    ASSUME NEW b \in Block \ {Genesis}, Past <= Height[Parent[b]],
           NEW old, old = Ancestor(Parent[b], Height[b] - Past),
           NEW r \in Replaced(Sorted(RecentSizes(Parent[b])), Size[old], Size[b])
    PROVE  r = Sorted(RecentSizes(b))
<1> DEFINE p == Parent[b]
<1>1. p \in Block /\ b \in Block /\ old \in Block
  BY RecentShift, BranchTxs
<1>2. Past <= Height[b] /\ Past \in Nat
  <2>1. Height[b] = Height[p] + 1 /\ Height[p] \in Nat /\ Past \in Nat
    BY <1>1, BranchType, SizeAssumption
  <2> QED
    BY <2>1
<1>3. PICK s : s = RecentSizes(p)
  OBVIOUS
<1>4. PICK t : t = RecentSizes(b)
  OBVIOUS
<1>5. s \in Seq(Nat) /\ Len(s) = Past /\ t \in Seq(Nat) /\ Len(t) = Past
  BY <1>1, <1>2, <1>3, <1>4, RecentType
<1>6. PICK o \in Nat : o = Size[old]
  BY <1>1, SizeAssumption
<1>7. PICK n \in Nat : n = Size[b]
  BY <1>1, SizeAssumption
<1>8. /\ \A y \in Nat : Smaller(s, y) + (IF n < y THEN 1 ELSE 0)
                        = Smaller(t, y) + (IF o < y THEN 1 ELSE 0)
      /\ \E i \in 1 .. Past : s[i] = o
  BY <1>3, <1>4, <1>6, <1>7, RecentShift
<1>9. PICK u : u = Sorted(s)
  OBVIOUS
<1>10. u \in Seq(Nat) /\ Len(u) = Past /\ Ascending(u) /\ SameSizes(u, s)
  BY <1>5, <1>9, SortedRanks, SortedIsAscending
<1>11. o \in Range(u)
  BY <1>5, <1>8, <1>10, SameElements
<1>12. r \in Replaced(u, o, n)
  BY <1>3, <1>6, <1>7, <1>9
<1>13. /\ r \in Seq(Nat) /\ Len(r) = Past /\ Ascending(r)
       /\ \A y \in Nat : Smaller(r, y) + (IF o < y THEN 1 ELSE 0)
                         = Smaller(u, y) + (IF n < y THEN 1 ELSE 0)
  BY <1>10, <1>11, <1>12, ReplacedType, ReplacedInOrder
<1>14. ASSUME NEW y \in Nat
       PROVE  Smaller(r, y) = Smaller(t, y)
  <2>1. Smaller(r, y) \in 0 .. Past /\ Smaller(t, y) \in 0 .. Past /\ Smaller(s, y) \in 0 .. Past
    BY <1>5, <1>13, SmallerType
  <2>2. Smaller(u, y) = Smaller(s, y)
    BY <1>10 DEF SameSizes
  <2>3. Smaller(r, y) + (IF o < y THEN 1 ELSE 0) = Smaller(s, y) + (IF n < y THEN 1 ELSE 0)
    BY <1>13, <2>2
  <2>4. Smaller(s, y) + (IF n < y THEN 1 ELSE 0) = Smaller(t, y) + (IF o < y THEN 1 ELSE 0)
    BY <1>8
  <2> QED
    BY <1>2, <2>1, <2>3, <2>4
<1>15. SameSizes(r, t)
  BY <1>5, <1>13, <1>14 DEF SameSizes
<1> QED
  BY <1>4, <1>5, <1>13, <1>15, SortedUnique

-----------------------------------------------------------------------------
(* The inductive invariant.                                                  *)

\* While only children of the best block are connected the list is sorted and
\* complete, and the limit is that of its median.
SteadyInv ==
    /\ phase = "fresh" => blocksizes = <<>> /\ sorted = FALSE
    /\ phase = "steady" =>
          /\ Past <= Height[best] /\ sorted = TRUE
          /\ blocksizes = Sorted(RecentSizes(best))
          /\ maxBlockSize = LimitOf(Median(blocksizes))

SizedInv ==
    /\ ChainInv /\ SizesOK /\ SteadyInv
    /\ FoundOnChain(lastFound)

\* What GetBlockSizes makes of the list of the best block for a child of it.
LEMMA SteadyList ==
    ASSUME SizedInv, cursor = NoBlock, NEW b \in Block \ {Genesis}, Parent[b] = best,
           phase = "steady" \/ (phase = "fresh" /\ Height[b] >= Past),
           NEW d \in GetBlockSizes(Calculator, b), d.alive
    PROVE  /\ d \in CalculatorSet /\ Past <= Height[b]
           /\ (IF d.sorted THEN d.sizes ELSE Sorted(d.sizes)) = Sorted(RecentSizes(b))
<1>1. /\ best \in Block /\ Height[best] \in Nat /\ Height[b] = Height[best] + 1
      /\ Past \in Nat \ {0} /\ Height[b] \in Nat /\ b \in Block
  BY BranchType, SizeAssumption DEF SizedInv, ChainInv, BehindInv, WorkInv
<1>2. Past <= Height[b]
  BY <1>1 DEF SizedInv, SteadyInv
<1>3. /\ Calculator \in CalculatorSet /\ Calculator.sizes = blocksizes
      /\ Calculator.sorted = sorted /\ Calculator.last = lastFound
  BY CalculatorType DEF SizedInv
<1>4. LinksWithin(pnext, best) /\ lastFound \in Branch[best] \cup {NoBlock}
  BY DEF SizedInv, ChainInv, CurrentTip, FoundOnChain
<1>5. d \in CalculatorSet /\ d.sorted = sorted
  BY <1>1, <1>3, <1>4, GetBlockSizesType
<1>6. CASE phase = "fresh"
  <2>1. blocksizes = <<>> /\ sorted = FALSE
    BY <1>6 DEF SizedInv, SteadyInv
  <2>2. d = [Calculator EXCEPT !.sizes = RecentSizes(b)]
    BY <1>1, <1>2, <1>3, <2>1 DEF GetBlockSizes
  <2>3. d.sizes = RecentSizes(b)
    BY <1>3, <2>2, SizesChanged
  <2> QED
    BY <1>2, <1>5, <2>1, <2>3
<1>7. CASE phase = "steady"
  <2>1. /\ sorted = TRUE /\ blocksizes = Sorted(RecentSizes(best)) /\ Past <= Height[best]
    BY <1>7 DEF SizedInv, SteadyInv
  <2>2. RecentSizes(best) \in Seq(Nat) /\ Len(RecentSizes(best)) = Past
    BY <1>1, <2>1, RecentType
  <2>3. Len(blocksizes) = Past /\ blocksizes # <<>>
    <3>1. Len(blocksizes) = Past
      BY <2>1, <2>2, SortedRanks
    <3> QED
      BY <1>1, <3>1
  <2>4. PICK first : first = FindBlockByHeight(lastFound, Height[b] - Past)
    OBVIOUS
  <2>5. PICK c \in CalculatorSet : c = Calculator
    BY <1>3
  <2>6. d \in GetBlockSizes(c, b) /\ c.sizes = blocksizes /\ c.last = lastFound
    BY <1>3, <2>5
  <2>7. \/ first = NoBlock /\ d = [c EXCEPT !.alive = FALSE]
        \/ /\ first # NoBlock
           /\ \E s \in Replaced(c.sizes, Size[first], Size[b]) :
                 d = [c EXCEPT !.sizes = s, !.last = first]
    <3>1. ~ (Height[b] < Past) /\ c.sizes # <<>>
      BY <1>1, <1>2, <2>3, <2>6
    <3>2. first = FindBlockByHeight(c.last, Height[b] - Past)
      BY <2>4, <2>6
    <3>3. d \in IF first = NoBlock THEN {[c EXCEPT !.alive = FALSE]}
                ELSE {[c EXCEPT !.sizes = s, !.last = first] :
                          s \in Replaced(c.sizes, Size[first], Size[b])}
      BY <2>6, <3>1, <3>2, Zenon DEF GetBlockSizes
    <3> QED
      BY <3>3
  <2>8. d # [c EXCEPT !.alive = FALSE]
    <3>1. [c EXCEPT !.alive = FALSE] =
              [sizes |-> c.sizes, sorted |-> c.sorted, limit |-> c.limit,
               last |-> c.last, alive |-> FALSE]
      BY AliveChanged, Zenon
    <3> QED
      BY <3>1
  <2>9. PICK s \in Replaced(blocksizes, Size[first], Size[b]) :
              first # NoBlock /\ d = [c EXCEPT !.sizes = s, !.last = first]
    BY <2>6, <2>7, <2>8
  <2>10. first = Ancestor(best, Height[b] - Past)
    <3>1. PICK h \in Nat : h = Height[b] - Past
      BY <1>1, <1>2
    <3>2. SearchFrom(lastFound, h) \in Branch[best]
      BY <1>1, <1>4, BranchType, ChainAssumption, StartBlock
    <3>3. first = NoBlock \/ first = Ancestor(best, h)
      BY <1>1, <1>4, <2>4, <3>1, <3>2, FindOnTip
    <3> QED
      BY <2>9, <3>1, <3>3
  <2>11. d.sizes = s
    <3>1. [c EXCEPT !.sizes = s, !.last = first] =
              [sizes |-> s, sorted |-> c.sorted, limit |-> c.limit,
               last |-> first, alive |-> c.alive]
      BY LastChanged
    <3>2. d = [sizes |-> s, sorted |-> c.sorted, limit |-> c.limit,
               last |-> first, alive |-> c.alive]
      BY <2>9, <3>1, Zenon
    <3> QED
      BY <3>2
  <2>12. s = Sorted(RecentSizes(b))
    BY <2>1, <2>9, <2>10, SteadySizes
  <2> QED
    BY <1>2, <1>5, <2>1, <2>11, <2>12
<1> QED
  BY <1>6, <1>7

\* ConnectBlock of a child of the best block leaves the limit of its branch.
LEMMA SteadyResult ==
    ASSUME SizedInv, cursor = NoBlock, NEW b \in Block \ {Genesis}, Parent[b] = best,
           phase = "steady" \/ (phase = "fresh" /\ Height[b] >= Past),
           NEW r \in Connecting({[v |-> View, c |-> Calculator]}, b), r.v.ok, r.c.alive
    PROVE  /\ Past <= Height[b] /\ r.c.sorted = TRUE
           /\ r.c.sizes = Sorted(RecentSizes(b)) /\ r.c.limit = LimitOf(Median(r.c.sizes))
<1>1. PICK q : q = [v |-> View, c |-> Calculator]
  OBVIOUS
<1>2. /\ View \in ViewSet /\ View.ok = TRUE /\ Calculator \in CalculatorSet
      /\ Calculator.alive = TRUE
  BY ViewOfTables, CalculatorType DEF SizedInv, ChainInv
<1>3. q \in ResultSet /\ q.v = View /\ q.c = Calculator
  BY <1>1, <1>2, ResultOf
<1>4. r \in Connecting({q}, b)
  BY <1>1
<1>5. \/ r = [v |-> [q.v EXCEPT !.ok = FALSE], c |-> q.c]
      \/ \E c \in ComputeBlockSize(q.c, b) : r = [v |-> ConnectBlock(q.v, b), c |-> c]
  <2>1. r \in IF ~ q.v.ok \/ ~ q.c.alive THEN {q}
              ELSE IF Size[b] > q.c.limit
                   THEN {[v |-> [q.v EXCEPT !.ok = FALSE], c |-> q.c]}
              ELSE {[v |-> ConnectBlock(q.v, b), c |-> c] : c \in ComputeBlockSize(q.c, b)}
    BY <1>4 DEF Connecting
  <2> QED
    BY <1>2, <1>3, <2>1
<1>6. r # [v |-> [q.v EXCEPT !.ok = FALSE], c |-> q.c]
  <2>1. PICK v \in ViewSet : v = q.v
    BY <1>2, <1>3
  <2>2. PICK w : w = [q.v EXCEPT !.ok = FALSE]
    OBVIOUS
  <2>3. FALSE \in BOOLEAN
    OBVIOUS
  <2>4. PICK ok \in BOOLEAN : ok = FALSE
    BY <2>3
  <2>5. w = [v EXCEPT !.ok = ok]
    BY <2>1, <2>2, <2>4, Zenon
  <2>6. w.ok = ok
    BY <2>5, FlagOnly
  <2>7. r # [v |-> w, c |-> q.c]
    BY <2>4, <2>6
  <2> QED
    BY <2>2, <2>7, Zenon
<1>7. PICK c \in ComputeBlockSize(Calculator, b) : r = [v |-> ConnectBlock(q.v, b), c |-> c]
  BY <1>3, <1>5, <1>6
<1>8. r.c = c
  BY <1>7
<1> DEFINE Sizes(d) == IF d.sorted THEN d.sizes ELSE Sorted(d.sizes)
           Limit(d) == LimitOf(IF Len(Sizes(d)) = Past THEN Median(Sizes(d)) ELSE 0)
<1>9. PICK d \in GetBlockSizes(Calculator, b) :
           c = [d EXCEPT !.sizes = Sizes(d), !.sorted = TRUE, !.limit = Limit(d)]
  BY DEF ComputeBlockSize
<1>10. d \in CalculatorSet
  <2>1. PICK tip \in Block : LinksWithin(pnext, tip)
    BY TipOfSearch DEF SizedInv
  <2>2. best \in Block
    BY TipOfSearch DEF SizedInv
  <2> QED
    BY <1>2, <1>9, <2>1, <2>2, GetBlockSizesType
<1> HIDE DEF Sizes, Limit
<1>11. c = [sizes |-> Sizes(d), sorted |-> TRUE, limit |-> Limit(d),
            last |-> d.last, alive |-> d.alive]
  BY <1>9, <1>10, LimitChanged, Zenon
<1>12. c.sizes = Sizes(d) /\ c.sorted = TRUE /\ c.limit = Limit(d) /\ c.alive = d.alive
  BY <1>11
<1>13. Past <= Height[b] /\ Sizes(d) = Sorted(RecentSizes(b))
  BY <1>8, <1>9, <1>12, SteadyList DEF Sizes
<1>14. Len(Sizes(d)) = Past
  BY <1>13, RecentType, SortedRanks
<1>15. Limit(d) = LimitOf(Median(Sizes(d)))
  BY <1>14 DEF Limit
<1> QED
  BY <1>8, <1>12, <1>13, <1>15

-----------------------------------------------------------------------------
(* Every step keeps it.                                                      *)

\* The results of connecting one block to the stored chain.
LEMMA ConnectedResults ==
    ASSUME SizedInv, NEW b \in Block \ {Genesis}, CurrentTip = Parent[b],
           dbBest \in Branch[Parent[b]],
           NEW r \in Connecting({[v |-> View, c |-> Calculator]}, b)
    PROVE  /\ r \in ResultSet /\ LinksWithin(r.v.next, b)
           /\ FoundOnChain(r.c.last)
<1>1. PICK q : q = [v |-> View, c |-> Calculator]
  OBVIOUS
<1>2. /\ View \in ViewSet /\ View.next = dbNext
      /\ Calculator \in CalculatorSet /\ Calculator.last = lastFound
  BY ViewOfTables, CalculatorType DEF SizedInv, ChainInv
<1>3. q \in ResultSet /\ q.v = View /\ q.c = Calculator
  BY <1>1, <1>2, ResultOf
<1>4. LinksWithin(dbNext, Parent[b])
  BY BranchTxs, WithinWider DEF SizedInv, ChainInv
<1>5. GoodResults({q}, Parent[b]) /\ {q} \in SUBSET ResultSet
  BY <1>2, <1>3, <1>4 DEF GoodResults, SizedInv
<1>6. pnext[b] = NoBlock
  BY LinkedWithin DEF SizedInv
<1>7. GoodResults(Connecting({q}, b), b)
  BY <1>5, <1>6, ConnectingGood DEF SizedInv
<1> QED
  BY <1>1, <1>7 DEF GoodResults

\* What ComputeBlockSize leaves behind.
LEMMA ComputedTypes ==
    ASSUME SizedInv, NEW r \in ResultSet, NEW b, NEW ok, Concluded(r, b, ok)
    PROVE  SizesOK' /\ (lastFound' = NoBlock \/ (best' = best /\ lastFound' = r.c.last))
<1>1. r.c \in CalculatorSet
  BY ResultFields
<1>2. /\ blocksizes' = r.c.sizes /\ sorted' = r.c.sorted /\ maxBlockSize' = r.c.limit
      /\ lastFound' = (IF best' # best THEN NoBlock ELSE r.c.last)
      /\ phase' \in {"steady", "disturbed"}
  BY DEF Concluded, Computed, LastAfter, Noted
<1>3. /\ r.c.sizes \in Seq(Nat) /\ Len(r.c.sizes) \in {0, Past} /\ r.c.sorted \in BOOLEAN
      /\ r.c.limit \in Nat /\ r.c.last \in Block \cup {NoBlock}
  BY <1>1, CalculatorFields
<1> QED
  BY <1>2, <1>3 DEF SizesOK

LEMMA RestartSized ==
    ASSUME SizedInv, Restart
    PROVE  SizedInv'
<1>1. ChainInv'
  BY RestartChain DEF SizedInv, Restart
<1>2. /\ blocksizes' = <<>> /\ sorted' = FALSE /\ maxBlockSize' = InitialLimit
      /\ lastFound' = NoBlock /\ phase' = "fresh"
  BY DEF Restart, Unset
<1>3. /\ <<>> \in Seq(Nat) /\ Len(<<>>) = 0 /\ FALSE \in BOOLEAN
  OBVIOUS
<1>4. SizesOK'
  BY <1>2, <1>3, SizeAssumption DEF SizesOK
<1>5. SteadyInv'
  BY <1>2 DEF SteadyInv
<1>6. FoundOnChain(lastFound)'
  BY <1>2 DEF FoundOnChain
<1> QED
  BY <1>1, <1>4, <1>5, <1>6 DEF SizedInv

LEMMA InitSized == SizedInit => SizedInv
<1> SUFFICES ASSUME SizedInit PROVE SizedInv
  OBVIOUS
<1>1. Init /\ Unset(blocksizes, sorted, maxBlockSize, lastFound, phase)
  BY DEF SizedInit
<1>2. WorkInv /\ TableInv
  BY <1>1, InitPool, TypesOfTables DEF PoolInv
<1>3. dbBest = Genesis /\ best = Genesis /\ cursor = NoBlock
      /\ dbNext = [b \in Block |-> NoBlock] /\ pnext = dbNext
  BY <1>1 DEF Init
<1>4. BehindInv
  BY <1>2, <1>3, TreeAssumption DEF BehindInv
<1>5. LinksWithin(dbNext, dbBest) /\ LinksWithin(pnext, CurrentTip)
  BY <1>3 DEF LinksWithin
<1>6. ChainInv
  BY <1>2, <1>4, <1>5 DEF ChainInv
<1>7. /\ blocksizes = <<>> /\ sorted = FALSE /\ maxBlockSize = InitialLimit
      /\ lastFound = NoBlock /\ phase = "fresh"
  BY <1>1 DEF Unset
<1>8. /\ <<>> \in Seq(Nat) /\ Len(<<>>) = 0 /\ FALSE \in BOOLEAN
  OBVIOUS
<1>9. SizesOK
  BY <1>7, <1>8, SizeAssumption DEF SizesOK
<1>10. SteadyInv /\ FoundOnChain(lastFound)
  BY <1>7 DEF SteadyInv, FoundOnChain
<1> QED
  BY <1>6, <1>9, <1>10 DEF SizedInv

LEMMA ExtendSized ==
    ASSUME SizedInv, SizedExtendBest
    PROVE  SizedInv'
<1>1. /\ target # NoBlock /\ Parent[target] = best
      /\ \E r \in Connecting({[v |-> View, c |-> Calculator]}, target) :
             Survived(r.c.alive, Extended(r.v, target) /\ Concluded(r, target, r.v.ok))
  BY DEF SizedExtendBest
<1>2. PICK r \in Connecting({[v |-> View, c |-> Calculator]}, target) :
             Survived(r.c.alive, Extended(r.v, target) /\ Concluded(r, target, r.v.ok))
  BY <1>1
<1>3. ChainInv /\ WorkInv /\ cursor = NoBlock /\ dbBest \in Branch[best]
  BY <1>1 DEF SizedInv, ChainInv, BehindInv, WorkInv
<1>4. target \in Block \ {Genesis} /\ CurrentTip = Parent[target]
  BY <1>1, <1>3, TargetBlock DEF CurrentTip
<1>5. r \in ResultSet /\ r.v \in ViewSet /\ LinksWithin(r.v.next, target) /\ FoundOnChain(r.c.last)
  BY <1>1, <1>3, <1>4, ConnectedResults, ResultFields
<1>6. CASE Restart
  BY <1>6, RestartSized
<1>7. CASE r.c.alive /\ Extended(r.v, target) /\ Concluded(r, target, r.v.ok)
  <2>1. ChainInv'
    BY <1>1, <1>3, <1>5, <1>7, ExtendChain
  <2>2. SizesOK' /\ (lastFound' = NoBlock \/ (best' = best /\ lastFound' = r.c.last))
    BY <1>5, <1>7, ComputedTypes
  <2>3. FoundOnChain(lastFound)'
    <3>1. best' = best => CurrentTip' = CurrentTip
      BY <1>3, <1>7 DEF Extended, NewBest, Refused, CurrentTip
    <3> QED
      BY <1>5, <2>2, <3>1 DEF FoundOnChain
  <2>4. /\ phase' # "fresh"
        /\ phase' = "steady" =>
               /\ phase = "steady" \/ (phase = "fresh" /\ Height[target] >= Past)
               /\ r.v.ok
    BY <1>7 DEF Concluded, Noted
  <2>5. ASSUME phase' = "steady"
        PROVE  /\ Past <= Height[best'] /\ sorted' = TRUE
               /\ blocksizes' = Sorted(RecentSizes(best'))
               /\ maxBlockSize' = LimitOf(Median(blocksizes'))
    <3>1. /\ Past <= Height[target] /\ r.c.sorted = TRUE
          /\ r.c.sizes = Sorted(RecentSizes(target))
          /\ r.c.limit = LimitOf(Median(r.c.sizes))
      BY <1>1, <1>3, <1>4, <1>7, <2>4, <2>5, SteadyResult
    <3>2. best' = target
      BY <1>7, <2>4, <2>5 DEF Extended, NewBest
    <3>3. blocksizes' = r.c.sizes /\ sorted' = r.c.sorted /\ maxBlockSize' = r.c.limit
      BY <1>7 DEF Concluded, Computed
    <3> QED
      BY <3>1, <3>2, <3>3
  <2>6. SteadyInv'
    BY <2>4, <2>5 DEF SteadyInv
  <2> QED
    BY <2>1, <2>2, <2>3, <2>6 DEF SizedInv
<1> QED
  BY <1>2, <1>6, <1>7 DEF Survived

LEMMA ReorganizeSized ==
    ASSUME SizedInv, SizedReorganize
    PROVE  SizedInv'
<1>1. target # NoBlock /\ Parent[target] # best /\ cursor = NoBlock
  BY DEF SizedReorganize
<1>2. PICK b : b = Intermediate(target)
  OBVIOUS
<1>3. ChainInv /\ WorkInv /\ SizesOK /\ FoundOnChain(lastFound) /\ best \in Block
  BY <1>1 DEF SizedInv, ChainInv, BehindInv, WorkInv
<1>4. b \in Block
  BY <1>1, <1>2, <1>3, TargetBlock, IntermediateIsHeavier
<1>5. \/ /\ ~ MayReorganize(b)
         /\ Switched([View EXCEPT !.ok = FALSE], b) /\ UNCHANGED sizeVars
      \/ /\ MayReorganize(b)
         /\ \E r \in FoldLeft(ConnectingChecked, {[v |-> Unwound(b), c |-> Calculator]},
                              Path(ForkOf(best, b), b)) :
                Survived(r.c.alive, Switched(r.v, b) /\ Concluded(r, b, FALSE))
  BY <1>2 DEF SizedReorganize
<1>6. CASE ~ MayReorganize(b) /\ Switched([View EXCEPT !.ok = FALSE], b) /\ UNCHANGED sizeVars
  <2>1. PICK v : v = [View EXCEPT !.ok = FALSE]
    OBVIOUS
  <2>2. v \in ViewSet /\ ~ v.ok
    <3>1. View \in ViewSet
      BY <1>3, ViewOfTables DEF ChainInv
    <3>2. PICK ok \in BOOLEAN : ok = FALSE
      OBVIOUS
    <3>3. v = [View EXCEPT !.ok = ok]
      BY <2>1, <3>2, Zenon
    <3> QED
      BY <3>1, <3>2, <3>3, FlagOnly
  <2>3. Switched(v, b)
    BY <1>6, <2>1, Zenon
  <2>4. ChainInv'
    BY <1>1, <1>2, <1>3, <2>2, <2>3, SwitchChain
  <2>5. best' = best /\ CurrentTip' = CurrentTip
    BY <1>1, <2>2, <2>3 DEF Switched, Refused, CurrentTip
  <2>6. UNCHANGED <<blocksizes, sorted, maxBlockSize, lastFound, phase>>
    BY <1>6 DEF sizeVars
  <2>7. SizesOK' /\ SteadyInv' /\ FoundOnChain(lastFound)'
    BY <1>3, <2>5, <2>6 DEF SizedInv, SizesOK, SteadyInv, FoundOnChain
  <2> QED
    BY <2>4, <2>7 DEF SizedInv
<1>7. ASSUME MayReorganize(b),
             NEW r \in FoldLeft(ConnectingChecked, {[v |-> Unwound(b), c |-> Calculator]},
                                Path(ForkOf(best, b), b)),
             Survived(r.c.alive, Switched(r.v, b) /\ Concluded(r, b, FALSE))
      PROVE  SizedInv'
  <2>1. r \in ResultSet /\ r.v \in ViewSet /\ LinksWithin(r.v.next, b) /\ FoundOnChain(r.c.last)
    BY <1>1, <1>3, <1>4, ReorganizedResults, ResultFields DEF GoodResults
  <2>2. CASE Restart
    BY <2>2, RestartSized
  <2>3. CASE Switched(r.v, b) /\ Concluded(r, b, FALSE)
    <3>1. ChainInv'
      BY <1>1, <1>2, <1>3, <1>7, <2>1, <2>3, SwitchChain
    <3>2. SizesOK' /\ (lastFound' = NoBlock \/ (best' = best /\ lastFound' = r.c.last))
      BY <2>1, <2>3, ComputedTypes
    <3>3. FoundOnChain(lastFound)'
      BY <1>1, <2>1, <3>2 DEF FoundOnChain, CurrentTip
    <3>4. SteadyInv'
      BY <2>3 DEF Concluded, Noted, SteadyInv
    <3> QED
      BY <3>1, <3>2, <3>3, <3>4 DEF SizedInv
  <2> QED
    BY <1>7, <2>2, <2>3 DEF Survived
<1> QED
  BY <1>5, <1>6, <1>7

LEMMA SecondarySized ==
    ASSUME SizedInv, SizedConnectSecondary
    PROVE  SizedInv'
<1>1. target # NoBlock /\ cursor # NoBlock
  BY DEF SizedConnectSecondary
<1>2. PICK b : b = Ancestor(target, Height[cursor] + 1)
  OBVIOUS
<1>3. PICK r \in Connecting({[v |-> View, c |-> Calculator]}, b) :
             Survived(r.c.alive, Continued(r.v, b) /\ Concluded(r, b, FALSE))
  BY <1>2 DEF SizedConnectSecondary
<1>4. ChainInv /\ WorkInv /\ cursor = dbBest /\ cursor \in Block
  BY <1>1 DEF SizedInv, ChainInv, BehindInv, WorkInv
<1>5. b \in Block \ {Genesis} /\ Parent[b] = cursor /\ cursor \in Branch[cursor]
  BY <1>1, <1>2, <1>4, NextBlock, BranchType
<1>6. CurrentTip = Parent[b]
  BY <1>1, <1>5 DEF CurrentTip
<1>7. r \in ResultSet /\ r.v \in ViewSet /\ LinksWithin(r.v.next, b) /\ FoundOnChain(r.c.last)
  BY <1>4, <1>5, <1>6, ConnectedResults, ResultFields
<1>8. CASE Restart
  BY <1>8, RestartSized
<1>9. CASE Continued(r.v, b) /\ Concluded(r, b, FALSE)
  <2>1. ChainInv'
    BY <1>1, <1>2, <1>4, <1>7, <1>9, ContinueChain
  <2>2. SizesOK' /\ (lastFound' = NoBlock \/ (best' = best /\ lastFound' = r.c.last))
    BY <1>7, <1>9, ComputedTypes
  <2>3. cursor' = NoBlock => best' # best
    <3>1. target \in Block /\ best \in Block /\ ChainTrust[target] > ChainTrust[best]
          /\ ChainTrust[best] \in Nat
      BY <1>1, <1>4, TargetBlock, BranchType
    <3>2. target # best
      BY <3>1
    <3>3. (Advanced(b) /\ cursor' = NoBlock) \/ NewBest(target) => best' = target
      BY <1>5, ChainAssumption DEF Advanced, NewBest
    <3> QED
      BY <1>9, <3>2, <3>3 DEF Continued
  <2>4. FoundOnChain(lastFound)'
    <3>1. CASE lastFound' = NoBlock
      BY <3>1 DEF FoundOnChain
    <3>2. CASE best' = best /\ lastFound' = r.c.last
      <4>1. cursor' # NoBlock /\ Advanced(b) /\ b # target
        BY <1>9, <2>3, <3>2 DEF Continued, Advanced, NewBest
      <4>2. cursor' = b
        BY <4>1 DEF Advanced
      <4>3. CurrentTip' = b /\ CurrentTip = Parent[b]
        BY <1>6, <4>1, <4>2 DEF CurrentTip
      <4>4. Branch[Parent[b]] \subseteq Branch[b]
        BY <1>5, BranchTxs
      <4> QED
        BY <1>7, <3>2, <4>3, <4>4 DEF FoundOnChain
    <3> QED
      BY <2>2, <3>1, <3>2
  <2>5. SteadyInv'
    BY <1>9 DEF Concluded, Noted, SteadyInv
  <2> QED
    BY <2>1, <2>2, <2>4, <2>5 DEF SizedInv
<1> QED
  BY <1>3, <1>8, <1>9 DEF Survived

LEMMA LookUpSized ==
    ASSUME SizedInv, NEW h \in Nat, LookUp(h)
    PROVE  SizedInv'
<1>1. cursor = NoBlock /\ best \in Block /\ LinksWithin(pnext, best)
  <2>1. cursor = NoBlock /\ best \in Block
    BY DEF LookUp, Idle, SizedInv, ChainInv, BehindInv, WorkInv
  <2> QED
    BY <2>1 DEF SizedInv, ChainInv, CurrentTip
<1>2. PICK b : b = FindBlockByHeight(lastFound, h)
  OBVIOUS
<1>3. \/ Restart
      \/ lastFound' = b /\ UNCHANGED <<vars, blocksizes, sorted, maxBlockSize, phase>>
  BY <1>2 DEF LookUp, Survived
<1>4. CASE Restart
  BY <1>4, RestartSized
<1>5. CASE lastFound' = b /\ UNCHANGED <<vars, blocksizes, sorted, maxBlockSize, phase>>
  <2>1. b \in Branch[best] \cup {NoBlock} /\ b \in Block \cup {NoBlock}
    <3>1. lastFound \in Branch[best] \cup {NoBlock}
      BY <1>1 DEF SizedInv, FoundOnChain, CurrentTip
    <3>2. SearchFrom(lastFound, h) \in Branch[best]
      BY <1>1, <3>1, BranchType, ChainAssumption, StartBlock
    <3>3. b = NoBlock \/ (h \in 0 .. Height[best] /\ b = Ancestor(best, h))
      BY <1>1, <1>2, <3>2, FindOnTip
    <3> QED
      BY <1>1, <3>3, AncestorOf
  <2>2. UNCHANGED <<dbBest, dbNext, dbSupply, dbTx, best, pnext, moneySupply, cursor,
                    index, target>>
    BY <1>5 DEF vars, dbVars, memVars, runVars
  <2>3. WorkInv'
    BY <2>2 DEF SizedInv, ChainInv, BehindInv, WorkInv
  <2>4. ChainInv'
    BY <2>2, <2>3, SameChain DEF SizedInv
  <2>5. SizesOK'
    BY <1>5, <2>1 DEF SizedInv, SizesOK
  <2>6. SteadyInv' /\ FoundOnChain(lastFound)'
    BY <1>5, <2>1, <2>2 DEF SizedInv, SteadyInv, FoundOnChain, CurrentTip
  <2> QED
    BY <2>4, <2>5, <2>6 DEF SizedInv
<1> QED
  BY <1>3, <1>4, <1>5

\* A step that moves neither the chain nor the list.
LEMMA SameSized ==
    ASSUME SizedInv, WorkInv', UNCHANGED sizeVars,
           UNCHANGED <<dbBest, dbNext, dbSupply, dbTx, best, pnext, moneySupply, cursor>>
    PROVE  SizedInv'
<1>1. ChainInv'
  BY SameChain DEF SizedInv
<1>2. UNCHANGED <<blocksizes, sorted, maxBlockSize, lastFound, phase>>
  BY DEF sizeVars
<1>3. SizesOK' /\ SteadyInv'
  BY <1>2 DEF SizedInv, SizesOK, SteadyInv
<1>4. FoundOnChain(lastFound)'
  BY <1>2 DEF SizedInv, FoundOnChain, CurrentTip
<1> QED
  BY <1>1, <1>3, <1>4 DEF SizedInv
-----------------------------------------------------------------------------
(* The limit and the search.                                                 *)

LEMMA SizedStep ==
    ASSUME SizedInv, [SizedNext]_<<vars, sizeVars>>
    PROVE  SizedInv'
<1>1. WorkInv'
  BY SizedStepWork DEF SizedInv, ChainInv, BehindInv
<1>2. ASSUME NEW b \in Block \ {Genesis}, SizedAcceptBlock(b)
      PROVE  SizedInv'
  BY <1>1, <1>2, SameSized DEF SizedAcceptBlock, AcceptBlock
<1>3. ASSUME RefuseBlock \/ (\E t \in Tx : AcceptToMemoryPool(t)), UNCHANGED sizeVars
      PROVE  SizedInv'
  BY <1>1, <1>3, SameSized DEF RefuseBlock, AcceptToMemoryPool, dbVars, runVars
<1>4. ASSUME NEW h \in Range(Height), LookUp(h)
      PROVE  SizedInv'
  <2>1. h \in Nat
    BY TreeAssumption DEF Range
  <2> QED
    BY <1>4, <2>1, LookUpSized
<1>5. CASE SizedCrash
  BY <1>5, RestartSized DEF SizedCrash
<1>6. CASE UNCHANGED <<vars, sizeVars>>
  BY <1>1, <1>6, SameSized DEF vars, dbVars, memVars, runVars
<1> QED
  BY <1>2, <1>3, <1>4, <1>5, <1>6, ExtendSized, ReorganizeSized, SecondarySized DEF SizedNext

LEMMA SizedAlwaysSound == SizedSpec => []SizedInv
<1>1. SizedInv /\ [SizedNext]_<<vars, sizeVars>> => SizedInv'
  BY SizedStep
<1> QED
  BY <1>1, InitSized, PTL DEF SizedSpec

\* The list of sizes is empty or complete, and the block found last is one or
\* none, whatever path FindBlockByHeight takes through the next links.
THEOREM SizesAlwaysOK == SizedSpec => []SizesOK
<1>1. SizedInv => SizesOK
  BY DEF SizedInv
<1> QED
  BY <1>1, SizedAlwaysSound, PTL

\* The list that ComputeBlockSize changes by one size out and one in gives the
\* limit of the last Past blocks, for all sizes and every length of the list,
\* as long as only children of the best block are connected.
THEOREM SteadyLimitKept == SizedSpec => []SteadyLimit
<1>1. SizedInv => SteadyLimit
  BY DEF SizedInv, SteadyInv, SteadyLimit
<1> QED
  BY <1>1, SizedAlwaysSound, PTL

\* Every lookup of FindBlockByHeight that starts on the chain connected so far
\* returns that chain's block, unless the next links have a gap; one that starts
\* on the branch Reorganize has taken out does so only while further blocks are
\* connected, and returns that branch's block or a null pointer.
THEOREM BestChainAlwaysFound == SizedSpec => []BestChainFound
<1>1. ASSUME SizedInv, NEW h \in 0 .. Height[CurrentTip],
             NEW start, start = SearchFrom(lastFound, h),
             NEW found, found = FindBlockByHeight(lastFound, h)
      PROVE  \/ /\ start \in Branch[CurrentTip]
                /\ \/ found = Ancestor(CurrentTip, h)
                   \/ found = NoBlock /\ ~ NoGap(CurrentTip)
             \/ /\ cursor # NoBlock /\ start \in Branch[best] \ Branch[CurrentTip]
                /\ found = IF h <= Height[start] THEN Ancestor(best, h) ELSE NoBlock
  <2>1. /\ best \in Block /\ CurrentTip \in Block /\ LinksWithin(pnext, CurrentTip)
        /\ FoundOnChain(lastFound)
    BY <1>1, TipOfSearch DEF SizedInv
  <2>2. PICK tip \in Block : tip = CurrentTip
    BY <2>1
  <2>3. h \in Nat /\ h <= Height[tip]
    BY <1>1, <2>2, BranchType
  <2>4. start \in Branch[best] \cup Branch[tip]
    <3>1. lastFound \in Block \cup {NoBlock}
      BY <2>1, BranchType DEF FoundOnChain
    <3>2. start \in Block /\ (start \in Branch[best] \/ start = lastFound)
      BY <1>1, <2>1, <3>1, StartBlock
    <3> QED
      BY <2>1, <2>2, <3>2, ChainAssumption DEF FoundOnChain
  <2>5. CASE start \in Branch[tip]
    <3>1. /\ found = NoBlock \/ found = Ancestor(tip, h)
          /\ found = NoBlock => ~ NoGap(tip)
      BY <1>1, <2>1, <2>2, <2>3, <2>5, FindOnTip
    <3> QED
      BY <2>2, <2>5, <3>1
  <2>6. CASE start \notin Branch[tip]
    <3>1. cursor # NoBlock
      BY <2>2, <2>4, <2>6 DEF CurrentTip
    <3>2. found = IF h <= Height[start] THEN Ancestor(best, h) ELSE NoBlock
      BY <1>1, <2>1, <2>2, <2>3, <2>4, <2>6, FindOffTip
    <3> QED
      BY <2>2, <2>4, <2>6, <3>1, <3>2
  <2> QED
    BY <2>5, <2>6
<1>2. SizedInv => BestChainFound
  BY <1>1 DEF BestChainFound
<1> QED
  BY <1>2, SizedAlwaysSound, PTL
=============================================================================
