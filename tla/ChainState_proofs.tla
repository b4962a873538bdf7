-------------------------- MODULE ChainState_proofs ------------------------
(* The committed best block only gains trust, for every block tree, every    *)
(* set of invalid blocks and any number of crashes.  What ConnectBlock makes *)
(* of the transaction index does not matter for it: the argument is about    *)
(* which block each commit names, so it rests on the shape of the tree       *)
(* (first part) and on WorkInv, which relates dbBest, best, target and       *)
(* cursor between two commits (second part).  The last part is about the     *)
(* block one SetBestChain may not remove.                                    *)
EXTENDS ChainState, WellFoundedInduction, TLAPS

-----------------------------------------------------------------------------
(* The tree.                                                                 *)

\* A non-empty set of naturals has a least element: the form of induction the
\* lemmas about branches use.
LEMMA LeastNat ==
    ASSUME NEW T \in SUBSET Nat, T # {}
    PROVE  \E x \in T : \A y \in T : x <= y
<1> DEFINE R == OpToRel(<, Nat)
<1>1. IsWellFoundedOn(R, Nat)
  BY NatLessThanWellFounded
<1>2. \A x, y \in Nat : y < x => <<y, x>> \in R
  BY DEF OpToRel
<1> HIDE DEF R
<1>3. PICK x \in T : \A y \in T : ~ (<<y, x>> \in R)
  BY <1>1, WFMin
<1>4. \A y \in T : x <= y
  <2> TAKE y \in T
  <2>1. x \in Nat /\ y \in Nat
    OBVIOUS
  <2>2. ~ (y < x)
    BY <1>2, <1>3, <2>1, Zenon
  <2> QED
    BY <2>1, <2>2
<1> QED
  BY <1>4

\* The block of least height in a non-empty set of blocks.
LEMMA LowestBlock ==
    ASSUME NEW S \in SUBSET Block, S # {}
    PROVE  \E b \in S : \A c \in S : Height[b] <= Height[c]
<1> DEFINE T == {Height[b] : b \in S}
<1>1. T \in SUBSET Nat /\ T # {}
  BY TreeAssumption
<1>2. PICK x \in T : \A y \in T : x <= y
  <2> HIDE DEF T
  <2> QED
    BY <1>1, LeastNat
<1> QED
  BY <1>2

\* A branch is a set of blocks that holds its tip.
LEMMA BranchType ==
    ASSUME NEW b \in Block
    PROVE  /\ Branch[b] \in SUBSET Block /\ b \in Branch[b]
           /\ b # Genesis => /\ Parent[b] \in Block
                             /\ Branch[b] = Branch[Parent[b]] \cup {b}
                             /\ Height[b] = Height[Parent[b]] + 1
                             /\ ChainTrust[b] > ChainTrust[Parent[b]]
           /\ Height[b] \in Nat /\ ChainTrust[b] \in Nat
  BY TreeAssumption, TrustAssumption

\* Ancestors have less trust, less height and a branch inside the branch.
LEMMA AncestorsBelow ==
    ASSUME NEW b \in Block, NEW a \in Branch[b], a # b
    PROVE  ChainTrust[a] < ChainTrust[b] /\ Height[a] < Height[b]
<1> DEFINE Good(c) == \A d \in Branch[c] : d # c =>
                        ChainTrust[d] < ChainTrust[c] /\ Height[d] < Height[c]
           S == {c \in Block : ~ Good(c)}
<1>1. SUFFICES ASSUME S # {} PROVE FALSE
  OBVIOUS
<1>2. PICK c \in S : \A d \in S : Height[c] <= Height[d]
  <2>1. S \in SUBSET Block
    OBVIOUS
  <2> HIDE DEF S
  <2> QED
    BY <1>1, <2>1, LowestBlock
<1>3. c \in Block /\ ~ Good(c)
  OBVIOUS
<1>4. c # Genesis
  <2>1. Good(Genesis)
    BY TreeAssumption
  <2> QED
    BY <1>3, <2>1
<1>5. /\ Parent[c] \in Block
      /\ Branch[c] = Branch[Parent[c]] \cup {c}
      /\ Height[c] = Height[Parent[c]] + 1
      /\ ChainTrust[c] > ChainTrust[Parent[c]]
  BY <1>3, <1>4, BranchType
<1>6. Good(Parent[c])
  <2>1. Height[c] \in Nat /\ Height[Parent[c]] \in Nat
    BY <1>3, <1>5, BranchType
  <2>2. Parent[c] \notin S
    BY <1>2, <1>5, <2>1
  <2> QED
    BY <1>5, <2>2
<1>7. Good(c)
  <2> SUFFICES ASSUME NEW d \in Branch[c], d # c
               PROVE  ChainTrust[d] < ChainTrust[c] /\ Height[d] < Height[c]
    OBVIOUS
  <2>1. d \in Branch[Parent[c]]
    BY <1>5
  <2>2. /\ ChainTrust[d] \in Nat /\ Height[d] \in Nat
        /\ ChainTrust[c] \in Nat /\ Height[c] \in Nat
        /\ ChainTrust[Parent[c]] \in Nat /\ Height[Parent[c]] \in Nat
    BY <1>3, <1>5, <2>1, BranchType
  <2>3. \/ d = Parent[c]
        \/ ChainTrust[d] < ChainTrust[Parent[c]] /\ Height[d] < Height[Parent[c]]
    BY <1>6, <2>1
  <2> QED
    BY <1>5, <2>2, <2>3
<1> QED
  BY <1>3, <1>7

\* Below its tip a branch has a block at every height, and two blocks of a
\* branch are each other's ancestors in the order of their heights.
LEMMA BranchIsAChain ==
    ASSUME NEW b \in Block
    PROVE  /\ \A h \in 0 .. Height[b] : \E a \in Branch[b] : Height[a] = h
           /\ \A a, d \in Branch[b] : Height[a] <= Height[d] => a \in Branch[d]
<1> DEFINE Good(c) ==
             /\ \A h \in 0 .. Height[c] : \E a \in Branch[c] : Height[a] = h
             /\ \A a, d \in Branch[c] : Height[a] <= Height[d] => a \in Branch[d]
           S == {c \in Block : ~ Good(c)}
<1>1. SUFFICES ASSUME S # {} PROVE FALSE
  OBVIOUS
<1>2. PICK c \in S : \A d \in S : Height[c] <= Height[d]
  <2>1. S \in SUBSET Block
    OBVIOUS
  <2> HIDE DEF S
  <2> QED
    BY <1>1, <2>1, LowestBlock
<1>3. c \in Block /\ ~ Good(c)
  OBVIOUS
<1>4. c # Genesis
  <2>1. Good(Genesis)
    BY TreeAssumption
  <2> QED
    BY <1>3, <2>1
<1>5. /\ Parent[c] \in Block
      /\ Branch[c] = Branch[Parent[c]] \cup {c}
      /\ Height[c] = Height[Parent[c]] + 1
      /\ Height[c] \in Nat /\ Height[Parent[c]] \in Nat
  BY <1>3, <1>4, BranchType
<1>6. Good(Parent[c])
  <2>1. Parent[c] \notin S
    BY <1>2, <1>5
  <2> QED
    BY <1>5, <2>1
<1>7. \A h \in 0 .. Height[c] : \E a \in Branch[c] : Height[a] = h
  <2> TAKE h \in 0 .. Height[c]
  <2>1. CASE h = Height[c]
    BY <1>5, <2>1
  <2>2. CASE h # Height[c]
    <3>1. h \in 0 .. Height[Parent[c]]
      BY <1>5, <2>2
    <3> QED
      BY <1>5, <1>6, <3>1
  <2> QED
    BY <2>1, <2>2
<1>8. \A a, d \in Branch[c] : Height[a] <= Height[d] => a \in Branch[d]
  <2> TAKE a, d \in Branch[c]
  <2> HAVE Height[a] <= Height[d]
  <2>1. CASE d = c
    BY <2>1
  <2>2. CASE d # c /\ a = c
    <3>1. Height[d] < Height[c]
      BY <1>3, <2>2, AncestorsBelow
    <3>2. Height[d] \in Nat
      BY <1>3, BranchType
    <3> QED
      BY <1>5, <2>2, <3>1, <3>2
  <2>3. CASE d # c /\ a # c
    <3>1. a \in Branch[Parent[c]] /\ d \in Branch[Parent[c]]
      BY <1>5, <2>3
    <3> QED
      BY <1>6, <3>1
  <2> QED
    BY <2>1, <2>2, <2>3
<1> QED
  BY <1>3, <1>7, <1>8

\* A branch holds the branch of each of its blocks.
LEMMA BranchesNest ==
    ASSUME NEW b \in Block, NEW a \in Branch[b]
    PROVE  Branch[a] \subseteq Branch[b]
<1> DEFINE Good(c) == \A d \in Branch[c] : Branch[d] \subseteq Branch[c]
           S == {c \in Block : ~ Good(c)}
<1>1. SUFFICES ASSUME S # {} PROVE FALSE
  OBVIOUS
<1>2. PICK c \in S : \A d \in S : Height[c] <= Height[d]
  <2>1. S \in SUBSET Block
    OBVIOUS
  <2> HIDE DEF S
  <2> QED
    BY <1>1, <2>1, LowestBlock
<1>3. c \in Block /\ ~ Good(c)
  OBVIOUS
<1>4. c # Genesis
  BY <1>3, TreeAssumption
<1>5. /\ Parent[c] \in Block
      /\ Branch[c] = Branch[Parent[c]] \cup {c}
      /\ Height[c] = Height[Parent[c]] + 1
      /\ Height[c] \in Nat /\ Height[Parent[c]] \in Nat
  BY <1>3, <1>4, BranchType
<1>6. Good(Parent[c])
  <2>1. Parent[c] \notin S
    BY <1>2, <1>5
  <2> QED
    BY <1>5, <2>1
<1>7. Good(c)
  BY <1>5, <1>6
<1> QED
  BY <1>3, <1>7

\* The next block on the way from an ancestor to a tip.
LEMMA NextOnBranch ==
    ASSUME NEW b \in Block, NEW a \in Branch[b], a # b,
           NEW n, n = Ancestor(b, Height[a] + 1)
    PROVE  n \in Branch[b] /\ n \in Block /\ ChainTrust[n] > ChainTrust[a]
<1>1. a \in Block /\ Height[a] \in Nat /\ Height[b] \in Nat
  BY BranchType
<1>2. Height[a] + 1 \in 0 .. Height[b]
  BY <1>1, AncestorsBelow
<1>3. \E c \in Branch[b] : Height[c] = Height[a] + 1
  BY <1>2, BranchIsAChain
<1>4. n \in Branch[b] /\ Height[n] = Height[a] + 1
  BY <1>3 DEF Ancestor
<1>5. n \in Block
  BY <1>4, BranchType
<1>6. a \in Branch[n] /\ a # n
  BY <1>1, <1>4, BranchIsAChain
<1> QED
  BY <1>4, <1>5, <1>6, AncestorsBelow

\* The genesis block is in every branch.
LEMMA GenesisBelow ==
    ASSUME NEW b \in Block
    PROVE  Genesis \in Branch[b] /\ ChainTrust[Genesis] <= ChainTrust[b]
<1>1. Height[b] \in Nat /\ ChainTrust[b] \in Nat /\ ChainTrust[Genesis] \in Nat
  BY TreeAssumption, TrustAssumption
<1>2. 0 \in 0 .. Height[b]
  BY <1>1
<1>3. PICK a \in Branch[b] : Height[a] = 0
  BY <1>2, BranchIsAChain
<1>4. a \in Block
  BY BranchType
<1>5. a = Genesis
  <2> SUFFICES ASSUME a # Genesis PROVE FALSE
    OBVIOUS
  <2>1. Height[a] = Height[Parent[a]] + 1 /\ Parent[a] \in Block
    BY <1>4, BranchType
  <2>2. Height[Parent[a]] \in Nat
    BY <2>1, BranchType
  <2> QED
    BY <1>3, <2>1, <2>2
<1>6. CASE b = Genesis
  BY <1>1, <1>3, <1>5, <1>6
<1>7. CASE b # Genesis
  BY <1>1, <1>3, <1>5, <1>7, AncestorsBelow
<1> QED
  BY <1>6, <1>7

-----------------------------------------------------------------------------
(* The steps.                                                                *)

\* Between two commits: the database's best block is never heavier than the
\* one in memory unless SetBestChain is connecting secondary blocks, and then
\* it is the last block connected, below a target heavier than the best block.
WorkInv ==
    /\ index \in SUBSET Block
    /\ dbBest \in Block /\ best \in Block
    /\ target \in Block \cup {NoBlock}
    /\ cursor = NoBlock => ChainTrust[dbBest] <= ChainTrust[best]
    /\ target # NoBlock => ChainTrust[target] > ChainTrust[best]
    /\ cursor # NoBlock =>
          /\ target # NoBlock /\ Parent[target] # best
          /\ cursor = dbBest /\ cursor \in Branch[target] /\ cursor # target

\* Reorganize gets a block of the target's branch that is heavier than the
\* best block: the walk of SetBestChain stops before the fork.
LEMMA IntermediateIsHeavier ==
    ASSUME NEW b \in Block, best \in Block, ChainTrust[b] > ChainTrust[best],
           NEW i, i = Intermediate(b)
    PROVE  i \in Branch[b] /\ i \in Block /\ ChainTrust[i] > ChainTrust[best]
<1> DEFINE S == {a \in Branch[b] : ChainTrust[a] > ChainTrust[best]}
<1>1. S \in SUBSET Block /\ S # {}
  BY BranchType
<1>2. PICK a \in S : \A c \in S : Height[a] <= Height[c]
  <2> HIDE DEF S
  <2> QED
    BY <1>1, LowestBlock
<1>3. a \in Block /\ a \in Branch[b] /\ ChainTrust[a] > ChainTrust[best]
  BY <1>1
<1>4. a # Genesis
  <2>1. ChainTrust[Genesis] <= ChainTrust[best]
    BY GenesisBelow
  <2>2. ChainTrust[Genesis] \in Nat /\ ChainTrust[best] \in Nat
    BY TreeAssumption, TrustAssumption
  <2> QED
    BY <1>3, <2>1, <2>2
<1>5. /\ Parent[a] \in Block /\ Height[a] = Height[Parent[a]] + 1
      /\ Parent[a] \in Branch[a]
  <2>1. /\ Parent[a] \in Block /\ Height[a] = Height[Parent[a]] + 1
        /\ Branch[a] = Branch[Parent[a]] \cup {a}
    BY <1>3, <1>4, BranchType
  <2>2. Parent[a] \in Branch[Parent[a]]
    BY <2>1, BranchType
  <2> QED
    BY <2>1, <2>2
<1>6. Parent[a] \in Branch[b]
  BY <1>3, <1>5, BranchesNest
<1>7. ChainTrust[Parent[a]] <= ChainTrust[best]
  <2> SUFFICES ASSUME ~ (ChainTrust[Parent[a]] <= ChainTrust[best])
               PROVE  FALSE
    OBVIOUS
  <2>1. ChainTrust[Parent[a]] \in Nat /\ ChainTrust[best] \in Nat
    BY <1>5, BranchType
  <2>2. Parent[a] \in S
    BY <1>6, <2>1
  <2>3. Height[a] <= Height[Parent[a]] /\ Height[Parent[a]] \in Nat
    BY <1>2, <1>5, <2>2, BranchType
  <2> QED
    BY <1>5, <2>3
<1>8. i \in Branch[b] /\ ChainTrust[i] > ChainTrust[best]
  BY <1>3, <1>7 DEF Intermediate
<1> QED
  BY <1>8, BranchType

LEMMA InitWork == Init => WorkInv
  BY TreeAssumption, TrustAssumption DEF Init, WorkInv

\* Every step keeps WorkInv, and names a new committed best block only if it
\* is heavier than the one it replaces.
Heavier == dbBest' # dbBest => ChainTrust[dbBest'] > ChainTrust[dbBest]

LEMMA AcceptWork ==
    ASSUME WorkInv, NEW b \in Block, AcceptBlock(b)
    PROVE  WorkInv' /\ Heavier
<1>1. /\ index' \in SUBSET Block
      /\ UNCHANGED <<dbBest, best, cursor>>
      /\ target' = IF ChainTrust[b] > ChainTrust[best] THEN b ELSE NoBlock
      /\ target = NoBlock
  BY DEF AcceptBlock, Idle, WorkInv
<1>2. cursor = NoBlock
  BY <1>1 DEF WorkInv
<1> QED
  BY <1>1, <1>2 DEF WorkInv, Heavier

\* Whatever ConnectBlock makes of the target, v.
LEMMA ExtendWork ==
    ASSUME WorkInv, target # NoBlock, Parent[target] = best,
           NEW v, Extended(v, target)
    PROVE  WorkInv' /\ Heavier
<1>1. cursor = NoBlock /\ target \in Block
  BY DEF WorkInv
<1>2. /\ ChainTrust[dbBest] <= ChainTrust[best]
      /\ ChainTrust[target] > ChainTrust[best]
      /\ ChainTrust[dbBest] \in Nat /\ ChainTrust[best] \in Nat
      /\ ChainTrust[target] \in Nat
  BY <1>1, BranchType, ChainAssumption DEF WorkInv
<1>3. index' = index /\ target' = NoBlock /\ cursor' = NoBlock
  BY DEF Extended, Attached, Commit, Abort, NewBest, Refused, dbVars
<1>4. \/ dbBest' = target /\ best' = target
      \/ dbBest' = dbBest /\ best' = best
  BY DEF Extended, Attached, Commit, Abort, NewBest, Refused, dbVars
<1>5. WorkInv'
  BY <1>1, <1>2, <1>3, <1>4 DEF WorkInv
<1>6. Heavier
  BY <1>2, <1>4 DEF Heavier
<1> QED
  BY <1>5, <1>6

LEMMA ReorganizeWork ==
    ASSUME WorkInv, target # NoBlock, Parent[target] # best, cursor = NoBlock,
           NEW v, Switched(v, Intermediate(target))
    PROVE  WorkInv' /\ Heavier
<1> DEFINE b == Intermediate(target)
<1>1. /\ cursor = NoBlock /\ target \in Block /\ Parent[target] # best
      /\ target # NoBlock
  BY DEF WorkInv
<1>2. /\ ChainTrust[dbBest] <= ChainTrust[best]
      /\ ChainTrust[target] > ChainTrust[best]
      /\ ChainTrust[dbBest] \in Nat /\ ChainTrust[best] \in Nat
      /\ ChainTrust[target] \in Nat
  BY <1>1, BranchType DEF WorkInv
<1>3. b \in Branch[target] /\ b \in Block /\ ChainTrust[b] > ChainTrust[best]
  BY <1>1, <1>2, IntermediateIsHeavier DEF WorkInv
<1>4. ChainTrust[b] \in Nat
  BY <1>3, BranchType
<1>5. \/ dbBest' = b /\ index' = index /\ Advanced(b)
      \/ dbBest' = dbBest /\ index' = index /\ Refused
  BY DEF Switched, Commit, Abort, dbVars
<1> HIDE DEF b
<1>6. WorkInv'
  <2>1. CASE dbBest' = b /\ index' = index /\ Advanced(b) /\ b = target
    BY <1>2, <1>3, <2>1 DEF Advanced, NewBest, WorkInv
  <2>2. CASE dbBest' = b /\ index' = index /\ Advanced(b) /\ b # target
    BY <1>1, <1>2, <1>3, <2>2, ChainAssumption DEF Advanced, WorkInv
  <2>3. CASE dbBest' = dbBest /\ index' = index /\ Refused
    BY <1>2, <2>3 DEF Refused, WorkInv
  <2> QED
    BY <1>5, <2>1, <2>2, <2>3
<1>7. Heavier
  BY <1>2, <1>3, <1>4, <1>5 DEF Heavier
<1> QED
  BY <1>6, <1>7

LEMMA SecondaryWork ==
    ASSUME WorkInv, target # NoBlock, cursor # NoBlock,
           NEW v, Continued(v, Ancestor(target, Height[cursor] + 1))
    PROVE  WorkInv' /\ Heavier
<1> DEFINE b == Ancestor(target, Height[cursor] + 1)
<1>1. /\ cursor = dbBest /\ cursor \in Branch[target] /\ cursor # target
      /\ target \in Block /\ cursor \in Block /\ Parent[target] # best
      /\ best \in Block /\ ChainTrust[target] > ChainTrust[best]
  BY DEF WorkInv
<1>2. b \in Branch[target] /\ b \in Block /\ ChainTrust[b] > ChainTrust[cursor]
  BY <1>1, NextOnBranch
<1>3. ChainTrust[cursor] < ChainTrust[target]
  BY <1>1, AncestorsBelow
<1>4. /\ ChainTrust[cursor] \in Nat /\ ChainTrust[target] \in Nat
      /\ ChainTrust[b] \in Nat
  BY <1>1, <1>2, BranchType
<1>5. \/ dbBest' = b /\ index' = index /\ Advanced(b)
      \/ dbBest' = dbBest /\ index' = index /\ NewBest(target)
  BY DEF Continued, Attached, Commit, Abort, dbVars
<1> HIDE DEF b
<1>6. WorkInv'
  <2>1. CASE dbBest' = b /\ index' = index /\ Advanced(b) /\ b = target
    BY <1>1, <1>4, <2>1 DEF Advanced, NewBest, WorkInv
  <2>2. CASE dbBest' = b /\ index' = index /\ Advanced(b) /\ b # target
    BY <1>1, <1>2, <2>2, ChainAssumption DEF Advanced, WorkInv
  <2>3. CASE dbBest' = dbBest /\ index' = index /\ NewBest(target)
    BY <1>1, <1>3, <1>4, <2>3 DEF NewBest, WorkInv
  <2> QED
    BY <1>5, <2>1, <2>2, <2>3
<1>7. Heavier
  BY <1>1, <1>2, <1>4, <1>5 DEF Heavier
<1> QED
  BY <1>6, <1>7

LEMMA CrashWork ==
    ASSUME WorkInv, Restarted
    PROVE  WorkInv' /\ Heavier
<1>1. ChainTrust[dbBest] \in Nat
  BY BranchType DEF WorkInv
<1> QED
  BY <1>1 DEF Restarted, LoadBlockIndex, dbVars, WorkInv, Heavier

LEMMA StepWork ==
    ASSUME WorkInv, [Next]_vars
    PROVE  WorkInv' /\ Heavier
<1>1. ASSUME NEW b \in Block \ {Genesis}, AcceptBlock(b)
      PROVE  WorkInv' /\ Heavier
  BY <1>1, AcceptWork
<1>2. CASE RefuseBlock
  BY <1>2 DEF RefuseBlock, dbVars, runVars, WorkInv, Heavier
<1>3. CASE ExtendBest
  BY <1>3, ExtendWork DEF ExtendBest
<1>4. CASE Reorganize
  BY <1>4, ReorganizeWork DEF Reorganize
<1>5. CASE ConnectSecondary
  BY <1>5, SecondaryWork DEF ConnectSecondary
<1>6. ASSUME NEW t \in Tx, AcceptToMemoryPool(t)
      PROVE  WorkInv' /\ Heavier
  BY <1>6 DEF AcceptToMemoryPool, dbVars, runVars, WorkInv, Heavier
<1>7. CASE Crash
  BY <1>7, CrashWork DEF Crash
<1>8. CASE UNCHANGED vars
  BY <1>8 DEF vars, dbVars, memVars, runVars, WorkInv, Heavier
<1> QED
  BY <1>1, <1>2, <1>3, <1>4, <1>5, <1>6, <1>7, <1>8 DEF Next

\* The relation between the committed best block, the one in memory and the
\* block SetBestChain is working towards holds at every commit.
THEOREM WorkAlwaysOrdered == Spec => []WorkInv
<1>1. WorkInv /\ [Next]_vars => WorkInv'
  BY StepWork
<1> QED
  BY InitWork, <1>1, PTL DEF Spec

\* No crash, failed connection or refused reorganization ever replaces the
\* committed best block by one without more trust.
THEOREM CommittedTrustGrows == Spec => TipWorkGrows
<1>1. WorkInv /\ [Next]_vars =>
          [dbBest' # dbBest => ChainTrust[dbBest'] > ChainTrust[dbBest]]_vars
  BY StepWork DEF Heavier
<1> QED
  BY WorkAlwaysOrdered, <1>1, PTL DEF Spec, TipWorkGrows
-----------------------------------------------------------------------------
(* The committed best block and the one in memory.                           *)

\* A block of a branch, found by its height, and where it stays.
LEMMA AncestorOf ==
    ASSUME NEW b \in Block, NEW h \in 0 .. Height[b]
    PROVE  /\ Ancestor(b, h) \in Branch[b] /\ Ancestor(b, h) \in Block
           /\ Height[Ancestor(b, h)] = h
<1>1. \E a \in Branch[b] : Height[a] = h
  BY BranchIsAChain
<1>2. Ancestor(b, h) \in Branch[b] /\ Height[Ancestor(b, h)] = h
  BY <1>1 DEF Ancestor
<1> QED
  BY <1>2, BranchType

\* When no secondary blocks are being connected the committed best block is on
\* the branch of the one in memory: a failed connection leaves it below.
BehindInv ==
    /\ WorkInv
    /\ cursor = NoBlock => dbBest \in Branch[best]

LEMMA ExtendBehind ==
    ASSUME BehindInv, target # NoBlock, Parent[target] = best,
           NEW v, Extended(v, target)
    PROVE  BehindInv'
<1>1. WorkInv'
  BY ExtendWork DEF BehindInv
<1>2. /\ cursor = NoBlock /\ target \in Block /\ best \in Block /\ dbBest \in Block
      /\ ChainTrust[target] > ChainTrust[best] /\ dbBest \in Branch[best]
  BY DEF BehindInv, WorkInv
<1>3. target # Genesis
  <2>1. ChainTrust[Genesis] <= ChainTrust[best]
    BY <1>2, GenesisBelow
  <2>2. ChainTrust[Genesis] \in Nat /\ ChainTrust[best] \in Nat
    BY <1>2, TreeAssumption, TrustAssumption
  <2> QED
    BY <1>2, <2>1, <2>2
<1>4. dbBest \in Branch[target]
  BY <1>2, <1>3, BranchType
<1>5. /\ cursor' = NoBlock
      /\ \/ dbBest' = target /\ best' = target
         \/ dbBest' = dbBest /\ best' = best
  BY DEF Extended, Attached, Commit, Abort, NewBest, Refused, dbVars
<1>6. dbBest' \in Block /\ dbBest \in Branch[dbBest'] /\ dbBest' \in Branch[best']
  BY <1>2, <1>4, <1>5, BranchType
<1> QED
  BY <1>1, <1>6 DEF BehindInv

LEMMA SwitchedBehind ==
    ASSUME BehindInv, target # NoBlock, Parent[target] # best, cursor = NoBlock,
           NEW v, Switched(v, Intermediate(target))
    PROVE  BehindInv'
<1> DEFINE b == Intermediate(target)
<1>1. /\ target # NoBlock /\ Parent[target] # best /\ cursor = NoBlock
      /\ Switched(v, b)
  OBVIOUS
<1>2. WorkInv'
  BY <1>1, ReorganizeWork DEF BehindInv
<1>3. /\ target \in Block /\ best \in Block /\ dbBest \in Block
      /\ ChainTrust[target] > ChainTrust[best] /\ dbBest \in Branch[best]
  BY <1>1 DEF BehindInv, WorkInv
<1>4. b \in Block
  BY <1>3, IntermediateIsHeavier
<1> HIDE DEF b
<1>5. CASE v.ok
  <2>1. dbBest' = b /\ Advanced(b)
    BY <1>1, <1>5 DEF Switched, Commit
  <2>2. cursor' = NoBlock => dbBest' \in Branch[best']
    <3>1. CASE b = target
      BY <1>3, <1>4, <2>1, <3>1, BranchType DEF Advanced, NewBest
    <3>2. CASE b # target
      BY <1>4, <2>1, <3>2, ChainAssumption DEF Advanced
    <3> QED
      BY <3>1, <3>2
  <2> QED
    BY <1>2, <2>2 DEF BehindInv
<1>6. CASE ~ v.ok
  <2>1. dbBest' = dbBest /\ best' = best
    BY <1>1, <1>6 DEF Switched, Abort, Refused, dbVars
  <2> QED
    BY <1>2, <1>3, <2>1 DEF BehindInv
<1> QED
  BY <1>5, <1>6

LEMMA SecondaryBehind ==
    ASSUME BehindInv, target # NoBlock, cursor # NoBlock,
           NEW v, Continued(v, Ancestor(target, Height[cursor] + 1))
    PROVE  BehindInv'
<1> DEFINE b == Ancestor(target, Height[cursor] + 1)
<1>1. WorkInv'
  BY SecondaryWork DEF BehindInv
<1>2. /\ cursor = dbBest /\ cursor \in Branch[target] /\ cursor # target
      /\ target \in Block /\ cursor \in Block /\ dbBest \in Block
  BY DEF BehindInv, WorkInv
<1>3. b \in Branch[target] /\ b \in Block /\ cursor \in Branch[b]
  <2>1. /\ Height[cursor] \in Nat /\ Height[target] \in Nat
        /\ Height[cursor] < Height[target]
    BY <1>2, BranchType, AncestorsBelow
  <2>2. Height[cursor] + 1 \in 0 .. Height[target]
    BY <2>1
  <2>3. b \in Branch[target] /\ b \in Block /\ Height[b] = Height[cursor] + 1
    BY <1>2, <2>2, AncestorOf
  <2>4. Height[cursor] <= Height[b]
    BY <2>1, <2>3
  <2> HIDE DEF b
  <2> QED
    BY <1>2, <2>3, <2>4, BranchIsAChain
<1>4. \/ dbBest' = b /\ Advanced(b)
      \/ dbBest' = dbBest /\ NewBest(target)
  BY DEF Continued, Attached, Commit, Abort, dbVars
<1> HIDE DEF b
<1>5. cursor' = NoBlock => dbBest' \in Branch[best']
  <2>1. CASE dbBest' = b /\ Advanced(b) /\ b = target
    BY <1>2, <2>1, BranchType DEF Advanced, NewBest
  <2>2. CASE dbBest' = b /\ Advanced(b) /\ b # target
    BY <1>3, <2>2, ChainAssumption DEF Advanced
  <2>3. CASE dbBest' = dbBest /\ NewBest(target)
    BY <1>2, <2>3 DEF NewBest
  <2> QED
    BY <1>4, <2>1, <2>2, <2>3
<1> QED
  BY <1>1, <1>5 DEF BehindInv

-----------------------------------------------------------------------------
(* Blocks buried under the best block in memory.                             *)

RollingBlock == Ancestor(best, Height[best] - RollingDepth)

\* While further blocks are being connected, the rolling block of the best
\* block that is still in memory is on the target's branch.
BuriedInv ==
    /\ WorkInv
    /\ cursor # NoBlock /\ Height[best] >= RollingMin => RollingBlock \in Branch[target]

BuriedStays ==
    crashes' = crashes /\ Height[best] >= RollingMin => RollingBlock \in Branch[best']

\* The rolling block is on the best block's own branch.
LEMMA RollingOnBranch ==
    ASSUME best \in Block, Height[best] >= RollingMin
    PROVE  RollingBlock \in Branch[best]
<1>1. Height[best] - RollingDepth \in 0 .. Height[best]
  BY ChainAssumption, BranchType
<1> QED
  BY <1>1, AncestorOf DEF RollingBlock

\* A step that leaves the best block, and connects nothing or what was meant.
LEMMA SameBuried ==
    ASSUME BuriedInv, WorkInv', best' = best,
           cursor' # NoBlock /\ Height[best] >= RollingMin => RollingBlock \in Branch[target']
    PROVE  BuriedInv' /\ BuriedStays
<1>1. best \in Block
  BY DEF BuriedInv, WorkInv
<1>2. BuriedStays
  BY <1>1, RollingOnBranch DEF BuriedStays
<1>3. RollingBlock' = RollingBlock /\ Height[best]' = Height[best]
  BY DEF RollingBlock
<1> QED
  BY <1>2, <1>3 DEF BuriedInv

LEMMA ExtendBuried ==
    ASSUME BuriedInv, ExtendBest
    PROVE  BuriedInv' /\ BuriedStays
<1> DEFINE v == ConnectBlock(View, target)
<1>1. /\ target # NoBlock /\ Parent[target] = best
      /\ Extended(v, target)
  BY DEF ExtendBest
<1> HIDE DEF v
<1>2. WorkInv'
  BY <1>1, ExtendWork DEF BuriedInv
<1>3. /\ target \in Block /\ best \in Block
      /\ ChainTrust[target] > ChainTrust[best]
  BY <1>1 DEF BuriedInv, WorkInv
<1>4. target # Genesis
  <2>1. ChainTrust[Genesis] <= ChainTrust[best]
    BY <1>3, GenesisBelow
  <2>2. ChainTrust[Genesis] \in Nat /\ ChainTrust[best] \in Nat
    BY <1>3, TreeAssumption, TrustAssumption
  <2> QED
    BY <1>3, <2>1, <2>2
<1>5. Branch[best] \subseteq Branch[target]
  BY <1>1, <1>3, <1>4, BranchType
<1>6. cursor' = NoBlock /\ (best' = target \/ best' = best)
  BY <1>1 DEF Extended, NewBest, Refused
<1>7. BuriedStays
  BY <1>3, <1>5, <1>6, RollingOnBranch DEF BuriedStays
<1> QED
  BY <1>2, <1>6, <1>7 DEF BuriedInv

\* Reorganize compares the intermediate block's branch, a part of the target's.
LEMMA ReorganizeBuried ==
    ASSUME BuriedInv, Reorganize
    PROVE  BuriedInv' /\ BuriedStays
<1> DEFINE b == Intermediate(target)
           v == IF MayReorganize(b) THEN Reorganized(b)
                ELSE [View EXCEPT !.ok = FALSE]
<1>1. /\ target # NoBlock /\ Parent[target] # best /\ cursor = NoBlock
      /\ Switched(v, b)
  BY DEF Reorganize
<1>2. v.ok => MayReorganize(b)
  BY DEF View
<1> HIDE DEF v
<1>3. WorkInv'
  BY <1>1, ReorganizeWork DEF BuriedInv
<1>4. /\ target \in Block /\ best \in Block
      /\ ChainTrust[target] > ChainTrust[best]
  BY <1>1 DEF BuriedInv, WorkInv
<1>5. b \in Branch[target] /\ b \in Block
  BY <1>4, IntermediateIsHeavier
<1> HIDE DEF b
<1>6. CASE v.ok
  <2>1. RollingBlock \in Branch[target]
    <3>1. RollingBlock \in Branch[b]
      BY <1>2, <1>6 DEF MayReorganize, RollingBlockKept, RollingBlock
    <3> QED
      BY <1>4, <1>5, <3>1, BranchesNest
  <2>2. Advanced(b)
    BY <1>1, <1>6 DEF Switched
  <2>3. CASE b = target
    <3>1. best' = target /\ cursor' = NoBlock
      BY <2>2, <2>3 DEF Advanced, NewBest
    <3> QED
      BY <1>3, <2>1, <3>1 DEF BuriedInv, BuriedStays
  <2>4. CASE b # target
    BY <1>3, <2>1, <2>2, <2>4, SameBuried DEF Advanced
  <2> QED
    BY <2>3, <2>4
<1>7. CASE ~ v.ok
  <2>1. best' = best /\ cursor' = NoBlock
    BY <1>1, <1>7 DEF Switched, Refused
  <2> QED
    BY <1>3, <2>1, SameBuried
<1> QED
  BY <1>6, <1>7

\* Every further block is on the target's branch, and so is the best block
\* that a failure among them makes of the target.
LEMMA SecondaryBuried ==
    ASSUME BuriedInv, ConnectSecondary
    PROVE  BuriedInv' /\ BuriedStays
<1> DEFINE b == Ancestor(target, Height[cursor] + 1)
           v == ConnectBlock(View, b)
<1>1. target # NoBlock /\ cursor # NoBlock /\ Continued(v, b)
  BY DEF ConnectSecondary
<1> HIDE DEF v
<1>2. WorkInv'
  BY <1>1, SecondaryWork DEF BuriedInv
<1> HIDE DEF b
<1>3. Height[best] >= RollingMin => RollingBlock \in Branch[target]
  BY <1>1 DEF BuriedInv
<1>4. \/ best' = target /\ cursor' = NoBlock
      \/ best' = best /\ target' = target
  BY <1>1 DEF Continued, Advanced, NewBest
<1>5. CASE best' = target /\ cursor' = NoBlock
  BY <1>2, <1>3, <1>5 DEF BuriedInv, BuriedStays
<1>6. CASE best' = best /\ target' = target
  BY <1>2, <1>3, <1>6, SameBuried
<1> QED
  BY <1>4, <1>5, <1>6

\* The crashes are counted.
LEMMA CrashCount ==
    ASSUME crashes \in Nat, [Next]_vars
    PROVE  crashes' \in Nat /\ (Crash => crashes' # crashes)
  BY DEF Next, vars, runVars, AcceptBlock, RefuseBlock, ExtendBest, Extended,
         Reorganize, Switched, ConnectSecondary, Continued, AcceptToMemoryPool,
         Crash

LEMMA StepBuried ==
    ASSUME BuriedInv, crashes \in Nat, [Next]_vars
    PROVE  BuriedInv' /\ BuriedStays
<1>1. WorkInv'
  BY StepWork DEF BuriedInv
<1>2. ASSUME NEW b \in Block \ {Genesis}, AcceptBlock(b)
      PROVE  BuriedInv' /\ BuriedStays
  <2>1. best' = best /\ cursor' = cursor /\ target = NoBlock
    BY <1>2 DEF AcceptBlock, Idle
  <2>2. cursor = NoBlock
    BY <2>1 DEF BuriedInv, WorkInv
  <2> QED
    BY <1>1, <2>1, <2>2, SameBuried
<1>3. ASSUME \/ RefuseBlock
             \/ \E t \in Tx : AcceptToMemoryPool(t)
             \/ UNCHANGED vars
      PROVE  BuriedInv' /\ BuriedStays
  <2>1. UNCHANGED <<best, target, cursor>>
    BY <1>3 DEF RefuseBlock, AcceptToMemoryPool, dbVars, memVars, runVars, vars
  <2>2. cursor' # NoBlock /\ Height[best] >= RollingMin => RollingBlock \in Branch[target']
    BY <2>1 DEF BuriedInv
  <2> QED
    BY <1>1, <2>1, <2>2, SameBuried
<1>4. CASE Crash
  <2>1. cursor' = NoBlock /\ crashes' = crashes + 1
    BY <1>4 DEF Crash, Restarted
  <2>2. BuriedInv'
    BY <1>1, <2>1 DEF BuriedInv
  <2>3. BuriedStays
    BY <1>4, CrashCount DEF BuriedStays
  <2> QED
    BY <2>2, <2>3
<1> QED
  BY <1>2, <1>3, <1>4, ExtendBuried, ReorganizeBuried, SecondaryBuried DEF Next

\* Whatever crashes happened before and whichever further block fails, one
\* SetBestChain never takes the block RollingDepth below the best block it
\* started from out of the best block's branch: Reorganize's comparison with
\* the rolling block is enough for the further blocks as well.
THEOREM RollingBlockSurvives == Spec => BuriedBlocksStay
<1>1. Init => BuriedInv /\ crashes \in Nat
  <2> SUFFICES ASSUME Init PROVE BuriedInv /\ crashes \in Nat
    OBVIOUS
  <2>1. WorkInv
    BY InitWork
  <2> QED
    BY <2>1 DEF Init, BuriedInv
<1>2. BuriedInv /\ crashes \in Nat /\ [Next]_vars =>
          (BuriedInv /\ crashes \in Nat)'
  BY StepBuried, CrashCount
<1>3. BuriedInv /\ crashes \in Nat /\ [Next]_vars =>
          [crashes' = crashes /\ Height[best] >= RollingMin =>
               Ancestor(best, Height[best] - RollingDepth) \in Branch[best']]_vars
  BY StepBuried DEF BuriedStays, RollingBlock
<1> QED
  BY <1>1, <1>2, <1>3, PTL DEF Spec, BuriedBlocksStay
=============================================================================
