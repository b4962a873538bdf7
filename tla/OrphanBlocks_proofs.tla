------------------------- MODULE OrphanBlocks_proofs ------------------------
(* The holding area is consistent for every set of blocks, stakes and limit: *)
(* its two maps agree, it holds no indexed block, it stays within one block  *)
(* of its limit, and an orphan is left behind with an indexed parent only if *)
(* AcceptBlock failed for that parent.                                       *)
EXTENDS OrphanBlocks, FiniteSetTheorems, TLAPS

\* An orphan whose parent is indexed is one the work queue will still reach,
\* unless AcceptBlock failed for the parent.
Reachable ==
    \A o \in mapOrphanBlocks :
        Parent[o] \in index \ failed =>
            \E i \in 1 .. Len(vWorkQueue) : vWorkQueue[i] = Parent[o]

Inv ==
    /\ index \in SUBSET Block
    /\ mapOrphanBlocks \in SUBSET (Block \ {Genesis})
    /\ mapOrphanBlocksByPrev = mapOrphanBlocks
    /\ mapOrphanBlocks \cap index = {}
    /\ vWorkQueue \in Seq(index)
    /\ IsFiniteSet(mapOrphanBlocks)
    /\ Cardinality(mapOrphanBlocks) <= MaxOrphans + 1
    /\ failed \subseteq index
    /\ Reachable

LEMMA InitInv == Init => Inv
<1> SUFFICES ASSUME Init PROVE Inv
  OBVIOUS
<1>1. IsFiniteSet({}) /\ Cardinality({}) = 0
  BY FS_EmptySet
<1> QED
  BY <1>1, OrphanAssumption DEF Init, Inv, Reachable

\* A sequence over the index stays one when the index grows.
LEMMA QueueKept ==
    ASSUME NEW S, NEW T, S \subseteq T, NEW q \in Seq(S)
    PROVE  q \in Seq(T)
<1>1. q \in [1 .. Len(q) -> S] /\ Len(q) \in Nat
  OBVIOUS
<1> QED
  BY <1>1

\* What AcceptBlock may do to the index.
LEMMA AcceptEffect ==
    ASSUME NEW b \in Block, NEW outcome \in AcceptOutcomes,
           AcceptBlock(b, outcome), index \in SUBSET Block
    PROVE  /\ index' \in SUBSET Block /\ index \subseteq index'
           /\ index' \subseteq index \cup {b}
           /\ outcome.ok => b \in index'
           /\ failed \subseteq failed' /\ (failed \subseteq index => failed' \subseteq index')
           /\ b \in index' /\ b \notin index => outcome.ok \/ b \in failed'
<1>1. outcome.ok => outcome.indexed
  BY DEF AcceptOutcomes
<1> QED
  BY <1>1 DEF AcceptBlock

LEMMA HoldKeepsInv ==
    ASSUME Inv, NEW b \in Block \ {Genesis}, HoldOrphan(b)
    PROVE  Inv'
<1>1. PICK gone \in Pruned :
        /\ mapOrphanBlocks' = (mapOrphanBlocks \ gone) \cup {b}
        /\ mapOrphanBlocksByPrev' = (mapOrphanBlocksByPrev \ gone) \cup {b}
  BY DEF HoldOrphan
<1>2. /\ index' = index /\ failed' = failed /\ vWorkQueue' = vWorkQueue
      /\ vWorkQueue = <<>>
      /\ b \notin index /\ b \notin mapOrphanBlocks /\ Parent[b] \notin index
  BY DEF HoldOrphan, MayProcess
<1> DEFINE left == mapOrphanBlocks \ gone
<1>3. IsFiniteSet(left) /\ Cardinality(left) <= MaxOrphans
           /\ Cardinality(left) \in Nat
  <2>1. CASE PruneNeeded
    <3>1. PICK o \in mapOrphanBlocks : gone = {o}
      BY <2>1 DEF Pruned, Prunable, Inv
    <3>2. /\ IsFiniteSet(mapOrphanBlocks \ {o})
          /\ Cardinality(mapOrphanBlocks \ {o}) = Cardinality(mapOrphanBlocks) - 1
      BY FS_RemoveElement DEF Inv
    <3>3. Cardinality(mapOrphanBlocks) \in Nat
      BY FS_CardinalityType DEF Inv
    <3>4. Cardinality(mapOrphanBlocks \ {o}) \in Nat
      BY <3>2, FS_CardinalityType
    <3> QED
      BY <3>1, <3>2, <3>3, <3>4, OrphanAssumption DEF Inv
  <2>2. CASE ~ PruneNeeded
    <3>1. gone = {}
      BY <2>2 DEF Pruned
    <3>2. Cardinality(mapOrphanBlocks) \in Nat
      BY FS_CardinalityType DEF Inv
    <3> QED
      BY <2>2, <3>1, <3>2, OrphanAssumption DEF PruneNeeded, Inv
  <2> QED
    BY <2>1, <2>2
<1>4. b \notin left
  BY <1>2
<1>5. /\ IsFiniteSet(left \cup {b})
      /\ Cardinality(left \cup {b}) = Cardinality(left) + 1
  <2> HIDE DEF left
  <2> QED
    BY <1>3, <1>4, FS_AddElement
<1>6. /\ IsFiniteSet(mapOrphanBlocks')
      /\ Cardinality(mapOrphanBlocks') <= MaxOrphans + 1
  BY <1>1, <1>3, <1>5, OrphanAssumption
<1>7. /\ mapOrphanBlocks' \in SUBSET (Block \ {Genesis})
      /\ mapOrphanBlocksByPrev' = mapOrphanBlocks'
      /\ mapOrphanBlocks' \cap index' = {}
  BY <1>1, <1>2 DEF Inv
<1>8. Reachable' /\ failed' \subseteq index'
  BY <1>1, <1>2 DEF Reachable, Inv
<1> QED
  BY <1>2, <1>6, <1>7, <1>8 DEF Inv

LEMMA ArrivedKeepsInv ==
    ASSUME Inv, NEW b \in Block \ {Genesis}, AcceptArrived(b)
    PROVE  Inv'
<1>1. PICK outcome \in AcceptOutcomes :
        /\ AcceptBlock(b, outcome)
        /\ vWorkQueue' = IF outcome.ok THEN <<b>> ELSE <<>>
  BY DEF AcceptArrived
<1>2. /\ UNCHANGED <<mapOrphanBlocks, mapOrphanBlocksByPrev>>
      /\ vWorkQueue = <<>> /\ b \notin mapOrphanBlocks
  BY DEF AcceptArrived, MayProcess, orphanVars
<1>3. /\ index' \in SUBSET Block /\ index' \subseteq index \cup {b}
      /\ outcome.ok => b \in index'
      /\ failed \subseteq failed' /\ failed' \subseteq index'
      /\ b \in index' /\ b \notin index => outcome.ok \/ b \in failed'
  BY <1>1, AcceptEffect DEF Inv
<1>4. vWorkQueue' \in Seq(index')
  <2>1. CASE outcome.ok
    BY <1>1, <1>3, <2>1
  <2>2. CASE ~ outcome.ok
    BY <1>1, <2>2
  <2> QED
    BY <2>1, <2>2
<1>5. Reachable'
  <2> SUFFICES ASSUME NEW o \in mapOrphanBlocks, Parent[o] \in index' \ failed'
               PROVE  \E i \in 1 .. Len(vWorkQueue') : vWorkQueue'[i] = Parent[o]
    BY <1>2 DEF Reachable
  <2>1. Parent[o] \notin index
    BY <1>2, <1>3 DEF Inv, Reachable
  <2>2. Parent[o] = b /\ outcome.ok
    BY <1>3, <2>1
  <2> QED
    BY <1>1, <2>2
<1>6. mapOrphanBlocks' \cap index' = {}
  BY <1>2, <1>3 DEF Inv
<1> QED
  BY <1>2, <1>3, <1>4, <1>5, <1>6 DEF Inv

LEMMA ProcessKeepsInv ==
    ASSUME Inv, NEW o \in Block \ {Genesis}, ProcessOrphan(o)
    PROVE  Inv'
<1>1. PICK outcome \in AcceptOutcomes :
        /\ AcceptBlock(o, outcome)
        /\ vWorkQueue' = IF outcome.ok THEN Queued(o) ELSE vWorkQueue
  BY DEF ProcessOrphan
<1>2. /\ mapOrphanBlocks' = mapOrphanBlocks \ {o}
      /\ mapOrphanBlocksByPrev' = mapOrphanBlocksByPrev \ {o}
      /\ o \in mapOrphanBlocks
  BY DEF ProcessOrphan, Drop, OrphansOf, Inv
<1>3. /\ index' \in SUBSET Block /\ index' \subseteq index \cup {o}
      /\ index \subseteq index'
      /\ outcome.ok => o \in index'
      /\ failed \subseteq failed' /\ failed' \subseteq index'
      /\ o \in index' /\ o \notin index => outcome.ok \/ o \in failed'
  BY <1>1, AcceptEffect DEF Inv
<1>4. vWorkQueue \in Seq(index')
  BY <1>3, QueueKept DEF Inv
<1>5. vWorkQueue' \in Seq(index')
  BY <1>1, <1>3, <1>4 DEF Queued
<1>6. Reachable'
  <2> SUFFICES ASSUME NEW c \in mapOrphanBlocks', Parent[c] \in index' \ failed'
               PROVE  \E i \in 1 .. Len(vWorkQueue') : vWorkQueue'[i] = Parent[c]
    BY DEF Reachable
  <2>1. CASE Parent[c] \in index
    <3>1. PICK i \in 1 .. Len(vWorkQueue) : vWorkQueue[i] = Parent[c]
      BY <1>2, <1>3, <2>1 DEF Inv, Reachable
    <3>2. i \in 1 .. Len(vWorkQueue') /\ vWorkQueue'[i] = vWorkQueue[i]
      BY <1>1, <1>4 DEF Queued
    <3> QED
      BY <3>1, <3>2
  <2>2. CASE Parent[c] \notin index
    <3>1. Parent[c] = o /\ outcome.ok
      BY <1>3, <2>2
    <3>2. vWorkQueue' = Append(vWorkQueue, o)
      BY <1>1, <3>1 DEF Queued
    <3>3. /\ Len(vWorkQueue) + 1 \in 1 .. Len(vWorkQueue')
          /\ vWorkQueue'[Len(vWorkQueue) + 1] = o
      BY <1>4, <3>2
    <3> QED
      BY <3>1, <3>3
  <2> QED
    BY <2>1, <2>2
<1>7. /\ IsFiniteSet(mapOrphanBlocks')
      /\ Cardinality(mapOrphanBlocks') <= MaxOrphans + 1
  <2>1. /\ IsFiniteSet(mapOrphanBlocks \ {o})
        /\ Cardinality(mapOrphanBlocks \ {o}) = Cardinality(mapOrphanBlocks) - 1
    BY <1>2, FS_RemoveElement DEF Inv
  <2>2. Cardinality(mapOrphanBlocks) \in Nat
    BY FS_CardinalityType DEF Inv
  <2> QED
    BY <1>2, <2>1, <2>2, OrphanAssumption DEF Inv
<1>8. mapOrphanBlocks' \cap index' = {}
  BY <1>2, <1>3 DEF Inv
<1> QED
  BY <1>2, <1>3, <1>5, <1>6, <1>7, <1>8 DEF Inv

LEMMA NextInQueueKeepsInv ==
    ASSUME Inv, NextInQueue
    PROVE  Inv'
<1>1. /\ UNCHANGED <<index, failed, mapOrphanBlocks, mapOrphanBlocksByPrev>>
      /\ vWorkQueue # <<>> /\ vWorkQueue' = Tail(vWorkQueue)
      /\ ~ HasOrphanChild(Head(vWorkQueue))
  BY DEF NextInQueue, orphanVars
<1>2. vWorkQueue' \in Seq(index')
  BY <1>1 DEF Inv
<1>3. Reachable'
  <2> SUFFICES ASSUME NEW c \in mapOrphanBlocks, Parent[c] \in index \ failed
               PROVE  \E i \in 1 .. Len(vWorkQueue') : vWorkQueue'[i] = Parent[c]
    BY <1>1 DEF Reachable
  <2>1. PICK i \in 1 .. Len(vWorkQueue) : vWorkQueue[i] = Parent[c]
    BY DEF Inv, Reachable
  <2>2. Parent[c] # Head(vWorkQueue)
    BY <1>1 DEF HasOrphanChild, OrphansOf, Inv
  <2>3. i # 1
    BY <1>1, <2>1, <2>2 DEF Inv
  <2>4. i - 1 \in 1 .. Len(vWorkQueue') /\ vWorkQueue'[i - 1] = vWorkQueue[i]
    BY <1>1, <2>1, <2>3 DEF Inv
  <2> QED
    BY <2>1, <2>4
<1> QED
  BY <1>1, <1>2, <1>3 DEF Inv

LEMMA RestartKeepsInv ==
    ASSUME Inv, Restart
    PROVE  Inv'
<1>1. IsFiniteSet({}) /\ Cardinality({}) = 0
  BY FS_EmptySet
<1> QED
  BY <1>1, OrphanAssumption DEF Restart, Inv, Reachable

LEMMA NextKeepsInv ==
    ASSUME Inv, [Next]_vars
    PROVE  Inv'
<1>1. ASSUME NEW b \in Block \ {Genesis}, HoldOrphan(b) PROVE Inv'
  BY <1>1, HoldKeepsInv
<1>2. ASSUME NEW b \in Block \ {Genesis}, AcceptArrived(b) PROVE Inv'
  BY <1>2, ArrivedKeepsInv
<1>3. ASSUME NEW o \in Block \ {Genesis}, ProcessOrphan(o) PROVE Inv'
  BY <1>3, ProcessKeepsInv
<1>4. CASE NextInQueue
  BY <1>4, NextInQueueKeepsInv
<1>5. CASE Restart
  BY <1>5, RestartKeepsInv
<1>6. CASE UNCHANGED vars
  BY <1>6 DEF vars, orphanVars, Inv, Reachable
<1> QED
  BY <1>1, <1>2, <1>3, <1>4, <1>5, <1>6 DEF Next

\* The inductive invariant holds of every behaviour.
THEOREM AreaConsistent == Spec => []Inv
<1>1. Inv /\ [Next]_vars => Inv'
  BY NextKeepsInv
<1> QED
  BY InitInv, <1>1, PTL DEF Spec

\* The map by hash and the multimap by parent always hold the same blocks.
THEOREM OrphanMapsAgree == Spec => []MapsAgree
<1>1. Inv => MapsAgree
  BY DEF Inv, MapsAgree
<1> QED
  BY AreaConsistent, <1>1, PTL

\* The types, and that the work queue names indexed blocks only.
THEOREM OrphanTypes == Spec => []TypeOK
<1>1. Inv => TypeOK
  BY DEF Inv, TypeOK
<1> QED
  BY AreaConsistent, <1>1, PTL

\* ProcessBlock never holds more than one block above -maxorphanblocks.
THEOREM OrphanAreaBounded == Spec => []AreaBounded
<1>1. Inv => AreaBounded
  BY DEF Inv, AreaBounded
<1> QED
  BY AreaConsistent, <1>1, PTL

\* The work queue misses no orphan: one that stays behind with an indexed
\* parent waited for a block AcceptBlock failed for after indexing it.
THEOREM OnlyFailedStrand == Spec => []HeldUntilParent
<1>1. Inv => HeldUntilParent
  BY DEF Inv, Reachable, HeldUntilParent
<1> QED
  BY AreaConsistent, <1>1, PTL

\* What is indexed is no longer held: no later copy of an indexed block is
\* refused for being held.
THEOREM HeldNeverIndexed == Spec => []HeldNotIndexed
<1>1. Inv => HeldNotIndexed
  BY DEF Inv, HeldNotIndexed
<1> QED
  BY AreaConsistent, <1>1, PTL

-----------------------------------------------------------------------------
\* setStakeSeen has the stakes of the index, also after LoadBlockIndex.
StakesKnown == StakesOf(index) \subseteq setStakeSeen

LEMMA StepStakes ==
    ASSUME StakesKnown, [Next]_vars
    PROVE  /\ StakesKnown'
           /\ vWorkQueue = <<>> =>
                 \A b \in index' \ index :
                     Stake[b] \in StakesOf(index) => HasOrphanChild(b)
<1> DEFINE Once == vWorkQueue = <<>> =>
                     \A b \in index' \ index :
                         Stake[b] \in StakesOf(index) => HasOrphanChild(b)
<1>1. ASSUME NEW b, NEW outcome, AcceptBlock(b, outcome)
      PROVE  StakesKnown' /\ index' \ index \subseteq {b}
  BY <1>1 DEF AcceptBlock, StakesKnown, StakesOf
<1>2. ASSUME NEW b \in Block \ {Genesis}, AcceptArrived(b)
      PROVE  StakesKnown' /\ Once
  <2>1. \E outcome : AcceptBlock(b, outcome)
    BY <1>2 DEF AcceptArrived
  <2>2. Stake[b] \in setStakeSeen => HasOrphanChild(b)
    BY <1>2 DEF AcceptArrived, MayProcess
  <2>3. StakesKnown' /\ index' \ index \subseteq {b}
    BY <1>1, <2>1
  <2> QED
    BY <2>2, <2>3 DEF StakesKnown
<1>3. ASSUME NEW o \in Block \ {Genesis}, ProcessOrphan(o)
      PROVE  StakesKnown' /\ Once
  <2>1. \E outcome : AcceptBlock(o, outcome)
    BY <1>3 DEF ProcessOrphan
  <2>2. vWorkQueue # <<>>
    BY <1>3 DEF ProcessOrphan
  <2> QED
    BY <1>1, <2>1, <2>2
<1>4. ASSUME NEW b \in Block \ {Genesis}, HoldOrphan(b)
      PROVE  StakesKnown' /\ Once
  BY <1>4 DEF HoldOrphan, StakesKnown, StakesOf
<1>5. CASE NextInQueue
  BY <1>5 DEF NextInQueue, StakesKnown, StakesOf
<1>6. CASE Restart
  BY <1>6 DEF Restart, StakesKnown, StakesOf
<1>7. CASE UNCHANGED vars
  BY <1>7 DEF vars, StakesKnown, StakesOf
<1> QED
  BY <1>2, <1>3, <1>4, <1>5, <1>6, <1>7 DEF Next

\* ProcessBlock's duplicate-stake test of arriving blocks is complete, for every
\* assignment of stakes and any number of restarts.
THEOREM StakesSeenOnce == Spec => StakeSeenOnce
<1>1. Init => StakesKnown
  BY OrphanAssumption DEF Init, StakesKnown, StakesOf, IsProofOfStake
<1>2. StakesKnown /\ [Next]_vars => StakesKnown'
  BY StepStakes
<1>3. StakesKnown /\ [Next]_vars =>
          [vWorkQueue = <<>> =>
              \A b \in index' \ index :
                  Stake[b] \in StakesOf(index) => HasOrphanChild(b)]_vars
  BY StepStakes
<1> QED
  BY <1>1, <1>2, <1>3, PTL DEF Spec, StakeSeenOnce
=============================================================================
