--------------------------- MODULE OrphanBlocks ----------------------------
(* ProcessBlock's holding area of main.cpp: blocks that arrive before their  *)
(* parent wait in mapOrphanBlocks and mapOrphanBlocksByPrev, a work queue    *)
(* accepts them once the parent is accepted, a full area drops one of them,  *)
(* and two sets of stakes seen limit how often one stake may mint.           *)
(*                                                                           *)
(* AcceptBlock's own conditions are a choice here: it may index the block,   *)
(* refuse it, or index it and still return false because SetBestChain did.   *)
(* ProcessBlock holds cs_main throughout; the work queue takes one orphan a  *)
(* step so that the process can end between two of them.                     *)
EXTENDS Integers, Sequences, FiniteSets

CONSTANTS
    Block, Genesis,
    Parent,             \* hashPrevBlock
    Stake,              \* GetProofOfStake, NoStake for a proof-of-work block
    NoStake,
    MaxOrphans,         \* -maxorphanblocks
    BestChainMayFail    \* whether SetBestChain may fail for an indexed block

ASSUME OrphanAssumption ==
    /\ Genesis \in Block
    /\ Parent \in [Block \ {Genesis} -> Block]
    /\ \A b \in Block \ {Genesis} : Parent[b] # b
    /\ Stake[Genesis] = NoStake
    /\ MaxOrphans \in Nat
    /\ BestChainMayFail \in BOOLEAN

VARIABLES
    index,              \* mapBlockIndex, in memory and stored
    mapOrphanBlocks,    \* the orphans by hash
    mapOrphanBlocksByPrev,  \* the orphans in the multimap keyed by parent
    setStakeSeen, setStakeSeenOrphan,
    vWorkQueue,         \* blocks whose orphans are still to be processed
    failed              \* not of the code: indexed blocks AcceptBlock failed for

orphanVars == <<mapOrphanBlocks, mapOrphanBlocksByPrev, setStakeSeenOrphan>>
vars == <<index, setStakeSeen, failed, orphanVars, vWorkQueue>>

TypeOK ==
    /\ index \subseteq Block
    /\ mapOrphanBlocks \subseteq Block
    /\ mapOrphanBlocksByPrev \subseteq Block
    /\ vWorkQueue \in Seq(index)
    /\ failed \subseteq index

Init ==
    /\ index = {Genesis}
    /\ mapOrphanBlocks = {} /\ mapOrphanBlocksByPrev = {}
    /\ setStakeSeen = {} /\ setStakeSeenOrphan = {}
    /\ vWorkQueue = <<>>
    /\ failed = {}

IsProofOfStake(b) == Stake[b] # NoStake
StakesOf(blocks) == {Stake[b] : b \in {c \in blocks : IsProofOfStake(c)}}

\* The entries of mapOrphanBlocksByPrev under a hash.
OrphansOf(b, byPrev) == {o \in byPrev : o # Genesis /\ Parent[o] = b}
HasOrphanChild(b) == OrphansOf(b, mapOrphanBlocksByPrev) # {}

-----------------------------------------------------------------------------
\* AcceptBlock: what it does to the index, and whether it returns true.
AcceptOutcomes ==
    {[indexed |-> TRUE, ok |-> TRUE], [indexed |-> FALSE, ok |-> FALSE]} \cup
    (IF BestChainMayFail THEN {[indexed |-> TRUE, ok |-> FALSE]} ELSE {})

\* Mutant: the block is in the stakes seen and not in the index.
AcceptBlock_Unindexed(b, outcome) ==
    IF outcome.indexed
    THEN UNCHANGED <<index, failed>> /\ setStakeSeen' = setStakeSeen \cup StakesOf({b})
    ELSE UNCHANGED <<index, setStakeSeen, failed>>

AcceptBlock(b, outcome) ==
    IF outcome.indexed
    THEN /\ index' = index \cup {b}
         /\ setStakeSeen' = setStakeSeen \cup StakesOf({b})
         /\ failed' = IF outcome.ok THEN failed ELSE failed \cup {b}
    ELSE UNCHANGED <<index, setStakeSeen, failed>>

\* The checks at the top of ProcessBlock.
MayProcess_AnyStake(b) == b \notin index /\ b \notin mapOrphanBlocks
MayProcess_Held(b) ==
    b \notin index /\ (Stake[b] \in setStakeSeen => HasOrphanChild(b))
MayProcess(b) ==
    /\ b \notin index /\ b \notin mapOrphanBlocks
    /\ Stake[b] \in setStakeSeen => HasOrphanChild(b)

\* PruneOrphanBlocks: the random walk ends at an orphan nothing depends on.
Prunable(byPrev) == {o \in byPrev : OrphansOf(o, byPrev) = {}}

PruneNeeded_Late == Cardinality(mapOrphanBlocksByPrev) > MaxOrphans + 1
PruneNeeded == Cardinality(mapOrphanBlocksByPrev) > MaxOrphans

\* The orphans that go before a new one is held: none or one.
Pruned ==
    IF PruneNeeded THEN {{o} : o \in Prunable(mapOrphanBlocksByPrev)} ELSE {{}}

\* The orphan leaves both maps, and its stake the set of stakes seen.
Drop_KeepByPrev(gone) ==
    /\ mapOrphanBlocks' = mapOrphanBlocks \ gone
    /\ UNCHANGED mapOrphanBlocksByPrev
    /\ setStakeSeenOrphan' = setStakeSeenOrphan \ StakesOf(gone)
Drop(gone) ==
    /\ mapOrphanBlocks' = mapOrphanBlocks \ gone
    /\ mapOrphanBlocksByPrev' = mapOrphanBlocksByPrev \ gone
    /\ setStakeSeenOrphan' = setStakeSeenOrphan \ StakesOf(gone)

\* ProcessBlock of a block from a peer whose parent is not indexed.  One from
\* the miner or a file is dropped instead, which changes nothing.
HoldOrphan(b) ==
    /\ vWorkQueue = <<>>
    /\ MayProcess(b) /\ Parent[b] \notin index
    /\ Stake[b] \in setStakeSeenOrphan => HasOrphanChild(b)
    /\ \E gone \in Pruned :
        /\ mapOrphanBlocks' = (mapOrphanBlocks \ gone) \cup {b}
        /\ mapOrphanBlocksByPrev' = (mapOrphanBlocksByPrev \ gone) \cup {b}
        /\ setStakeSeenOrphan' =
               (setStakeSeenOrphan \ StakesOf(gone)) \cup StakesOf({b})
    /\ UNCHANGED <<index, setStakeSeen, failed, vWorkQueue>>

\* ProcessBlock of a block whose parent is indexed, up to the work queue.
AcceptArrived(b) ==
    /\ vWorkQueue = <<>>
    /\ MayProcess(b) /\ Parent[b] \in index
    /\ \E outcome \in AcceptOutcomes :
        /\ AcceptBlock(b, outcome)
        /\ vWorkQueue' = IF outcome.ok THEN <<b>> ELSE <<>>
    /\ UNCHANGED orphanVars

\* Mutant: an orphan that is accepted does not join the queue.
Queued_Not(o) == vWorkQueue
Queued(o) == Append(vWorkQueue, o)

\* One orphan of the work queue's head: accepted or not, it leaves the area.
ProcessOrphan(o) ==
    /\ vWorkQueue # <<>>
    /\ o \in OrphansOf(Head(vWorkQueue), mapOrphanBlocksByPrev)
    /\ \E outcome \in AcceptOutcomes :
        /\ AcceptBlock(o, outcome)
        /\ vWorkQueue' = IF outcome.ok THEN Queued(o) ELSE vWorkQueue
    /\ Drop({o})

\* No orphan of the head is left.
NextInQueue ==
    /\ vWorkQueue # <<>> /\ ~ HasOrphanChild(Head(vWorkQueue))
    /\ vWorkQueue' = Tail(vWorkQueue)
    /\ UNCHANGED <<index, setStakeSeen, failed, orphanVars>>

\* The process ends and starts again; LoadBlockIndex builds setStakeSeen.
Restart ==
    /\ mapOrphanBlocks' = {} /\ mapOrphanBlocksByPrev' = {}
    /\ setStakeSeenOrphan' = {} /\ vWorkQueue' = <<>>
    /\ setStakeSeen' = StakesOf(index)
    /\ UNCHANGED <<index, failed>>

Next ==
    \/ \E b \in Block \ {Genesis} : HoldOrphan(b) \/ AcceptArrived(b)
    \/ \E o \in Block \ {Genesis} : ProcessOrphan(o)
    \/ NextInQueue
    \/ Restart

Spec == Init /\ [][Next]_vars

-----------------------------------------------------------------------------
(* Properties.                                                               *)

\* The map by hash and the multimap by parent hold the same blocks, whichever
\* of pruning, acceptance and restart removed one.
MapsAgree == mapOrphanBlocks = mapOrphanBlocksByPrev

\* The area never holds more than one block above the limit: pruning removes
\* one block before one is added.
AreaBounded == Cardinality(mapOrphanBlocksByPrev) <= MaxOrphans + 1

\* main.cpp:2726: "If we don't already have its previous block, shunt it off to
\* holding area until we get it".  With the work queue empty an orphan whose
\* parent is indexed, and which nothing will process again, is one of a parent
\* for which AcceptBlock returned false after indexing it: however chains of
\* orphans, refused blocks and siblings follow each other, the queue misses no
\* other.
HeldUntilParent ==
    vWorkQueue = <<>> =>
        \A o \in mapOrphanBlocks :
            o # Genesis /\ Parent[o] \in index => Parent[o] \in failed

\* No indexed block is still held: it would be refused as already held.
HeldNotIndexed == mapOrphanBlocks \cap index = {}

\* A block that arrives with the stake of an indexed block is indexed only if
\* it has an orphan child, also after a restart has rebuilt setStakeSeen.
StakeSeenOnce ==
    [][vWorkQueue = <<>> =>
        \A b \in index' \ index :
            Stake[b] \in StakesOf(index) => HasOrphanChild(b)]_vars

=============================================================================
