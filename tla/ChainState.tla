---------------------------- MODULE ChainState -----------------------------
(* The best chain of main.cpp: AcceptBlock indexes a block, SetBestChain     *)
(* extends the best chain or reorganizes to a heavier branch, and the block  *)
(* index and transaction index in the database are changed one committed     *)
(* database transaction at a time.  cs_main is held from AcceptBlock to the  *)
(* end of SetBestChain, so between two commits only a crash can happen:      *)
(* every action below is the stretch of code up to the next commit.          *)
(*                                                                           *)
(* Variables named db... are the database; the others are lost in a crash    *)
(* and rebuilt by LoadBlockIndex.  mapBlockIndex is filled and committed     *)
(* together, so "index" stands for both.                                     *)
EXTENDS ChainTree, Sequences, SequencesExt

CONSTANTS
    MaxReorg,       \* BLOCK_REORG_MAX_DEPTH
    RollingMin,     \* height from which RollingCheckpoints finds a block (500)
    RollingDepth,   \* how far below the tip it is (121)
    SyncDepth,      \* how far below the tip AutoSelectSyncCheckpoint looks (620)
    FactorHeight,   \* FACTOR_TOGGLE: heights above it set VELOCITY_FACTOR (500)
    VelocityHeights,\* heights at which Velocity_check answers true.  It reads
                    \* VELOCITY_HEIGHT[nHeight], beyond the array's one element:
                    \* the build decides, so any set of heights is possible.
    MaxCrashes,     \* bound: crashes in a behaviour
    NoBlock, Absent, Unspent

ASSUME ChainAssumption ==
    /\ MaxReorg \in Nat /\ FactorHeight \in Nat /\ MaxCrashes \in Nat
    /\ SyncDepth \in Nat /\ RollingDepth \in Nat /\ RollingMin \in Nat /\ RollingMin >= RollingDepth
    /\ NoBlock \notin Block
    /\ Absent \notin Tx /\ Unspent \notin Tx /\ Absent # Unspent

VARIABLES
    index,          \* mapBlockIndex and the CDiskBlockIndex records' keys
    dbBest,         \* hashBestChain as stored
    dbNext,         \* hashNext of the stored records
    dbSupply,       \* nMoneySupply of the stored records
    dbTx,           \* CTxIndex: Absent, Unspent or the spending transaction
    best,           \* pindexBest, with hashBestChain, nBestHeight, ...
    pnext, moneySupply,
    pool,           \* mempool.mapTx
    velocityFactor, \* VELOCITY_FACTOR
    target,         \* pindexNew while SetBestChain runs, else NoBlock
    cursor,         \* last block it has connected, NoBlock before the first
    crashes         \* number of crashes so far

dbVars == <<index, dbBest, dbNext, dbSupply, dbTx>>
memVars == <<best, pnext, moneySupply, pool, velocityFactor>>
runVars == <<target, cursor, crashes>>
vars == <<dbVars, memVars, runVars>>

TypeOK ==
    /\ index \subseteq Block
    /\ dbBest \in Block /\ best \in Block
    /\ dbNext \in [Block -> Block \cup {NoBlock}]
    /\ pnext \in [Block -> Block \cup {NoBlock}]
    /\ dbSupply \in [Block -> Nat] /\ moneySupply \in [Block -> Nat]
    /\ dbTx \in [Tx -> Tx \cup {Absent, Unspent}]
    /\ pool \subseteq Tx
    /\ velocityFactor \in BOOLEAN
    /\ target \in Block \cup {NoBlock} /\ cursor \in Block \cup {NoBlock}
    /\ crashes \in Nat

Init ==
    /\ index = {Genesis} /\ dbBest = Genesis /\ best = Genesis
    /\ dbNext = [b \in Block |-> NoBlock] /\ pnext = dbNext
    /\ dbSupply = [b \in Block |-> 0] /\ moneySupply = dbSupply
    /\ dbTx = [t \in Tx |-> Absent]
    /\ pool = {}
    /\ velocityFactor = FALSE
    /\ target = NoBlock /\ cursor = NoBlock /\ crashes = 0

-----------------------------------------------------------------------------
(* Connecting and disconnecting blocks.  A view is what one database         *)
(* transaction has changed so far: the transaction index, the stored next    *)
(* links, the stored and the in-memory money supply, and whether every step  *)
(* succeeded.  A failed transaction is aborted, but moneySupply is memory.   *)

View == [ok |-> TRUE, tx |-> dbTx, next |-> dbNext, disk |-> dbSupply,
         mem |-> moneySupply]

\* Mutant: the inputs stay spent.
Disconnected_Spent(tx, b) ==
    [t \in Tx |-> IF t \in TxsOf[b] THEN Absent ELSE tx[t]]

\* DisconnectInputs: the inputs are unspent again, the transaction is erased.
Disconnected(tx, b) ==
    [t \in Tx |-> CASE t \in TxsOf[b] -> Absent
                    [] t \in SpentBy(TxsOf[b]) /\ t \notin TxsOf[b] -> Unspent
                    [] OTHER -> tx[t]]

\* DisconnectBlock, for a block that is not the genesis block.  It fails when
\* an input's transaction is not in the index.
DisconnectBlock(v, b) ==
    [ok |-> v.ok /\ \A i \in SpentBy(TxsOf[b]) : v.tx[i] # Absent,
     tx |-> Disconnected(v.tx, b),
     next |-> [v.next EXCEPT ![Parent[b]] = NoBlock],
     disk |-> [v.disk EXCEPT ![Parent[b]] = v.mem[Parent[b]]],
     mem |-> v.mem]

\* FetchInputs and ConnectInputs for every transaction of the block.
InputsAvailable(tx, b) ==
    /\ \A i \in SpentBy(TxsOf[b]) : i \in TxsOf[b] \/ tx[i] = Unspent
    /\ \A t, u \in TxsOf[b] : t # u => Inputs[t] \cap Inputs[u] = {}

\* Mutant: the spent marker holds the block instead of the transaction.
Connected_Block(tx, b) ==
    [t \in Tx |-> IF t \in SpentBy(TxsOf[b]) THEN b
                  ELSE IF t \in TxsOf[b] THEN Unspent ELSE tx[t]]

Connected(tx, b) ==
    [t \in Tx |->
        IF t \in SpentBy(TxsOf[b])
        THEN CHOOSE u \in TxsOf[b] : t \in Inputs[u]
        ELSE IF t \in TxsOf[b] THEN Unspent ELSE tx[t]]

\* Mutant: the supply is added to what the record had before.
ConnectBlock_Supply(v, b) ==
    IF ~v.ok \/ b \in Invalid \/ ~InputsAvailable(v.tx, b)
    THEN [v EXCEPT !.ok = FALSE]
    ELSE [ok |-> TRUE,
          tx |-> Connected(v.tx, b),
          next |-> [v.next EXCEPT ![b] = pnext[b], ![Parent[b]] = b],
          disk |-> [v.disk EXCEPT ![b] = v.mem[b] + Mint[b],
                                  ![Parent[b]] = v.mem[Parent[b]]],
          mem |-> [v.mem EXCEPT ![b] = v.mem[b] + Mint[b]]]

ConnectBlock(v, b) ==
    IF ~v.ok \/ b \in Invalid \/ ~InputsAvailable(v.tx, b)
    THEN [v EXCEPT !.ok = FALSE]
    ELSE LET supply == v.mem[Parent[b]] + Mint[b] IN
         [ok |-> TRUE,
          tx |-> Connected(v.tx, b),
          next |-> [v.next EXCEPT ![b] = pnext[b], ![Parent[b]] = b],
          disk |-> [v.disk EXCEPT ![b] = supply, ![Parent[b]] = v.mem[Parent[b]]],
          mem |-> [v.mem EXCEPT ![b] = supply]]

\* Velocity with fFactor_tx.  tx_Factor opens a CTxDB of its own, which reads
\* the committed index and not the database transaction in progress.
\* VelocityI of the accepted block has set VELOCITY_FACTOR before Reorganize.
VelocityPasses(b) ==
    Height[b] \in VelocityHeights /\ velocityFactor =>
        \A i \in SpentBy(TxsOf[b]) : dbTx[i] # Absent

ConnectChecked(v, b) ==
    LET w == ConnectBlock(v, b) IN [w EXCEPT !.ok = @ /\ VelocityPasses(b)]

-----------------------------------------------------------------------------
(* The memory pool.                                                          *)

\* Mutant: the spent outputs of mapNextTx are not looked up.
PoolAccepts_NoConflict(txs, tx, t) ==
    /\ IsLoose(t)
    /\ t \notin txs /\ tx[t] = Absent
    /\ \A i \in Inputs[t] : tx[i] = Unspent

\* AcceptToMemoryPool of a standard transaction that pays its fee.
PoolAccepts(txs, tx, t) ==
    /\ IsLoose(t)
    /\ t \notin txs /\ tx[t] = Absent
    /\ \A u \in txs : Inputs[u] \cap Inputs[t] = {}
    /\ \A i \in Inputs[t] : tx[i] = Unspent

\* AcceptToMemoryPool of transactions one by one: of two that spend the same
\* output the later one is refused.
Readmitted(txs, tx, ts) ==
    LET fit == {t \in ts : PoolAccepts(txs, tx, t)}
        Apart(s) == \A t, u \in s : t # u => Inputs[t] \cap Inputs[u] = {}
    IN  {s \in SUBSET fit : Apart(s) /\ \A t \in fit \ s : ~ Apart(s \cup {t})}

\* remove(tx, fRecursive = true) of every transaction of a set.
RemoveRecursive(txs, gone) ==
    LET Closed(d) == /\ gone \cap txs \subseteq d
                     /\ \A t \in txs : Inputs[t] \cap d # {} => t \in d
    IN  {t \in txs : \E d \in SUBSET txs : Closed(d) /\ t \notin d}

\* remove and removeConflicts of every transaction of a set.
RemoveConfirmed(txs, confirmed) ==
    LET rest == txs \ confirmed
        conflicts == {t \in rest : Inputs[t] \cap SpentBy(confirmed) # {}}
    IN  RemoveRecursive(rest, conflicts)

-----------------------------------------------------------------------------
(* Reorganize.                                                               *)

Path(from, to) ==
    [i \in 1 .. Height[to] - Height[from] |-> Ancestor(to, Height[from] + i)]

\* Mutant: as heavy as the best block is enough.
Intermediate_Equal(b) ==
    CHOOSE a \in Branch[b] \ {Genesis} :
        /\ ChainTrust[a] >= ChainTrust[best]
        /\ Parent[a] = Genesis \/ ChainTrust[Parent[a]] < ChainTrust[best]

\* The first block of the new branch that is heavier than the best block.
Intermediate(b) ==
    CHOOSE a \in Branch[b] :
        /\ ChainTrust[a] > ChainTrust[best]
        /\ ChainTrust[Parent[a]] <= ChainTrust[best]

\* The height test compares the two tips; RollingCheckpoints(pindexBest).
DepthAllowed(b) == Height[b] - Height[best] <= MaxReorg
\* Mutant: the new branch is not compared with the rolling block.
RollingBlockKept_Height(b) == Height[best] >= RollingMin /\ b \in index

RollingBlockKept(b) ==
    /\ Height[best] >= RollingMin
    /\ Ancestor(best, Height[best] - RollingDepth) \in Branch[b]

\* diffFactor is one more than the number of blocks to disconnect.
SupplyAllowed(b) ==
    LET fork == ForkOf(best, b)
        diffFactor == Height[best] - Height[fork] + 1
    IN  moneySupply[fork] + diffFactor >= moneySupply[b]

\* The best chain is disconnected down to the fork, then b's is connected.
Unwound(b) == FoldLeft(DisconnectBlock, View, Reverse(Path(ForkOf(best, b), best)))
Reorganized(b) == FoldLeft(ConnectChecked, Unwound(b), Path(ForkOf(best, b), b))

\* The transactions of disconnected blocks above preorgmax come back.
Resurrected(b) ==
    LET fork == ForkOf(best, b)
        blocks == {c \in Branch[best] \ Branch[fork] :
                      Height[c] > Height[best] - MaxReorg}
    IN  {t \in TxsIn(blocks) : IsLoose(t)}

\* Mutant: the next links of the shorter branch stay.
Relinked_Kept(fork, b) ==
    [c \in Block |->
        IF c \in Branch[b] /\ c # b /\ Height[c] >= Height[fork]
        THEN Ancestor(b, Height[c] + 1) ELSE pnext[c]]

Relinked(fork, b) ==
    [c \in Block |->
        IF c \in Branch[b] /\ c # b /\ Height[c] >= Height[fork]
        THEN Ancestor(b, Height[c] + 1)
        ELSE IF c \in Branch[best] /\ Height[c] >= Height[fork] /\ c # best
             THEN NoBlock
             ELSE pnext[c]]

-----------------------------------------------------------------------------
(* The steps.                                                                *)

Idle == target = NoBlock

\* What a committed database transaction leaves behind.
Commit(v, b) ==
    /\ dbTx' = v.tx /\ dbNext' = v.next /\ dbSupply' = v.disk
    /\ dbBest' = b
    /\ moneySupply' = v.mem
    /\ UNCHANGED index

\* The database transaction is aborted; what ConnectBlock wrote to the block
\* index in memory stays.
Abort(v) == UNCHANGED dbVars /\ moneySupply' = v.mem

\* "New best block" at the end of SetBestChain.
NewBest(b) == best' = b /\ target' = NoBlock /\ cursor' = NoBlock
Refused == UNCHANGED best /\ target' = NoBlock /\ cursor' = NoBlock
Advanced(b) == IF b = target THEN NewBest(target)
               ELSE UNCHANGED <<best, target>> /\ cursor' = b

\* CheckSync: the block is above the block AutoSelectSyncCheckpoint returns.
CheckSync(b) ==
    LET span == IF Height[best] < RollingMin THEN 1 ELSE SyncDepth
    IN  Height[b] > (IF Height[best] > span THEN Height[best] - span ELSE 0)

\* AcceptBlock and AddToBlockIndex, up to the call of SetBestChain.  The new
\* record has no next block and no supply, as the maps say of absent blocks.
AcceptBlock(b) ==
    /\ Idle
    /\ b \notin index /\ Parent[b] \in index
    /\ CheckSync(b)
    /\ index' = index \cup {b}
    /\ velocityFactor' = (velocityFactor \/ Height[b] > FactorHeight)
    /\ target' = IF ChainTrust[b] > ChainTrust[best] THEN b ELSE NoBlock
    /\ UNCHANGED <<dbBest, dbNext, dbSupply, dbTx, best, pnext, moneySupply,
                   pool, cursor, crashes>>

\* AcceptBlock of a block it refuses after Velocity_check.
RefuseBlock ==
    /\ Idle /\ ~velocityFactor
    /\ \E p \in index : Height[p] >= FactorHeight
    /\ velocityFactor' = TRUE
    /\ UNCHANGED <<dbVars, best, pnext, moneySupply, pool, runVars>>

\* Mutant: the pool keeps what the block confirmed.
Attached_PoolKept(v, b) ==
    /\ Commit(v, b)
    /\ pnext' = [pnext EXCEPT ![Parent[b]] = b]
    /\ UNCHANGED pool

\* SetBestChainInner after ConnectBlock: commit, link and clean the pool.
Attached(v, b) ==
    /\ Commit(v, b)
    /\ pnext' = [pnext EXCEPT ![Parent[b]] = b]
    /\ pool' = pool \ TxsOf[b]

\* SetBestChain of a child b of the best block; v is what ConnectBlock made.
Extended(v, b) ==
    /\ \/ v.ok /\ Attached(v, b) /\ NewBest(b)
       \/ ~v.ok /\ Abort(v) /\ Refused /\ UNCHANGED <<pnext, pool>>
    /\ UNCHANGED <<velocityFactor, crashes>>

ExtendBest ==
    /\ target # NoBlock /\ Parent[target] = best
    /\ Extended(ConnectBlock(View, target), target)

MayReorganize(b) ==
    DepthAllowed(b) /\ RollingBlockKept(b) /\ SupplyAllowed(b)

\* SetBestChain of any other block, through Reorganize's TxnCommit and the
\* memory changes that follow it.
Switched(v, b) ==
    /\ \/ /\ v.ok
          /\ Commit(v, b)
          /\ pnext' = Relinked(ForkOf(best, b), b)
          /\ LET connected == TxsIn(Branch[b] \ Branch[best]) IN
             \E back \in Readmitted(pool, v.tx, Resurrected(b)) :
                 pool' = RemoveConfirmed(pool \cup back, connected)
          /\ Advanced(b)
       \/ ~v.ok /\ Abort(v) /\ Refused /\ UNCHANGED <<pnext, pool>>
    /\ UNCHANGED <<velocityFactor, crashes>>

Reorganize ==
    /\ target # NoBlock /\ Parent[target] # best /\ cursor = NoBlock
    /\ LET b == Intermediate(target)
       IN  Switched(IF MayReorganize(b) THEN Reorganized(b)
                    ELSE [View EXCEPT !.ok = FALSE], b)

\* One round of "Connect further blocks".  A failure ends the loop, and the
\* code below it makes the target the best block all the same.
Continued(v, b) ==
    /\ \/ v.ok /\ Attached(v, b) /\ Advanced(b)
       \/ ~v.ok /\ Abort(v) /\ NewBest(target) /\ UNCHANGED <<pnext, pool>>
    /\ UNCHANGED <<velocityFactor, crashes>>

ConnectSecondary ==
    /\ target # NoBlock /\ cursor # NoBlock
    /\ LET b == Ancestor(target, Height[cursor] + 1)
       IN  Continued(ConnectBlock(View, b), b)

\* AcceptToMemoryPool of a transaction a peer or the wallet sends.
AcceptToMemoryPool(t) ==
    /\ Idle
    /\ PoolAccepts(pool, dbTx, t)
    /\ pool' = pool \cup {t}
    /\ UNCHANGED <<dbVars, best, pnext, moneySupply, velocityFactor, runVars>>

\* The process ends between two commits; LoadBlockIndex starts the next one.
LoadBlockIndex ==
    /\ best' = dbBest /\ pnext' = dbNext /\ moneySupply' = dbSupply
    /\ pool' = {} /\ velocityFactor' = FALSE

Restarted ==
    LoadBlockIndex /\ target' = NoBlock /\ cursor' = NoBlock /\ UNCHANGED dbVars

Crash == crashes < MaxCrashes /\ crashes' = crashes + 1 /\ Restarted

Next ==
    \/ \E b \in Block \ {Genesis} : AcceptBlock(b)
    \/ RefuseBlock \/ ExtendBest \/ Reorganize \/ ConnectSecondary
    \/ \E t \in Tx : AcceptToMemoryPool(t)
    \/ Crash

Spec == Init /\ [][Next]_vars

-----------------------------------------------------------------------------
(* Properties.                                                               *)

\* Whatever crashes, failing blocks in the middle of Reorganize and refused
\* reorganizations happen, the committed best block and coin index move only
\* from one fully valid chain to a heavier one: a reorganization is one atomic
\* step of the database.  It holds as long as "Connect further blocks" has not
\* failed: after that the best block in memory is not the committed one.
L == INSTANCE Ledger WITH tip <- dbBest,
                          coins <- {t \in Tx : dbTx[t] = Unspent}
AtomicLedger == L!Spec

\* The committed best block is only ever replaced by one with more trust, also
\* across crashes and after a secondary connection failed.
TipWorkGrows ==
    [][dbBest' # dbBest => ChainTrust[dbBest'] > ChainTrust[dbBest]]_vars

\* IsInMainChain and every walk along pnext agree with pindexBest: the blocks
\* that have a next block, and the best one, are the best block's branch.
LinksFollowBest ==
    /\ {b \in Block : pnext[b] # NoBlock \/ b = best} = Branch[best]
    /\ \A b \in Branch[best] \ {Genesis} : pnext[Parent[b]] = b

NextLinksFollowBest == Idle => LinksFollowBest

\* The money supply stored along the best chain adds up, though ConnectBlock
\* takes the parent's from memory, reorganizations rewrite the records and a
\* failed one leaves its sums in memory.  No further block has failed.
SupplyAddsUp ==
    \A b \in Branch[dbBest] \ {Genesis} :
        dbSupply[b] = dbSupply[Parent[b]] + Mint[b]

\* A confirmed transaction is never in the memory pool, which
\* CreateNewBlock would otherwise put in a second block.
PoolUnconfirmed == \A t \in pool : dbTx[t] = Absent

\* Two transactions of the pool never spend the same output (mapNextTx has one
\* entry an output), also after a reorganization has put some back.
PoolConflictFree ==
    \A t, u \in pool : t # u => Inputs[t] \cap Inputs[u] = {}

\* One SetBestChain, with its reorganization, the further blocks it connects
\* commit by commit and a failure among them, keeps the block RollingDepth below
\* the best block it started from, though only the intermediate block's branch
\* is compared with it.  A block may go in two calls: a heavier branch may be
\* shorter, and the rolling block of its tip lies lower.
BuriedBlocksStay ==
    [][crashes' = crashes /\ Height[best] >= RollingMin =>
           Ancestor(best, Height[best] - RollingDepth) \in Branch[best']]_vars

\* main.cpp:2246: "errors now are not fatal, we still did a reorganisation to
\* a new chain in a valid way": the best block in memory is the one committed.
BestIsStored == Idle => best = dbBest

=============================================================================
