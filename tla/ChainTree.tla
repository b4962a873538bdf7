----------------------------- MODULE ChainTree -----------------------------
(* The data the chain state of main.cpp is about: a tree of blocks that pass *)
(* the context-free and contextual checks of CheckBlock and AcceptBlock, the *)
(* transactions in them, and what GetBlockTrust adds up to along a branch.   *)
(* A transaction has one output, named by the transaction.  Blocks list only *)
(* transactions in an order their inputs allow; a block that ConnectBlock    *)
(* refuses for any reason but its inputs (signatures, reward, sigops) is in  *)
(* Invalid.                                                                  *)
EXTENDS Integers, FiniteSets

CONSTANTS
    Block,          \* block hashes
    Genesis,        \* Params().HashGenesisBlock()
    Parent,         \* hashPrevBlock
    Branch,         \* the block and its ancestors
    Height,         \* nHeight
    ChainTrust,     \* nChainTrust
    Mint,           \* coins the block adds to nMoneySupply
    Tx,             \* transaction hashes
    TxsOf,          \* vtx
    Inputs,         \* the outputs a transaction spends; none for a coinbase
    CoinStake,      \* the transactions that are coinstakes
    Invalid         \* blocks ConnectBlock refuses whatever their inputs

ASSUME TreeAssumption ==
    /\ Genesis \in Block
    /\ Parent \in [Block \ {Genesis} -> Block]
    /\ Branch \in [Block -> SUBSET Block]
    /\ Branch[Genesis] = {Genesis}
    /\ \A b \in Block \ {Genesis} : Branch[b] = Branch[Parent[b]] \cup {b}
    /\ Height \in [Block -> Nat]
    /\ Height[Genesis] = 0
    /\ \A b \in Block \ {Genesis} : Height[b] = Height[Parent[b]] + 1

ASSUME TrustAssumption ==
    /\ ChainTrust \in [Block -> Nat]
    /\ \A b \in Block \ {Genesis} : ChainTrust[b] > ChainTrust[Parent[b]]

ASSUME TxAssumption ==
    /\ Mint \in [Block -> Nat]
    /\ TxsOf \in [Block -> SUBSET Tx]
    /\ Inputs \in [Tx -> SUBSET Tx]
    /\ CoinStake \subseteq Tx
    /\ Genesis \notin Invalid /\ TxsOf[Genesis] = {}

\* A transaction is in one block of a branch: "Enforce rule that the coinbase
\* starts with serialized block height" (main.cpp:2594), and ConnectBlock finds
\* the inputs of any other one spent when it comes again.
ASSUME RepeatAssumption ==
    \A b \in Block : \A a \in Branch[b] \ {b} :
        TxsOf[a] \cap TxsOf[b] # {} => b \in Invalid

IsCoinBase(t) == Inputs[t] = {}
\* Valid outside a block.
IsLoose(t) == ~IsCoinBase(t) /\ t \notin CoinStake
Ancestor(b, h) == CHOOSE a \in Branch[b] : Height[a] = h

\* The last block two branches share.
ForkOf(a, b) ==
    LET common == Branch[a] \cap Branch[b]
    IN  CHOOSE f \in common : \A c \in common : Height[c] <= Height[f]

TxsIn(blocks) == UNION {TxsOf[b] : b \in blocks}
SpentBy(txs) == UNION {Inputs[t] : t \in txs}
=============================================================================
