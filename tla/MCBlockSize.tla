---------------------------- MODULE MCBlockSize ----------------------------
(* The tree of MCChainState with two blocks more and less trust in b3, so    *)
(* that the branch b3..b7 may have to be connected from below a3 at once;    *)
(* c3 spends an output of c2.  With a median of three sizes some blocks fit  *)
(* only after other big blocks.                                              *)
EXTENDS BlockSize, MCChainState

MCSizedBlock == MCBlock \cup {"b6", "b7"}
MCSizedParent == [b6 |-> "b5", b7 |-> "b6"] @@ MCParent
MCSizedBranch == [b6 |-> MCBranch["b5"] \cup {"b6"},
                   b7 |-> MCBranch["b5"] \cup {"b6", "b7"}] @@ MCBranch
MCSizedHeight == [b6 |-> 6, b7 |-> 7] @@ MCHeight
MCSizedTrust == [b3 |-> 3, b6 |-> 12, b7 |-> 15] @@ MCChainTrust
MCSizedMint == [b6 |-> 1, b7 |-> 1] @@ MCMint
MCSizedTx == MCTx \cup {"s6"}
MCSizedInputs == [s6 |-> {"s2"}] @@ MCInputs
MCSizedTxsOf == [b4 |-> {}, b5 |-> {"s5"}, b6 |-> {}, b7 |-> {},
                 c2 |-> {"s2"}, c3 |-> {"s6"}, c4 |-> {}] @@ MCTxsOf

MCSize == [g |-> 1, a1 |-> 1, a2 |-> 2, a3 |-> 1, a4 |-> 1,
           b3 |-> 2, b4 |-> 3, b5 |-> 3, b6 |-> 2, b7 |-> 1, c2 |-> 2, c3 |-> 1, c4 |-> 3]
=============================================================================
