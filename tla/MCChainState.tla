--------------------------- MODULE MCChainState ----------------------------
(* A tree of eleven blocks for ChainState: a chain a1..a4 with a coinbase that *)
(* is spent along it, a heavier branch b3..b5 from a2 whose blocks spend what *)
(* a3 spends and then each other's output, and a heavier branch c2..c4 from   *)
(* a1 that leaves a2's transaction out.                                      *)
EXTENDS ChainState

MCBlock == {"g", "a1", "a2", "a3", "a4", "b3", "b4", "b5", "c2", "c3", "c4"}
MCParent == [a1 |-> "g", a2 |-> "a1", a3 |-> "a2", a4 |-> "a3",
             b3 |-> "a2", b4 |-> "b3", b5 |-> "b4",
             c2 |-> "a1", c3 |-> "c2", c4 |-> "c3"]
MCBranch == [g |-> {"g"}, a1 |-> {"g", "a1"}, a2 |-> {"g", "a1", "a2"},
             a3 |-> {"g", "a1", "a2", "a3"},
             a4 |-> {"g", "a1", "a2", "a3", "a4"},
             b3 |-> {"g", "a1", "a2", "b3"},
             b4 |-> {"g", "a1", "a2", "b3", "b4"},
             b5 |-> {"g", "a1", "a2", "b3", "b4", "b5"},
             c2 |-> {"g", "a1", "c2"}, c3 |-> {"g", "a1", "c2", "c3"},
             c4 |-> {"g", "a1", "c2", "c3", "c4"}]
MCHeight == [b \in MCBlock |-> Cardinality(MCBranch[b]) - 1]
MCChainTrust == [g |-> 0, a1 |-> 1, a2 |-> 2, a3 |-> 3, a4 |-> 4,
                 b3 |-> 4, b4 |-> 6, b5 |-> 9, c2 |-> 3, c3 |-> 5, c4 |-> 8]
MCMint == [b \in MCBlock |-> IF b = "b4" THEN 3 ELSE 1]

MCTx == {"cb", "s1", "s2", "s3", "s4", "s5"}
MCTxsOf == [g |-> {}, a1 |-> {"cb"}, a2 |-> {"s1"}, a3 |-> {"s3"}, a4 |-> {},
            b3 |-> {"s4"}, b4 |-> {"s5"}, b5 |-> {},
            c2 |-> {}, c3 |-> {}, c4 |-> {"s2"}]
MCInputs == [cb |-> {}, s1 |-> {"cb"}, s2 |-> {"cb"}, s3 |-> {"s1"},
             s4 |-> {"s1"}, s5 |-> {"s4"}]

(* The same tree with d3 and d4 on a2.  With d3 invalid, d3 fails as a child of *)
(* the best block and in the middle of Reorganize, with blocks disconnected and *)
(* d4 to come; it is never a further block, because no best block that may be  *)
(* reorganized has less trust than its parent a2.  With velocity answering at  *)
(* height 4, b4 fails in Reorganize after b3, whose output it spends.          *)
MCForkedBlock == MCBlock \cup {"d3", "d4"}
MCForkedParent == [d3 |-> "a2", d4 |-> "d3"] @@ MCParent
MCForkedBranch == [d3 |-> MCBranch["a2"] \cup {"d3"},
                   d4 |-> MCBranch["a2"] \cup {"d3", "d4"}] @@ MCBranch
MCForkedHeight == [d3 |-> 3, d4 |-> 4] @@ MCHeight
MCForkedTrust == [d3 |-> 3, d4 |-> 7] @@ MCChainTrust
MCForkedMint == [d3 |-> 1, d4 |-> 1] @@ MCMint
MCForkedTxsOf == [d3 |-> {}, d4 |-> {}] @@ MCTxsOf
=============================================================================
