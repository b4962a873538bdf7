-------------------------- MODULE MCOrphanBlocks ---------------------------
(* Six blocks besides the genesis block: p, with a stake of its own, starts a *)
(* chain p-q-z, x is a second child of p, y and z and x share the stake s,   *)
(* and c is a child of z.                                                    *)
EXTENDS OrphanBlocks

MCBlock == {"g", "p", "q", "x", "y", "z", "c"}
MCParent == [p |-> "g", q |-> "p", x |-> "p", y |-> "g", z |-> "q", c |-> "z"]
MCStake == [g |-> "none", p |-> "s0", q |-> "none", x |-> "s", y |-> "s",
            z |-> "s", c |-> "none"]
=============================================================================
