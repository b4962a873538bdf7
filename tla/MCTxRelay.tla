----------------------------- MODULE MCTxRelay -----------------------------
(* c0 and c1 are confirmed; a spends c0 and b spends c1.  d spends both a    *)
(* and b, f spends b and so conflicts with d, and g spends d: too big to be  *)
(* an orphan, and its fee is too low.                                        *)
EXTENDS TxRelay

MCTx == {"c0", "c1", "a", "b", "d", "f", "g"}
MCInputs == [c0 |-> {}, c1 |-> {}, a |-> {"c0"}, b |-> {"c1"},
             d |-> {"a", "b"}, f |-> {"b"}, g |-> {"d"}]
=============================================================================
