------------------------------ MODULE Ledger -------------------------------
(* What the chain state promises to the rest of the node: a best block whose *)
(* whole history is valid, replaced only by one with more trust, and a coin  *)
(* database that is exactly what that history leaves unspent.                *)
EXTENDS ChainTree

VARIABLES tip, coins

CoinsOf(b) == TxsIn(Branch[b]) \ SpentBy(TxsIn(Branch[b]))

ValidHistory(b) ==
    LET txs == TxsIn(Branch[b]) IN
    /\ Branch[b] \cap Invalid = {}
    /\ SpentBy(txs) \subseteq txs
    /\ \A t, u \in txs : t # u => Inputs[t] \cap Inputs[u] = {}

Init == tip = Genesis /\ coins = CoinsOf(Genesis)

Adopt(b) ==
    /\ ChainTrust[b] > ChainTrust[tip]
    /\ ValidHistory(b)
    /\ tip' = b
    /\ coins' = CoinsOf(b)

Next == \E b \in Block : Adopt(b)
Spec == Init /\ [][Next]_<<tip, coins>>
=============================================================================
