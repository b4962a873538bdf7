----------------------------- MODULE MCNetNode -----------------------------
EXTENDS NetNode, TLC

\* Nodes and threads are told apart by what they do only.
NodeSymmetry == Permutations(Nodes) \union Permutations(Openers)
=============================================================================
