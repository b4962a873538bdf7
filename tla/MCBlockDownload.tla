-------------------------- MODULE MCBlockDownload --------------------------
(* Small instances of BlockDownload for TLC.                                 *)
EXTENDS BlockDownload, FiniteSets, TLC

\* The peers of one class may be exchanged.
PeerSymmetry ==
    Permutations(Shared \ (Kept \cup LocalPeer)) \cup Permutations(Block)
=============================================================================
