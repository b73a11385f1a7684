--------------------------- MODULE MCWalletQueue ----------------------------
(***************************************************************************)
(* Instances of WalletQueue for TLC: every request is on one partition.    *)
(***************************************************************************)
EXTENDS WalletQueue, TLC

CONSTANTS r1, r2, p1

OneRoute   == [r \in Request |-> p1]
MCSymmetry == Permutations(Worker)
=============================================================================
