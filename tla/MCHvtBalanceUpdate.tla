------------------------- MODULE MCHvtBalanceUpdate --------------------------
(***************************************************************************)
(* Instances of HvtBalanceUpdate for TLC.                                  *)
(***************************************************************************)
EXTENDS HvtBalanceUpdate, TLC

MCOpening == [p \in Partition |-> 0]
\* Transactions and workers are interchangeable.
MCSymmetry == Permutations(Trx) \union Permutations(Worker)
=============================================================================
