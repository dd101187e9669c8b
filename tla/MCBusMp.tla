------------------------------ MODULE MCBusMp ------------------------------
(* Instances of BusMp for model checking.                                  *)
EXTENDS BusMp, TLC

ProducerSymmetry == Permutations(Producers)
=============================================================================
