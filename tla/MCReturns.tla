------------------------------ MODULE MCReturns ------------------------------
(* A small instance of Returns for TLC: two orders of one variant, two units  *)
(* in the one and a single unit in the other.                                 *)
EXTENDS Returns, TLC

CONSTANTS o1, o2, i1, i2

MCOrderOf == i1 :> o1 @@ i2 :> o2
MCVariantOf == [i \in Items |-> CHOOSE v \in Variants : TRUE]
MCBought == i1 :> 2 @@ i2 :> 1
MCInitialStock == [v \in Variants |-> 1]

Symmetry == Permutations(Sessions) \cup Permutations(Files)
=============================================================================
