------------------------------ MODULE MCOutbox ------------------------------
(* Small instances of Outbox for TLC. *)
EXTENDS Outbox, TLC

MCConsumersOf == [e \in Events |-> Consumers]

Symmetry ==
    Permutations(Events) \cup Permutations(Consumers) \cup
    Permutations(Workers) \cup Permutations(Tokens)
=============================================================================
