---------------------------- MODULE MCOrderFlow -----------------------------
(* Small instances of OrderFlow for TLC. *)
EXTENDS OrderFlow, TLC

CONSTANTS InitialStock, EditedStock

MCInitialVariant ==
    [v \in Variants |-> [stock |-> InitialStock, reserved |-> 0, active |-> TRUE]]

(* The seller enters a new count, sets units aside, or takes the variant off sale. *)
MCEditedRows ==
    {[stock |-> EditedStock, reserved |-> 0, active |-> TRUE],
     [stock |-> EditedStock, reserved |-> EditedStock, active |-> FALSE]}

MCNoEdits == {}

Symmetry == Permutations(Users) \cup Permutations(Sessions)
=============================================================================
