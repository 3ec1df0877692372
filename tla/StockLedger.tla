----------------------------- MODULE StockLedger ----------------------------
(***************************************************************************)
(* What the shop promises about stock, without carts, transactions, locks  *)
(* or timers: placing an order takes its units out of stock in one step,   *)
(* and only if they are there; the payment of the order then either        *)
(* confirms the sale or gives the units back, once.                        *)
(***************************************************************************)
EXTENDS Integers

CONSTANTS
    Variants,
    Orders,
    MaxUnits,      \* the most units of a variant that one order can have
    Counts         \* the counts a seller may enter

VARIABLES
    stock,         \* units of each variant on the shelf
    phase,         \* what became of each order
    units          \* units of each variant in each order

vars == <<stock, phase, units>>

Init ==
    /\ stock \in [Variants -> Nat]
    /\ phase = [o \in Orders |-> "none"]
    /\ units = [o \in Orders |-> [v \in Variants |-> 0]]

Place(o, taken) ==
    /\ phase[o] = "none"
    /\ \A v \in Variants : taken[v] <= stock[v]
    /\ stock' = [v \in Variants |-> stock[v] - taken[v]]
    /\ phase' = [phase EXCEPT ![o] = "held"]
    /\ units' = [units EXCEPT ![o] = taken]

Confirm(o) ==
    /\ phase[o] = "held"
    /\ phase' = [phase EXCEPT ![o] = "sold"]
    /\ UNCHANGED <<stock, units>>

GiveBack(o) ==
    /\ phase[o] = "held"
    /\ phase' = [phase EXCEPT ![o] = "returned"]
    /\ stock' = [v \in Variants |-> stock[v] + units[o][v]]
    /\ UNCHANGED units

Recount(v, n) ==
    /\ stock' = [stock EXCEPT ![v] = n]
    /\ UNCHANGED <<phase, units>>

Next ==
    \/ \E o \in Orders :
          \/ \E taken \in [Variants -> 0 .. MaxUnits] : Place(o, taken)
          \/ Confirm(o)
          \/ GiveBack(o)
    \/ \E v \in Variants, n \in Counts : Recount(v, n)

Spec == Init /\ [][Next]_vars
=============================================================================
