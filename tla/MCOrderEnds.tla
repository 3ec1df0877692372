----------------------------- MODULE MCOrderEnds -----------------------------
(***************************************************************************)
(* What must end on the purchase path, in two situations with the same     *)
(* users, variants and sessions.                                           *)
(***************************************************************************)
EXTENDS OrderFlow, TLC

CONSTANT InitialStock

MCInitialVariant ==
    [v \in Variants |-> [stock |-> InitialStock, reserved |-> 0, active |-> TRUE]]

FirstUser == CHOOSE u \in Users : TRUE
FirstVariant == CHOOSE v \in Variants : TRUE

(***************************************************************************)
(* One customer buys one variant twice, the seller cancels, and            *)
(* transactions are lost.                                                  *)
(***************************************************************************)
PaymentsInit ==
    /\ cart = [u \in Users |-> {}]
    /\ variant = [v \in Variants |-> [InitialVariant[v] EXCEPT !.active = (v = FirstVariant)]]
    /\ orderSeq = 0
    /\ added = [u \in Users |-> IF u = FirstUser THEN 0 ELSE MaxAdded]
    /\ aborts = 0

(***************************************************************************)
(* Two customers have both variants in their carts, with one order number  *)
(* left.                                                                   *)
(***************************************************************************)
RequestsInit ==
    /\ cart = [u \in Users |-> {[group |-> Normal, variant |-> v, qty |-> 1, selected |-> TRUE] :
                                 v \in Variants}]
    /\ variant = InitialVariant
    /\ orderSeq = MaxOrderNumber - 1
    /\ added = [u \in Users |-> MaxAdded]
    /\ aborts = MaxAborts

OrderEndsInit ==
    /\ PaymentsInit \/ RequestsInit
    /\ order = [o \in Orders |-> AbsentOrder]
    /\ payment = [o \in Orders |-> AbsentPayment]
    /\ lock = [r \in Rows |-> Nobody]
    /\ tx = [s \in Sessions |-> IdleTx]
    /\ worklist = {}
    /\ edits = 0

OrderEndsSpec == OrderEndsInit /\ [][Next]_vars /\ WorkerFairness /\ RequestFairness
=============================================================================
