--------------------------- MODULE DeliveryPromise ---------------------------
(***************************************************************************)
(* What the outbox promises about each event it accepted, without workers, *)
(* claims or leases: every consumer of the event is owed the event until   *)
(* the consumer was told and the promise is kept, or until it is given up. *)
(* A consumer may be told more than once.  An event is closed only when    *)
(* nobody is owed it any more, and a closed event that succeeded stays     *)
(* closed; one that failed may be reopened for the consumers that failed.  *)
(***************************************************************************)
CONSTANTS
    Events,
    Consumers,
    ConsumersOf      \* the consumers that each event is for

VARIABLES
    outcome,         \* what became of each event
    promise,         \* what became of each event for each consumer
    told             \* consumers that each event has reached

vars == <<outcome, promise, told>>

Init ==
    /\ outcome = [e \in Events |-> "none"]
    /\ promise = [e \in Events |-> [c \in Consumers |-> "none"]]
    /\ told = [e \in Events |-> {}]

Accept(e) ==
    /\ outcome[e] = "none"
    /\ outcome' = [outcome EXCEPT ![e] = "open"]
    /\ promise' = [promise EXCEPT ![e] =
                     [c \in Consumers |->
                        IF c \in ConsumersOf[e] THEN "owed" ELSE "none"]]
    /\ UNCHANGED told

Tell(e, c) ==
    /\ outcome[e] # "none"
    /\ c \in ConsumersOf[e]
    /\ told' = [told EXCEPT ![e] = @ \cup {c}]
    /\ UNCHANGED <<outcome, promise>>

Keep(e, c) ==
    /\ outcome[e] = "open"
    /\ promise[e][c] = "owed"
    /\ c \in told[e]
    /\ promise' = [promise EXCEPT ![e][c] = "kept"]
    /\ UNCHANGED <<outcome, told>>

GiveUp(e, c) ==
    /\ outcome[e] = "open"
    /\ promise[e][c] = "owed"
    /\ promise' = [promise EXCEPT ![e][c] = "given up"]
    /\ UNCHANGED <<outcome, told>>

Close(e) ==
    /\ outcome[e] = "open"
    /\ \A c \in ConsumersOf[e] : promise[e][c] # "owed"
    /\ outcome' = [outcome EXCEPT ![e] =
                     IF \A c \in ConsumersOf[e] : promise[e][c] = "kept"
                     THEN "kept" ELSE "broken"]
    /\ UNCHANGED <<promise, told>>

Reopen(e) ==
    /\ outcome[e] = "broken"
    /\ outcome' = [outcome EXCEPT ![e] = "open"]
    /\ promise' = [promise EXCEPT ![e] =
                     [c \in Consumers |->
                        IF promise[e][c] = "given up" THEN "owed" ELSE promise[e][c]]]
    /\ UNCHANGED told

Next ==
    \E e \in Events :
       \/ Accept(e)
       \/ Close(e)
       \/ Reopen(e)
       \/ \E c \in Consumers : Tell(e, c) \/ Keep(e, c) \/ GiveUp(e, c)

Spec == Init /\ [][Next]_vars
=============================================================================
