------------------------------- MODULE Outbox -------------------------------
(***************************************************************************)
(* The transactional outbox: events with one delivery per consumer,        *)
(* workers that claim batches of due events, dispatch the deliveries to    *)
(* consumers outside of any transaction, and acknowledge them.             *)
(*                                                                         *)
(* event and delivery are the committed rows.  Every statement that        *)
(* changes them locks the row of the event, so each transaction is one     *)
(* action.  batch and work live in the memory of a worker and are lost in  *)
(* a crash.  A claim token is a fresh UUID: any token that no row and no   *)
(* worker remembers is as good as one never used before.                   *)
(***************************************************************************)
EXTENDS Integers, FiniteSets

CONSTANTS
    Events,
    Consumers,          \* "seller" and "customer" in the code
    ConsumersOf,        \* the consumers each event is enqueued for
    Workers,
    Tokens,             \* claim tokens
    NoToken,            \* the claim_token column is NULL
    NoEvent,            \* the event of a worker that has none in work
    MaxAttempts,        \* outbox_max_attempts
    BatchSize,          \* outbox_batch_size
    MaxRetries,         \* bound: manual retries by an administrator
    MaxCrashes,         \* bound: workers that die or lose the database
    MaxWaits,           \* bound: leases that run out before the worker starts
    MaxStalls           \* bound: heartbeats that come late or fail

ASSUME ConsumersOfAssumption ==
    ConsumersOf \in [Events -> (SUBSET Consumers) \ {{}}]
ASSUME NoTokenAssumption == NoToken \notin Tokens
ASSUME NoEventAssumption == NoEvent \notin Events
ASSUME NumbersAssumption ==
    /\ MaxAttempts \in Nat \ {0}
    /\ BatchSize \in Nat \ {0}
    /\ MaxRetries \in Nat
    /\ MaxCrashes \in Nat
    /\ MaxWaits \in Nat
    /\ MaxStalls \in Nat

VARIABLES
    event,       \* row of each event
    delivery,    \* row of each delivery, by event and consumer
    batch,       \* claims a worker has made and not started on
    work,        \* the claim a worker is processing
    sent,        \* history: deliveries that reached the consumer
    retries,     \* how often each thing happened that a bound limits
    crashes,
    waits,
    stalls

limits == <<retries, crashes, waits, stalls>>
vars == <<event, delivery, batch, work, sent, limits>>

-----------------------------------------------------------------------------
EventStatuses == {"ABSENT", "PENDING", "PROCESSING", "PROCESSED", "FAILED"}
EventRow == [status : EventStatuses,
             token : Tokens \cup {NoToken},
             due : BOOLEAN,        \* next_attempt_at <= now
             stale : BOOLEAN]      \* locked_at < now - outbox_lock_timeout

DeliveryStatuses == {"ABSENT", "PENDING", "PROCESSED", "FAILED"}
DeliveryRow == [status : DeliveryStatuses,
                attempts : Nat,
                last : Tokens \cup {NoToken}]     \* last_claim_token

Claim == [event : Events, token : Tokens, todo : SUBSET Consumers]

Result == [to : Consumers, ok : BOOLEAN]
Work == [active : BOOLEAN,
         event : Events \cup {NoEvent},
         token : Tokens \cup {NoToken},
         todo : SUBSET Consumers,   \* pending consumers not dispatched yet
         result : SUBSET Result,    \* of the dispatch not yet acknowledged
         lost : BOOLEAN]            \* ownership_lost is set
NoWork == [active |-> FALSE, event |-> NoEvent, token |-> NoToken,
           todo |-> {}, result |-> {}, lost |-> FALSE]

Active(w) == work[w].active

(* Mutant: any worker may report about an event that is PROCESSING. *)
OwnedByAnyone(e, t) == event[e].status = "PROCESSING"

(***************************************************************************)
(* get_owned_with_deliveries and renew_claim: the row is PROCESSING under  *)
(* the token of the claim.                                                 *)
(***************************************************************************)
Owned(e, t) == event[e].status = "PROCESSING" /\ event[e].token = t

TypeOK ==
    /\ event \in [Events -> EventRow]
    /\ delivery \in [Events -> [Consumers -> DeliveryRow]]
    /\ batch \in [Workers -> SUBSET Claim]
    /\ work \in [Workers -> Work]
    /\ \A w \in Workers : Active(w) => /\ work[w].event \in Events
                                      /\ work[w].token \in Tokens
    /\ sent \in [Events -> SUBSET Consumers]
    /\ retries \in 0 .. MaxRetries
    /\ crashes \in 0 .. MaxCrashes
    /\ waits \in 0 .. MaxWaits
    /\ stalls \in 0 .. MaxStalls

AbsentEvent == [status |-> "ABSENT", token |-> NoToken, due |-> FALSE, stale |-> FALSE]
AbsentDelivery == [status |-> "ABSENT", attempts |-> 0, last |-> NoToken]

Init ==
    /\ event = [e \in Events |-> AbsentEvent]
    /\ delivery = [e \in Events |-> [c \in Consumers |-> AbsentDelivery]]
    /\ batch = [w \in Workers |-> {}]
    /\ work = [w \in Workers |-> NoWork]
    /\ sent = [e \in Events |-> {}]
    /\ retries = 0
    /\ crashes = 0
    /\ waits = 0
    /\ stalls = 0

-----------------------------------------------------------------------------
(***************************************************************************)
(* The transaction of an order or a payment commits, and its event with it.*)
(***************************************************************************)
Enqueue(e) ==
    /\ event[e].status = "ABSENT"
    /\ event' = [event EXCEPT ![e] = [status |-> "PENDING", token |-> NoToken,
                                      due |-> TRUE, stale |-> FALSE]]
    /\ delivery' = [delivery EXCEPT ![e] =
                      [c \in Consumers |->
                         IF c \in ConsumersOf[e]
                         THEN [status |-> "PENDING", attempts |-> 0, last |-> NoToken]
                         ELSE AbsentDelivery]]
    /\ UNCHANGED <<batch, work, sent, limits>>

-----------------------------------------------------------------------------
(***************************************************************************)
(* claim_due.  FOR UPDATE SKIP LOCKED passes over rows that another        *)
(* transaction holds, so the batch is any set of the claimable events.     *)
(***************************************************************************)
PendingConsumers(e) == {c \in Consumers : delivery[e][c].status = "PENDING"}

(* Mutant: claims that ran out are not taken over. *)
OnlyPendingClaimable(e) == event[e].status = "PENDING" /\ event[e].due

Claimable(e) ==
    \/ event[e].status = "PENDING" /\ event[e].due
    \/ event[e].status = "PROCESSING" /\ event[e].stale

TokensInUse ==
    {event[e].token : e \in Events}
      \cup {delivery[e][c].last : e \in Events, c \in Consumers}
      \cup (UNION {{k.token : k \in batch[w]} : w \in Workers})
      \cup {work[w].token : w \in {x \in Workers : Active(x)}}

(* Mutant: an event that is taken over keeps its token. *)
KeptTokens(es) ==
    {f \in [es -> Tokens] :
        \A e \in es : IF event[e].token = NoToken
                      THEN f[e] \notin TokensInUse ELSE f[e] = event[e].token}

(***************************************************************************)
(* Fresh tokens, a different one for each event of the set.                *)
(***************************************************************************)
FreshTokens(es) ==
    {f \in [es -> Tokens \ TokensInUse] :
        \A d, e \in es : f[d] = f[e] => d = e}

ClaimDue(w, es) ==
    /\ batch[w] = {}
    /\ ~Active(w)
    /\ es # {}
    /\ Cardinality(es) <= BatchSize
    /\ \A e \in es : Claimable(e)
    /\ FreshTokens(es) # {}
    /\ LET token == CHOOSE f \in FreshTokens(es) : TRUE
       IN  /\ event' = [e \in Events |->
                          IF e \in es
                          THEN [event[e] EXCEPT !.status = "PROCESSING",
                                                !.token = token[e],
                                                !.stale = FALSE]
                          ELSE event[e]]
           /\ batch' = [batch EXCEPT ![w] =
                          {[event |-> e, token |-> token[e], todo |-> PendingConsumers(e)] :
                             e \in es}]
    /\ UNCHANGED <<delivery, work, sent, limits>>

-----------------------------------------------------------------------------
(* Mutant: the worker forgets the token of its claim. *)
StartClaimTokenless(w, k) ==
    /\ ~Active(w)
    /\ k \in batch[w]
    /\ batch' = [batch EXCEPT ![w] = @ \ {k}]
    /\ work' = [work EXCEPT ![w] =
                   [active |-> TRUE, event |-> k.event, token |-> NoToken,
                    todo |-> k.todo, result |-> {}, lost |-> FALSE]]
    /\ UNCHANGED <<event, delivery, sent, limits>>

(***************************************************************************)
(* _process_claimed_event.  The worker takes the claims of its batch one   *)
(* after the other.  The heartbeat of a claim runs from here on, not       *)
(* before.                                                                 *)
(***************************************************************************)
StartClaim(w, k) ==
    /\ ~Active(w)
    /\ k \in batch[w]
    /\ batch' = [batch EXCEPT ![w] = @ \ {k}]
    /\ work' = [work EXCEPT ![w] =
                   [active |-> TRUE, event |-> k.event, token |-> k.token,
                    todo |-> k.todo, result |-> {}, lost |-> FALSE]]
    /\ UNCHANGED <<event, delivery, sent, limits>>

(***************************************************************************)
(* dispatch_outbox_delivery calls the consumer, outside of any claim       *)
(* transaction.  A call that raises may have reached the consumer.         *)
(***************************************************************************)
Dispatch(w, c, ok, reached) ==
    /\ Active(w)
    /\ work[w].result = {}
    /\ ~work[w].lost
    /\ c \in work[w].todo
    /\ ok => reached
    /\ work' = [work EXCEPT ![w].todo = @ \ {c},
                            ![w].result = {[to |-> c, ok |-> ok]}]
    /\ sent' = [sent EXCEPT ![work[w].event] = IF reached THEN @ \cup {c} ELSE @]
    /\ UNCHANGED <<event, delivery, batch, limits>>

(***************************************************************************)
(* mark_delivery_processed and mark_delivery_failed on a row that the      *)
(* claim still owns.  A delivery already processed, or already counted for *)
(* this claim, stays as it is.  The worker looks at ownership_lost before  *)
(* it calls them, and the flag may be set after that look.                 *)
(***************************************************************************)
Acknowledged(row, token, ok) ==
    IF row.status = "PROCESSED" \/ row.last = token THEN row
    ELSE IF ok
    THEN [row EXCEPT !.status = "PROCESSED", !.last = token]
    ELSE [status   |-> IF row.attempts + 1 >= MaxAttempts THEN "FAILED" ELSE row.status,
          attempts |-> row.attempts + 1,
          last     |-> token]

Acknowledge(w, r) ==
    LET e == work[w].event
        t == work[w].token
    IN  /\ Active(w)
        /\ \/ /\ Owned(e, t)
              /\ delivery' = [delivery EXCEPT ![e][r.to] = Acknowledged(@, t, r.ok)]
              /\ work' = [work EXCEPT ![w].result = {}]
           \/ /\ ~Owned(e, t)
              /\ work' = [work EXCEPT ![w].result = {}, ![w].lost = TRUE]
              /\ UNCHANGED delivery
        /\ UNCHANGED <<event, batch, sent, limits>>

(***************************************************************************)
(* The loop over the consumers is over, or broken off because ownership is *)
(* lost.  Without ownership the worker drops the claim as it is, the       *)
(* result of its last dispatch included.                                   *)
(***************************************************************************)
Abandon(w) ==
    /\ Active(w)
    /\ work[w].lost
    /\ work' = [work EXCEPT ![w] = NoWork]
    /\ UNCHANGED <<event, delivery, batch, sent, limits>>

(* Mutants: a failed delivery is forgotten; a pending one is forgotten. *)
FinalStatusWithoutFailed(e) ==
    IF \E c \in Consumers : delivery[e][c].status = "PENDING" THEN "PENDING" ELSE "PROCESSED"

FinalStatusWithoutPending(e) ==
    IF \E c \in Consumers : delivery[e][c].status = "FAILED" THEN "FAILED" ELSE "PROCESSED"

(***************************************************************************)
(* finish_attempt and _finalize_event.  A retry is due after its backoff.  *)
(***************************************************************************)
FinalStatus(e) ==
    IF \E c \in Consumers : delivery[e][c].status = "PENDING" THEN "PENDING"
    ELSE IF \E c \in Consumers : delivery[e][c].status = "FAILED" THEN "FAILED"
    ELSE "PROCESSED"

FinishAttempt(w) ==
    LET e == work[w].event
    IN  /\ Active(w)
        /\ ~work[w].lost
        /\ work[w].todo = {}
        /\ work[w].result = {}
        /\ IF Owned(e, work[w].token)
           THEN event' = [event EXCEPT ![e] = [status |-> FinalStatus(e), token |-> NoToken,
                                               due |-> FinalStatus(e) # "PENDING",
                                               stale |-> FALSE]]
           ELSE UNCHANGED event
        /\ work' = [work EXCEPT ![w] = NoWork]
        /\ UNCHANGED <<delivery, batch, sent, limits>>

-----------------------------------------------------------------------------
(***************************************************************************)
(* The heartbeat of the claim in work renews its lease every third of the  *)
(* lock timeout, or learns that the claim has been taken over.             *)
(***************************************************************************)
Heartbeat(w) ==
    LET e == work[w].event
    IN  /\ Active(w)
        /\ ~work[w].lost
        /\ \/ /\ Owned(e, work[w].token)
              /\ event[e].stale
              /\ event' = [event EXCEPT ![e].stale = FALSE]
              /\ UNCHANGED work
           \/ /\ ~Owned(e, work[w].token)
              /\ work' = [work EXCEPT ![w].lost = TRUE]
              /\ UNCHANGED event
        /\ UNCHANGED <<delivery, batch, sent, limits>>

(***************************************************************************)
(* The renewal raises: the worker gives the claim up although it may still *)
(* own it.                                                                 *)
(***************************************************************************)
HeartbeatFails(w) ==
    /\ Active(w)
    /\ ~work[w].lost
    /\ stalls < MaxStalls
    /\ stalls' = stalls + 1
    /\ work' = [work EXCEPT ![w].lost = TRUE]
    /\ UNCHANGED <<event, delivery, batch, sent, retries, crashes, waits>>

(***************************************************************************)
(* Time passes.  A lease runs out when nobody renews it: the claim is      *)
(* abandoned, or it waits in the batch of a worker that has not started on *)
(* it, or its heartbeat comes late.                                        *)
(***************************************************************************)
Attended(e) ==
    \E w \in Workers : /\ Active(w)
                       /\ ~work[w].lost
                       /\ work[w].event = e
                       /\ work[w].token = event[e].token

InBatch(e) ==
    \E w \in Workers : \E k \in batch[w] : k.event = e /\ k.token = event[e].token

Abandoned(e) == ~Attended(e) /\ ~InBatch(e)

LeaseExpires(e) ==
    /\ event[e].status = "PROCESSING"
    /\ ~event[e].stale
    /\ event' = [event EXCEPT ![e].stale = TRUE]
    /\ \/ Abandoned(e) /\ UNCHANGED <<waits, stalls>>
       \/ InBatch(e) /\ waits < MaxWaits /\ waits' = waits + 1 /\ UNCHANGED stalls
       \/ Attended(e) /\ stalls < MaxStalls /\ stalls' = stalls + 1 /\ UNCHANGED waits
    /\ UNCHANGED <<delivery, batch, work, sent, retries, crashes>>

BackoffEnds(e) ==
    /\ event[e].status = "PENDING"
    /\ ~event[e].due
    /\ event' = [event EXCEPT ![e].due = TRUE]
    /\ UNCHANGED <<delivery, batch, work, sent, limits>>

(***************************************************************************)
(* A worker dies, is cancelled, or meets a database error that ends its    *)
(* cycle; whatever it had in memory is gone.  It then starts again.        *)
(***************************************************************************)
Crash(w) ==
    /\ Active(w) \/ batch[w] # {}
    /\ crashes < MaxCrashes
    /\ crashes' = crashes + 1
    /\ batch' = [batch EXCEPT ![w] = {}]
    /\ work' = [work EXCEPT ![w] = NoWork]
    /\ UNCHANGED <<event, delivery, sent, retries, waits, stalls>>

(***************************************************************************)
(* An administrator retries a failed event.                                *)
(***************************************************************************)
RetryFailed(e) ==
    /\ event[e].status = "FAILED"
    /\ retries < MaxRetries
    /\ retries' = retries + 1
    /\ delivery' = [delivery EXCEPT ![e] =
                      [c \in Consumers |->
                         IF delivery[e][c].status = "FAILED"
                         THEN [delivery[e][c] EXCEPT !.status = "PENDING", !.attempts = 0]
                         ELSE delivery[e][c]]]
    /\ event' = [event EXCEPT ![e] = [status |-> "PENDING", token |-> NoToken,
                                      due |-> TRUE, stale |-> FALSE]]
    /\ UNCHANGED <<batch, work, sent, crashes, waits, stalls>>

-----------------------------------------------------------------------------
WorkerStep(w) ==
    \/ \E k \in batch[w] : StartClaim(w, k)
    \/ \E c \in Consumers, ok, reached \in BOOLEAN : Dispatch(w, c, ok, reached)
    \/ \E r \in work[w].result : Acknowledge(w, r)
    \/ Abandon(w)
    \/ FinishAttempt(w)

Next ==
    \/ \E e \in Events : \/ Enqueue(e)
                        \/ RetryFailed(e)
                        \/ LeaseExpires(e)
                        \/ BackoffEnds(e)
    \/ \E w \in Workers : \/ \E es \in SUBSET Events : ClaimDue(w, es)
                         \/ WorkerStep(w)
                         \/ Heartbeat(w)
                         \/ HeartbeatFails(w)
                         \/ Crash(w)

Spec == Init /\ [][Next]_vars

(***************************************************************************)
(* Fairness.  Workers poll for ever and go through their batches; the      *)
(* oldest due event comes first, so a due event does not stay behind for   *)
(* ever; time passes.  Heartbeats need not come: it is enough that a lost  *)
(* claim runs out.                                                         *)
(***************************************************************************)
Fairness ==
    /\ \A w \in Workers : WF_vars(WorkerStep(w))
    /\ \A e \in Events :
          /\ SF_vars(\E w \in Workers, es \in SUBSET Events : e \in es /\ ClaimDue(w, es))
          /\ WF_vars(BackoffEnds(e))
          /\ WF_vars(Abandoned(e) /\ LeaseExpires(e))

FairSpec == Spec /\ Fairness

-----------------------------------------------------------------------------
(***************************************************************************)
(* Safety                                                                  *)
(***************************************************************************)
Waiting(e, c) == delivery[e][c].status = "PENDING"

(***************************************************************************)
(* While a worker owns its claim, everything that the claim still has to   *)
(* dispatch or to acknowledge is pending and has not been counted for this *)
(* claim: nobody else decides about a delivery under a valid claim.  The   *)
(* worker relies on it, for it never reads the delivery rows again.        *)
(***************************************************************************)
Undecided(e, t, cs) ==
    \A c \in cs : Waiting(e, c) /\ delivery[e][c].last # t

OwnedBatchIsCurrent ==
    \A w \in Workers : \A k \in batch[w] :
       Owned(k.event, k.token) => Undecided(k.event, k.token, k.todo)

OwnedWorkIsCurrent ==
    \A w \in Workers :
       Active(w) /\ Owned(work[w].event, work[w].token) =>
          /\ Undecided(work[w].event, work[w].token, work[w].todo)
          /\ \A r \in work[w].result : Undecided(work[w].event, work[w].token, {r.to})

OwnedClaimsAreCurrent == OwnedBatchIsCurrent /\ OwnedWorkIsCurrent

(***************************************************************************)
(* An event is closed only over settled deliveries: PROCESSED when all of  *)
(* them succeeded, FAILED when none is pending and at least one failed,    *)
(* however late the acknowledgements and retries of other workers come.    *)
(***************************************************************************)
EventMatchesDeliveries ==
    \A e \in Events :
       /\ event[e].status = "PROCESSED" =>
             \A c \in ConsumersOf[e] : delivery[e][c].status = "PROCESSED"
       /\ event[e].status = "FAILED" =>
             /\ \A c \in ConsumersOf[e] : ~Waiting(e, c)
             /\ \E c \in ConsumersOf[e] : delivery[e][c].status = "FAILED"

(***************************************************************************)
(* Failures are counted one by one: for a delivery that is pending, under  *)
(* the claim that holds the event at that moment and once for that claim,  *)
(* whatever the other consumers of the event and workers that lost their   *)
(* claims report meanwhile.  A delivery is given up with the failure that  *)
(* is the MaxAttempts-th, and not before; only a retry by hand starts the  *)
(* count again.                                                            *)
(***************************************************************************)
CountsFailure(e, c) ==
    LET old == delivery[e][c]
    IN  /\ event[e].status = "PROCESSING"
        /\ old.status = "PENDING"
        /\ old.last # event[e].token
        /\ delivery'[e][c] =
             [status   |-> IF old.attempts + 1 = MaxAttempts THEN "FAILED" ELSE "PENDING",
              attempts |-> old.attempts + 1,
              last     |-> event[e].token]
        /\ \A d \in Consumers \ {c} : delivery'[e][d] = delivery[e][d]

StartsCountAgain(e, c) ==
    /\ event[e].status = "FAILED"
    /\ delivery[e][c].status = "FAILED"
    /\ delivery'[e][c] = [delivery[e][c] EXCEPT !.status = "PENDING", !.attempts = 0]

FailuresCountOnce ==
    [][\A e \in Events, c \in Consumers :
         LET old == delivery[e][c]
             new == delivery'[e][c]
         IN  /\ \/ new.attempts # old.attempts
                \/ new.status = "FAILED" /\ old.status # "FAILED"
                => CountsFailure(e, c) \/ StartsCountAgain(e, c)
             /\ new.last # old.last => new.last = event[e].token]_vars

(***************************************************************************)
(* What docs/engineering/OUTBOX_ARCHITECTURE.md says of recovery: it is    *)
(* the abandoned claims that are taken over.  A claim that waits in the    *)
(* batch of a worker at work on an earlier claim has not been abandoned.   *)
(***************************************************************************)
OnlyAbandonedClaimsRecover ==
    [][\A w \in Workers : \A k \in batch[w] \cap batch'[w] :
         Active(w) /\ ~work[w].lost /\ Owned(k.event, k.token) =>
            event'[k.event].token = k.token]_vars

(***************************************************************************)
(* Refinement: the outbox keeps the promise of DeliveryPromise.            *)
(***************************************************************************)
Outcome(status) ==
    CASE status = "ABSENT"                    -> "none"
      [] status \in {"PENDING", "PROCESSING"} -> "open"
      [] status = "PROCESSED"                 -> "kept"
      [] status = "FAILED"                    -> "broken"

PromiseOf(status) ==
    CASE status = "ABSENT"    -> "none"
      [] status = "PENDING"   -> "owed"
      [] status = "PROCESSED" -> "kept"
      [] status = "FAILED"    -> "given up"

Promise == INSTANCE DeliveryPromise WITH
    outcome <- [e \in Events |-> Outcome(event[e].status)],
    promise <- [e \in Events |-> [c \in Consumers |-> PromiseOf(delivery[e][c].status)]],
    told    <- sent

KeepsPromise == Promise!Spec

-----------------------------------------------------------------------------
(***************************************************************************)
(* Liveness: every event is delivered to all its consumers or marked as    *)
(* failed, even if workers die between dispatch and acknowledgement, leases*)
(* run out and heartbeats fail now and then.                               *)
(***************************************************************************)
EventsSettle ==
    \A e \in Events : event[e].status = "PENDING"
                       ~> event[e].status \in {"PROCESSED", "FAILED"}
=============================================================================
