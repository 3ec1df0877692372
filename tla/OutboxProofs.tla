---------------------------- MODULE OutboxProofs -----------------------------
(***************************************************************************)
(* Proofs about Outbox, for any number of events, consumers, workers and   *)
(* tokens and for every value of the bounds.                               *)
(***************************************************************************)
EXTENDS Outbox, TLAPS

-----------------------------------------------------------------------------
(***************************************************************************)
(* The updates that the actions make keep the types of the rows and of the *)
(* workers' memory.                                                        *)
(***************************************************************************)
LEMMA EventUpdates ==
    ASSUME NEW r \in EventRow
    PROVE  /\ \A t \in Tokens :
                [r EXCEPT !.status = "PROCESSING", !.token = t, !.stale = FALSE] \in EventRow
           /\ \A b \in BOOLEAN : [r EXCEPT !.stale = b] \in EventRow
           /\ [r EXCEPT !.due = TRUE] \in EventRow
  BY DEF EventRow, EventStatuses

LEMMA DeliveryUpdates ==
    ASSUME NEW r \in DeliveryRow
    PROVE  /\ [r EXCEPT !.status = "PENDING", !.attempts = 0] \in DeliveryRow
           /\ \A t \in Tokens, ok \in BOOLEAN : Acknowledged(r, t, ok) \in DeliveryRow
<1>1. 0 \in Nat /\ r.attempts + 1 \in Nat
  BY DEF DeliveryRow
<1>2. QED
  BY <1>1 DEF DeliveryRow, DeliveryStatuses, Acknowledged

LEMMA WorkUpdates ==
    ASSUME NEW r \in Work
    PROVE  /\ [r EXCEPT !.lost = TRUE] \in Work
           /\ [r EXCEPT !.result = {}] \in Work
           /\ [r EXCEPT !.result = {}, !.lost = TRUE] \in Work
           /\ \A c \in Consumers, ok \in BOOLEAN :
                [r EXCEPT !.todo = @ \ {c}, !.result = {[to |-> c, ok |-> ok]}] \in Work
<1>1. [r EXCEPT !.lost = TRUE] \in Work
  BY DEF Work
<1>2. [r EXCEPT !.result = {}] \in Work
  BY DEF Work
<1>3. [r EXCEPT !.result = {}, !.lost = TRUE] \in Work
  BY DEF Work
<1>4. ASSUME NEW c \in Consumers, NEW ok \in BOOLEAN
      PROVE  [r EXCEPT !.todo = @ \ {c}, !.result = {[to |-> c, ok |-> ok]}] \in Work
  <2>1. {[to |-> c, ok |-> ok]} \in SUBSET Result
    BY <1>4 DEF Result
  <2>2. r.todo \ {c} \in SUBSET Consumers
    BY DEF Work
  <2>3. QED
    BY <2>1, <2>2 DEF Work
<1>5. QED
  BY <1>1, <1>2, <1>3, <1>4

LEMMA NoWorkType == NoWork \in Work
  BY DEF NoWork, Work

(***************************************************************************)
(* Tokens.  When a batch is claimed, the chosen tokens are new and differ. *)
(***************************************************************************)
LEMMA FreshTokensChosen ==
    ASSUME NEW es \in SUBSET Events, FreshTokens(es) # {},
           NEW token, token = CHOOSE f \in FreshTokens(es) : TRUE
    PROVE  /\ \A e \in es : /\ token[e] \in Tokens
                            /\ token[e] \notin TokensInUse
           /\ \A d, e \in es : token[d] = token[e] => d = e
<1>1. token \in FreshTokens(es)
  OBVIOUS
<1>2. QED
  BY <1>1 DEF FreshTokens

-----------------------------------------------------------------------------
(***************************************************************************)
(* Type correctness.                                                       *)
(***************************************************************************)
LEMMA TypeInit == Init => TypeOK
  BY NumbersAssumption, NoTokenAssumption
     DEF Init, TypeOK, EventRow, EventStatuses, DeliveryRow, DeliveryStatuses,
         AbsentEvent, AbsentDelivery, Work, NoWork, Active

LEMMA TypeClaim ==
    ASSUME TypeOK, NEW w \in Workers, NEW es \in SUBSET Events, ClaimDue(w, es)
    PROVE  TypeOK'
<1> DEFINE token == CHOOSE f \in FreshTokens(es) : TRUE
<1>1. \A e \in es : token[e] \in Tokens
  BY FreshTokensChosen DEF ClaimDue
<1>2. \A e \in Events : PendingConsumers(e) \in SUBSET Consumers
  BY DEF PendingConsumers
<1>3. event' = [e \in Events |->
                  IF e \in es
                  THEN [event[e] EXCEPT !.status = "PROCESSING", !.token = token[e],
                                        !.stale = FALSE]
                  ELSE event[e]]
  BY DEF ClaimDue
<1>4. batch' = [batch EXCEPT ![w] =
                  {[event |-> e, token |-> token[e], todo |-> PendingConsumers(e)] : e \in es}]
  BY DEF ClaimDue
<1> HIDE DEF token
<1>5. event' \in [Events -> EventRow]
  BY <1>1, <1>3, EventUpdates DEF TypeOK
<1>6. {[event |-> e, token |-> token[e], todo |-> PendingConsumers(e)] : e \in es}
        \in SUBSET Claim
  BY <1>1, <1>2 DEF Claim
<1>7. batch' \in [Workers -> SUBSET Claim]
  BY <1>4, <1>6 DEF TypeOK
<1>8. QED
  BY <1>5, <1>7 DEF TypeOK, ClaimDue, limits, Active

LEMMA TypeStep ==
    ASSUME TypeOK, [Next]_vars
    PROVE  TypeOK'
<1>1. ASSUME NEW e \in Events, Enqueue(e)
      PROVE  TypeOK'
  <2>1. event' \in [Events -> EventRow]
    BY <1>1 DEF Enqueue, TypeOK, EventRow, EventStatuses
  <2>2. delivery' \in [Events -> [Consumers -> DeliveryRow]]
    BY <1>1 DEF Enqueue, TypeOK, DeliveryRow, DeliveryStatuses, AbsentDelivery
  <2>3. QED
    BY <1>1, <2>1, <2>2 DEF Enqueue, TypeOK, Active, limits
<1>2. ASSUME NEW e \in Events, RetryFailed(e)
      PROVE  TypeOK'
  <2>1. event' \in [Events -> EventRow]
    BY <1>2 DEF RetryFailed, TypeOK, EventRow, EventStatuses
  <2>2. delivery' \in [Events -> [Consumers -> DeliveryRow]]
    BY <1>2, DeliveryUpdates DEF RetryFailed, TypeOK
  <2>3. retries' = retries + 1 /\ retries < MaxRetries
    BY <1>2 DEF RetryFailed
  <2>4. retries' \in 0 .. MaxRetries
    BY <2>3, NumbersAssumption DEF TypeOK
  <2>5. QED
    BY <1>2, <2>1, <2>2, <2>4 DEF RetryFailed, TypeOK, Active
<1>3. ASSUME NEW e \in Events, LeaseExpires(e)
      PROVE  TypeOK'
  <2>1. event' \in [Events -> EventRow]
    BY <1>3, EventUpdates DEF LeaseExpires, TypeOK
  <2>2. waits' \in 0 .. MaxWaits /\ stalls' \in 0 .. MaxStalls
    BY <1>3, NumbersAssumption DEF LeaseExpires, TypeOK
  <2>3. QED
    BY <1>3, <2>1, <2>2 DEF LeaseExpires, TypeOK, Active
<1>4. ASSUME NEW e \in Events, BackoffEnds(e)
      PROVE  TypeOK'
  BY <1>4, EventUpdates DEF BackoffEnds, TypeOK, Active, limits
<1>5. ASSUME NEW w \in Workers, NEW k \in batch[w], StartClaim(w, k)
      PROVE  TypeOK'
  BY <1>5 DEF StartClaim, TypeOK, Active, Claim, Work, Result, limits
<1>6. ASSUME NEW w \in Workers, NEW c \in Consumers, NEW ok \in BOOLEAN,
             NEW reached \in BOOLEAN, Dispatch(w, c, ok, reached)
      PROVE  TypeOK'
  <2>1. work' = [work EXCEPT ![w] =
                   [work[w] EXCEPT !.todo = @ \ {c}, !.result = {[to |-> c, ok |-> ok]}]]
    BY <1>6 DEF Dispatch, TypeOK, Work
  <2>2. work' \in [Workers -> Work]
    BY <2>1, <1>6, WorkUpdates DEF TypeOK
  <2>3. sent' \in [Events -> SUBSET Consumers]
    BY <1>6 DEF Dispatch, TypeOK
  <2>4. \A v \in Workers : /\ work'[v].active = work[v].active
                          /\ work'[v].event = work[v].event
                          /\ work'[v].token = work[v].token
    BY <2>1 DEF TypeOK, Work
  <2>5. QED
    BY <1>6, <2>2, <2>3, <2>4 DEF Dispatch, TypeOK, Active, limits
<1>7. ASSUME NEW w \in Workers, NEW r \in work[w].result, Acknowledge(w, r)
      PROVE  TypeOK'
  <2>1. \/ work' = [work EXCEPT ![w] = [work[w] EXCEPT !.result = {}]]
        \/ work' = [work EXCEPT ![w] = [work[w] EXCEPT !.result = {}, !.lost = TRUE]]
    BY <1>7 DEF Acknowledge, TypeOK, Work
  <2>2. work' \in [Workers -> Work]
    <3>1. work \in [Workers -> Work]
      BY DEF TypeOK
    <3>2. /\ [work[w] EXCEPT !.result = {}] \in Work
          /\ [work[w] EXCEPT !.result = {}, !.lost = TRUE] \in Work
      BY <3>1, WorkUpdates
    <3>3. QED
      BY <2>1, <3>1, <3>2
  <2>3. \A v \in Workers : /\ work'[v].active = work[v].active
                          /\ work'[v].event = work[v].event
                          /\ work'[v].token = work[v].token
    <3>1. work \in [Workers -> Work]
      BY DEF TypeOK
    <3>2. CASE work' = [work EXCEPT ![w] = [work[w] EXCEPT !.result = {}]]
      BY <3>1, <3>2 DEF Work
    <3>3. CASE work' = [work EXCEPT ![w] = [work[w] EXCEPT !.result = {}, !.lost = TRUE]]
      BY <3>1, <3>3 DEF Work
    <3>4. QED
      BY <2>1, <3>2, <3>3
  <2>4. r.to \in Consumers /\ r.ok \in BOOLEAN
    BY <1>7 DEF TypeOK, Work, Result
  <2>5. work[w].event \in Events /\ work[w].token \in Tokens
    BY <1>7 DEF Acknowledge, TypeOK
  <2>6. \/ UNCHANGED delivery
        \/ delivery' = [delivery EXCEPT ![work[w].event][r.to] =
                           Acknowledged(@, work[w].token, r.ok)]
    BY <1>7 DEF Acknowledge
  <2>7. delivery' \in [Events -> [Consumers -> DeliveryRow]]
    <3>1. delivery \in [Events -> [Consumers -> DeliveryRow]]
      BY DEF TypeOK
    <3>2. Acknowledged(delivery[work[w].event][r.to], work[w].token, r.ok) \in DeliveryRow
      BY <2>4, <2>5, <3>1, DeliveryUpdates
    <3>3. QED
      BY <2>4, <2>5, <2>6, <3>1, <3>2
  <2>8. QED
    BY <1>7, <2>2, <2>3, <2>7 DEF Acknowledge, TypeOK, Active, limits
<1>8. ASSUME NEW w \in Workers, Abandon(w)
      PROVE  TypeOK'
  BY <1>8, NoWorkType DEF Abandon, TypeOK, Active, NoWork, limits
<1>9. ASSUME NEW w \in Workers, FinishAttempt(w)
      PROVE  TypeOK'
  <2>1. \A e \in Events : FinalStatus(e) \in EventStatuses
    BY DEF FinalStatus, EventStatuses
  <2>2. event' \in [Events -> EventRow]
    <3>1. event \in [Events -> EventRow] /\ work[w].event \in Events
      BY <1>9 DEF FinishAttempt, TypeOK
    <3> DEFINE status == FinalStatus(work[w].event)
               settled == [status |-> status, token |-> NoToken, due |-> status # "PENDING",
                           stale |-> FALSE]
    <3>2. settled \in EventRow
      BY <2>1, <3>1 DEF EventRow
    <3>3. event' = event \/ event' = [event EXCEPT ![work[w].event] = settled]
      BY <1>9 DEF FinishAttempt
    <3> HIDE DEF settled
    <3>4. QED
      BY <3>1, <3>2, <3>3
  <2>3. QED
    BY <1>9, <2>2, NoWorkType DEF FinishAttempt, TypeOK, Active, NoWork, limits
<1>10. ASSUME NEW w \in Workers, Heartbeat(w)
      PROVE  TypeOK'
  <2>1. \/ UNCHANGED work
        \/ work' = [work EXCEPT ![w] = [work[w] EXCEPT !.lost = TRUE]]
    BY <1>10 DEF Heartbeat
  <2>2. work' \in [Workers -> Work]
    <3>1. work \in [Workers -> Work]
      BY DEF TypeOK
    <3>2. [work[w] EXCEPT !.lost = TRUE] \in Work
      BY <3>1, WorkUpdates
    <3>3. QED
      BY <2>1, <3>1, <3>2
  <2>3. \A v \in Workers : /\ work'[v].active = work[v].active
                          /\ work'[v].event = work[v].event
                          /\ work'[v].token = work[v].token
    BY <2>1 DEF TypeOK, Work
  <2>4. \/ UNCHANGED event
        \/ event' = [event EXCEPT ![work[w].event].stale = FALSE]
    BY <1>10 DEF Heartbeat
  <2>5. event' \in [Events -> EventRow]
    <3>1. event \in [Events -> EventRow] /\ work[w].event \in Events
      BY <1>10 DEF Heartbeat, TypeOK
    <3>2. [event[work[w].event] EXCEPT !.stale = FALSE] \in EventRow
      BY <3>1, EventUpdates
    <3>3. QED
      BY <2>4, <3>1, <3>2
  <2>6. QED
    BY <1>10, <2>2, <2>3, <2>5 DEF Heartbeat, TypeOK, Active, limits
<1>11. ASSUME NEW w \in Workers, HeartbeatFails(w)
      PROVE  TypeOK'
  <2>1. work' = [work EXCEPT ![w] = [work[w] EXCEPT !.lost = TRUE]]
    BY <1>11 DEF HeartbeatFails
  <2>2. work' \in [Workers -> Work]
    BY <2>1, <1>11, WorkUpdates DEF TypeOK
  <2>3. \A v \in Workers : /\ work'[v].active = work[v].active
                          /\ work'[v].event = work[v].event
                          /\ work'[v].token = work[v].token
    BY <2>1 DEF TypeOK, Work
  <2>4. stalls' \in 0 .. MaxStalls
    BY <1>11, NumbersAssumption DEF HeartbeatFails, TypeOK
  <2>5. QED
    BY <1>11, <2>2, <2>3, <2>4 DEF HeartbeatFails, TypeOK, Active, limits
<1>12. ASSUME NEW w \in Workers, Crash(w)
      PROVE  TypeOK'
  <2>1. crashes' \in 0 .. MaxCrashes
    BY <1>12, NumbersAssumption DEF Crash, TypeOK
  <2>2. QED
    BY <1>12, <2>1, NoWorkType DEF Crash, TypeOK, Active, NoWork
<1>13. CASE UNCHANGED vars
  BY <1>13 DEF vars, limits, TypeOK, Active
<1>14. QED
  BY <1>1, <1>2, <1>3, <1>4, <1>5, <1>6, <1>7, <1>8, <1>9, <1>10, <1>11, <1>12, <1>13,
     TypeClaim DEF Next, WorkerStep

(***************************************************************************)
(* The rows and the workers' memory always have their types.               *)
(***************************************************************************)
THEOREM TypeCorrect == Spec => []TypeOK
<1>1. Init => TypeOK
  BY TypeInit
<1>2. TypeOK /\ [Next]_vars => TypeOK'
  BY TypeStep
<1>3. QED
  BY <1>1, <1>2, PTL DEF Spec

-----------------------------------------------------------------------------
(***************************************************************************)
(* The inductive invariant.  Claims that workers hold have different       *)
(* tokens, and refer to accepted events and to consumers of those.         *)
(***************************************************************************)
TokensDiffer ==
    /\ \A v, w \in Workers : \A j \in batch[v], k \in batch[w] :
          j.token = k.token => v = w /\ j = k
    /\ \A v, w \in Workers : \A k \in batch[v] :
          Active(w) => k.token # work[w].token
    /\ \A v, w \in Workers :
          Active(v) /\ Active(w) /\ work[v].token = work[w].token => v = w

BatchIsSound ==
    \A w \in Workers : \A k \in batch[w] :
       /\ event[k.event].status # "ABSENT"
       /\ k.todo \subseteq ConsumersOf[k.event]

WorkIsSound ==
    \A w \in Workers : Active(w) =>
       /\ event[work[w].event].status # "ABSENT"
       /\ work[w].todo \subseteq ConsumersOf[work[w].event]
       /\ \A r \in work[w].result : /\ r.to \in ConsumersOf[work[w].event]
                                    /\ r.to \notin work[w].todo
                                    /\ r.ok => r.to \in sent[work[w].event]

RowsMatch ==
    \A e \in Events, c \in Consumers :
       delivery[e][c].status = "ABSENT" <=>
          event[e].status = "ABSENT" \/ c \notin ConsumersOf[e]

(***************************************************************************)
(* What the limit of attempts makes of a delivery: given up at the limit,  *)
(* pending below it.                                                       *)
(***************************************************************************)
GivenUpAtLimit ==
    \A e \in Events, c \in Consumers :
       /\ delivery[e][c].status = "FAILED" => delivery[e][c].attempts = MaxAttempts
       /\ Waiting(e, c) => delivery[e][c].attempts < MaxAttempts

ClaimInv == TokensDiffer /\ BatchIsSound /\ WorkIsSound
RowInv == RowsMatch /\ EventMatchesDeliveries /\ GivenUpAtLimit
CurrentInv == OwnedBatchIsCurrent /\ OwnedWorkIsCurrent

IInv == TypeOK /\ ClaimInv /\ RowInv /\ CurrentInv

LEMMA InvInit == Init => IInv
<1> SUFFICES ASSUME Init PROVE IInv
  OBVIOUS
<1>1. TypeOK
  BY TypeInit
<1>2. ClaimInv
  BY DEF Init, ClaimInv, TokensDiffer, BatchIsSound, WorkIsSound, Active, NoWork
<1>3. RowInv
  BY DEF Init, RowInv, RowsMatch, EventMatchesDeliveries, GivenUpAtLimit, Waiting,
         AbsentEvent, AbsentDelivery
<1>4. CurrentInv
  BY DEF Init, CurrentInv, OwnedBatchIsCurrent, OwnedWorkIsCurrent, Active, NoWork
<1>5. QED
  BY <1>1, <1>2, <1>3, <1>4 DEF IInv

(***************************************************************************)
(* Most actions only let workers forget claims, or change what no part of  *)
(* the invariant but the type looks at.                                    *)
(***************************************************************************)
Forgets ==
    /\ UNCHANGED <<delivery, sent>>
    /\ \A e \in Events : /\ event'[e].status = event[e].status
                        /\ event'[e].token = event[e].token
    /\ \A w \in Workers : batch'[w] \subseteq batch[w]
    /\ \A w \in Workers : work'[w].active =>
          /\ work[w].active
          /\ work'[w].event = work[w].event
          /\ work'[w].token = work[w].token
          /\ work'[w].todo = work[w].todo
          /\ work'[w].result \subseteq work[w].result

LEMMA ForgettingActions ==
    ASSUME TypeOK,
           \/ \E e \in Events : LeaseExpires(e) \/ BackoffEnds(e)
           \/ \E w \in Workers : \/ Abandon(w) \/ Heartbeat(w)
                                \/ HeartbeatFails(w) \/ Crash(w)
           \/ UNCHANGED vars
    PROVE  Forgets
<1>1. ASSUME NEW e \in Events, LeaseExpires(e) \/ BackoffEnds(e)
      PROVE  Forgets
  <2>1. \/ event' = [event EXCEPT ![e].stale = TRUE]
        \/ event' = [event EXCEPT ![e].due = TRUE]
    BY <1>1 DEF LeaseExpires, BackoffEnds
  <2>2. \A d \in Events : event'[d].status = event[d].status /\ event'[d].token = event[d].token
    <3>1. event \in [Events -> EventRow]
      BY DEF TypeOK
    <3>2. CASE event' = [event EXCEPT ![e].stale = TRUE]
      BY <3>1, <3>2 DEF EventRow
    <3>3. CASE event' = [event EXCEPT ![e].due = TRUE]
      BY <3>1, <3>3 DEF EventRow
    <3>4. QED
      BY <2>1, <3>2, <3>3
  <2>3. UNCHANGED <<delivery, batch, work, sent>>
    BY <1>1 DEF LeaseExpires, BackoffEnds, limits
  <2>4. QED
    BY <2>2, <2>3 DEF Forgets
<1>2. ASSUME NEW w \in Workers, Abandon(w) \/ Crash(w)
      PROVE  Forgets
  <2>1. UNCHANGED <<event, delivery, sent>> /\ work' = [work EXCEPT ![w] = NoWork]
    BY <1>2 DEF Abandon, Crash
  <2>2. \A v \in Workers : batch'[v] \subseteq batch[v]
    BY <1>2 DEF Abandon, Crash, TypeOK
  <2>3. \A v \in Workers : work'[v].active => work'[v] = work[v]
    BY <2>1 DEF TypeOK, NoWork
  <2>4. QED
    BY <2>1, <2>2, <2>3 DEF Forgets
<1>3. ASSUME NEW w \in Workers, Heartbeat(w)
      PROVE  Forgets
  <2>1. UNCHANGED <<delivery, batch, sent>>
    BY <1>3 DEF Heartbeat
  <2>2. UNCHANGED event \/ event' = [event EXCEPT ![work[w].event].stale = FALSE]
    BY <1>3 DEF Heartbeat
  <2>3. UNCHANGED work \/ work' = [work EXCEPT ![w].lost = TRUE]
    BY <1>3 DEF Heartbeat
  <2>4. \A d \in Events : event'[d].status = event[d].status /\ event'[d].token = event[d].token
    BY <2>2 DEF TypeOK, EventRow
  <2>5. \A v \in Workers : /\ work'[v].active = work[v].active
                          /\ work'[v].event = work[v].event
                          /\ work'[v].token = work[v].token
                          /\ work'[v].todo = work[v].todo
                          /\ work'[v].result = work[v].result
    BY <2>3 DEF TypeOK, Work
  <2>6. QED
    BY <2>1, <2>4, <2>5 DEF Forgets
<1>4. ASSUME NEW w \in Workers, HeartbeatFails(w)
      PROVE  Forgets
  BY <1>4 DEF HeartbeatFails, TypeOK, Work, Forgets
<1>5. CASE UNCHANGED vars
  BY <1>5 DEF vars, Forgets
<1>6. QED
  BY <1>1, <1>2, <1>3, <1>4, <1>5

LEMMA ForgettingKeepsInv ==
    ASSUME IInv, TypeOK', Forgets
    PROVE  IInv'
<1> USE DEF IInv
<1>1. TokensDiffer'
  BY DEF Forgets, ClaimInv, TokensDiffer, Active
<1>2. BatchIsSound'
  <2> SUFFICES ASSUME NEW w \in Workers, NEW k \in batch'[w]
               PROVE  /\ event'[k.event].status # "ABSENT"
                      /\ k.todo \subseteq ConsumersOf[k.event]
    BY DEF BatchIsSound
  <2>1. k \in batch[w]
    BY DEF Forgets
  <2>2. k.event \in Events
    BY <2>1 DEF TypeOK, Claim
  <2>3. QED
    BY <2>1, <2>2 DEF Forgets, ClaimInv, BatchIsSound
<1>3. WorkIsSound'
  BY DEF Forgets, ClaimInv, WorkIsSound, TypeOK, Active
<1>4. RowInv'
  BY DEF Forgets, RowInv, RowsMatch, EventMatchesDeliveries, GivenUpAtLimit, Waiting
<1>5. OwnedBatchIsCurrent'
  <2> SUFFICES ASSUME NEW w \in Workers, NEW k \in batch'[w], Owned(k.event, k.token)'
               PROVE  Undecided(k.event, k.token, k.todo)'
    BY DEF OwnedBatchIsCurrent
  <2>1. k \in batch[w] /\ k.event \in Events
    BY DEF Forgets, TypeOK, Claim
  <2>2. Owned(k.event, k.token)
    BY <2>1 DEF Forgets, Owned
  <2>3. Undecided(k.event, k.token, k.todo)
    BY <2>1, <2>2 DEF CurrentInv, OwnedBatchIsCurrent
  <2>4. QED
    BY <2>3 DEF Forgets, Undecided, Waiting
<1>6. OwnedWorkIsCurrent'
  <2> SUFFICES ASSUME NEW w \in Workers, Active(w)', Owned(work[w].event, work[w].token)'
               PROVE  /\ Undecided(work[w].event, work[w].token, work[w].todo)'
                      /\ \A r \in work'[w].result :
                            Undecided(work[w].event, work[w].token, {r.to})'
    BY DEF OwnedWorkIsCurrent
  <2>1. /\ Active(w) /\ work[w].event \in Events
        /\ work'[w].event = work[w].event /\ work'[w].token = work[w].token
        /\ work'[w].todo = work[w].todo /\ work'[w].result \subseteq work[w].result
    BY DEF Forgets, TypeOK, Active
  <2>2. Owned(work[w].event, work[w].token)
    BY <2>1 DEF Forgets, Owned
  <2>3. /\ Undecided(work[w].event, work[w].token, work[w].todo)
        /\ \A r \in work[w].result : Undecided(work[w].event, work[w].token, {r.to})
    BY <2>1, <2>2 DEF CurrentInv, OwnedWorkIsCurrent
  <2>4. delivery' = delivery
    BY DEF Forgets
  <2>5. QED
    BY <2>1, <2>3, <2>4 DEF Undecided, Waiting
<1>7. QED
  BY <1>1, <1>2, <1>3, <1>4, <1>5, <1>6 DEF ClaimInv, CurrentInv

-----------------------------------------------------------------------------
(***************************************************************************)
(* A worker starts on a claim: the claim moves from its batch to its work. *)
(***************************************************************************)
LEMMA StartKeepsInv ==
    ASSUME IInv, TypeOK', NEW w \in Workers, NEW k \in batch[w], StartClaim(w, k)
    PROVE  IInv'
<1> USE DEF IInv
<1>1. /\ UNCHANGED <<event, delivery, sent>>
      /\ ~Active(w)
      /\ batch' = [batch EXCEPT ![w] = @ \ {k}]
      /\ work' = [work EXCEPT ![w] =
                     [active |-> TRUE, event |-> k.event, token |-> k.token,
                      todo |-> k.todo, result |-> {}, lost |-> FALSE]]
  BY DEF StartClaim
<1>2. batch \in [Workers -> SUBSET Claim] /\ work \in [Workers -> Work]
  BY DEF TypeOK
<1>3. /\ work'[w].active /\ work'[w].event = k.event /\ work'[w].token = k.token
      /\ work'[w].todo = k.todo /\ work'[w].result = {}
  BY <1>1, <1>2
<1>4. \A v \in Workers \ {w} : work'[v] = work[v] /\ batch'[v] = batch[v]
  BY <1>1, <1>2
<1>5. \A v \in Workers : batch'[v] \subseteq batch[v]
  BY <1>1, <1>2
<1>6. k \notin batch'[w]
  BY <1>1, <1>2
<1>7. TokensDiffer'
  <2>1. \A v, x \in Workers : \A i \in batch'[v], j \in batch'[x] :
           i.token = j.token => v = x /\ i = j
    BY <1>5 DEF ClaimInv, TokensDiffer
  <2>2. \A v, x \in Workers : \A j \in batch'[v] : work'[x].active => j.token # work'[x].token
    BY <1>3, <1>4, <1>5, <1>6 DEF ClaimInv, TokensDiffer, Active
  <2>3. \A v, x \in Workers :
           work'[v].active /\ work'[x].active /\ work'[v].token = work'[x].token => v = x
    BY <1>3, <1>4 DEF ClaimInv, TokensDiffer, Active
  <2>4. QED
    BY <2>1, <2>2, <2>3 DEF TokensDiffer, Active
<1>8. BatchIsSound'
  BY <1>1, <1>5 DEF ClaimInv, BatchIsSound
<1>9. WorkIsSound'
  BY <1>1, <1>3, <1>4 DEF ClaimInv, BatchIsSound, WorkIsSound, Active
<1>10. RowInv'
  BY <1>1 DEF RowInv, RowsMatch, EventMatchesDeliveries, GivenUpAtLimit, Waiting
<1>11. OwnedBatchIsCurrent'
  BY <1>1, <1>5 DEF CurrentInv, OwnedBatchIsCurrent, Owned, Undecided, Waiting
<1>12. OwnedWorkIsCurrent'
  <2> SUFFICES ASSUME NEW v \in Workers, Active(v)', Owned(work[v].event, work[v].token)'
               PROVE  /\ Undecided(work[v].event, work[v].token, work[v].todo)'
                      /\ \A r \in work'[v].result :
                            Undecided(work[v].event, work[v].token, {r.to})'
    BY DEF OwnedWorkIsCurrent
  <2>1. work'[v].active /\ Owned(work'[v].event, work'[v].token)
    BY <1>1 DEF Active, Owned
  <2>2. CASE v = w
    <3>1. Undecided(k.event, k.token, k.todo)
      BY <1>3, <2>1, <2>2 DEF CurrentInv, OwnedBatchIsCurrent
    <3>2. QED
      BY <1>1, <1>3, <2>2, <3>1 DEF Undecided, Waiting
  <2>3. CASE v # w
    <3>1. work'[v] = work[v]
      BY <1>4, <2>3
    <3>2. /\ Undecided(work[v].event, work[v].token, work[v].todo)
          /\ \A r \in work[v].result : Undecided(work[v].event, work[v].token, {r.to})
      BY <2>1, <3>1 DEF CurrentInv, OwnedWorkIsCurrent, Active
    <3>3. QED
      BY <1>1, <3>1, <3>2 DEF Undecided, Waiting
  <2>4. QED
    BY <2>2, <2>3
<1>13. QED
  BY <1>7, <1>8, <1>9, <1>10, <1>11, <1>12 DEF ClaimInv, CurrentInv

(***************************************************************************)
(* A worker dispatches a delivery: what it has in hand stays in hand.      *)
(***************************************************************************)
LEMMA DispatchKeepsInv ==
    ASSUME IInv, TypeOK', NEW w \in Workers, NEW c \in Consumers, NEW ok \in BOOLEAN,
           NEW reached \in BOOLEAN, Dispatch(w, c, ok, reached)
    PROVE  IInv'
<1> USE DEF IInv
<1>1. /\ UNCHANGED <<event, delivery, batch>>
      /\ Active(w)
      /\ c \in work[w].todo
      /\ ok => reached
      /\ work' = [work EXCEPT ![w].todo = @ \ {c}, ![w].result = {[to |-> c, ok |-> ok]}]
      /\ sent' = [sent EXCEPT ![work[w].event] = IF reached THEN @ \cup {c} ELSE @]
  BY DEF Dispatch
<1>2. /\ work \in [Workers -> Work]
      /\ sent \in [Events -> SUBSET Consumers]
      /\ work[w].event \in Events
  BY <1>1 DEF TypeOK
<1>3. /\ work'[w].active /\ work'[w].event = work[w].event /\ work'[w].token = work[w].token
      /\ work'[w].todo = work[w].todo \ {c}
      /\ work'[w].result = {[to |-> c, ok |-> ok]}
  BY <1>1, <1>2 DEF Work, Active
<1>4. \A v \in Workers \ {w} : work'[v] = work[v]
  BY <1>1, <1>2
<1>5. \A e \in Events : sent[e] \subseteq sent'[e]
  BY <1>1, <1>2
<1>6. ok => c \in sent'[work[w].event]
  BY <1>1, <1>2
<1>7. TokensDiffer'
  <2>1. \A v \in Workers : (work'[v].active <=> work[v].active) /\ work'[v].token = work[v].token
    BY <1>1, <1>3, <1>4 DEF Active
  <2>2. \A v, x \in Workers : \A j \in batch[v] : work'[x].active => j.token # work'[x].token
    BY <2>1 DEF ClaimInv, TokensDiffer, Active
  <2>3. \A v, x \in Workers :
           work'[v].active /\ work'[x].active /\ work'[v].token = work'[x].token => v = x
    BY <2>1 DEF ClaimInv, TokensDiffer, Active
  <2>4. QED
    BY <2>2, <2>3, <1>1 DEF ClaimInv, TokensDiffer, Active
<1>8. BatchIsSound'
  BY <1>1 DEF ClaimInv, BatchIsSound
<1>9. WorkIsSound'
  <2> SUFFICES ASSUME NEW v \in Workers, work'[v].active
               PROVE  /\ event[work'[v].event].status # "ABSENT"
                      /\ work'[v].todo \subseteq ConsumersOf[work'[v].event]
                      /\ \A r \in work'[v].result :
                            /\ r.to \in ConsumersOf[work'[v].event]
                            /\ r.to \notin work'[v].todo
                            /\ r.ok => r.to \in sent'[work'[v].event]
    BY <1>1 DEF WorkIsSound, Active
  <2>1. CASE v = w
    <3>1. /\ event[work[w].event].status # "ABSENT"
          /\ work[w].todo \subseteq ConsumersOf[work[w].event]
      BY <1>1 DEF ClaimInv, WorkIsSound
    <3>2. \A r \in work'[w].result : r.to = c /\ r.ok = ok
      BY <1>3
    <3>3. QED
      BY <2>1, <1>1, <1>3, <1>6, <3>1, <3>2
  <2>2. CASE v # w
    <3>1. work[v].event \in Events /\ work'[v] = work[v] /\ Active(v)
      BY <2>2, <1>4 DEF TypeOK, Active
    <3>2. QED
      BY <3>1, <1>5 DEF ClaimInv, WorkIsSound
  <2>3. QED
    BY <2>1, <2>2
<1>10. RowInv'
  BY <1>1 DEF RowInv, RowsMatch, EventMatchesDeliveries, GivenUpAtLimit, Waiting
<1>11. OwnedBatchIsCurrent'
  BY <1>1 DEF CurrentInv, OwnedBatchIsCurrent, Owned, Undecided, Waiting
<1>12. OwnedWorkIsCurrent'
  <2> SUFFICES ASSUME NEW v \in Workers, Active(v)', Owned(work[v].event, work[v].token)'
               PROVE  /\ Undecided(work[v].event, work[v].token, work[v].todo)'
                      /\ \A r \in work'[v].result :
                            Undecided(work[v].event, work[v].token, {r.to})'
    BY DEF OwnedWorkIsCurrent
  <2>1. work'[v].active /\ Owned(work'[v].event, work'[v].token)
    BY <1>1 DEF Active, Owned
  <2>2. CASE v = w
    <3>1. Undecided(work[w].event, work[w].token, work[w].todo)
      BY <2>1, <2>2, <1>1, <1>3 DEF CurrentInv, OwnedWorkIsCurrent
    <3>2. Undecided(work[w].event, work[w].token, {c})
      BY <3>1, <1>1 DEF Undecided
    <3>3. \A r \in work'[w].result : r.to = c
      BY <1>3
    <3>4. work'[w].todo \subseteq work[w].todo
      BY <1>3
    <3>5. Undecided(work'[w].event, work'[w].token, work'[w].todo)
      BY <3>1, <3>4, <1>3 DEF Undecided
    <3>6. \A r \in work'[w].result : Undecided(work'[w].event, work'[w].token, {r.to})
      BY <3>2, <3>3, <1>3
    <3>7. Undecided(work[w].event, work[w].token, work[w].todo)'
      BY <3>5, <1>1 DEF Undecided, Waiting
    <3>8. ASSUME NEW r \in work'[w].result
          PROVE  Undecided(work[w].event, work[w].token, {r.to})'
      BY <3>6, <1>1 DEF Undecided, Waiting
    <3>9. QED
      BY <2>2, <3>7, <3>8
  <2>3. CASE v # w
    <3>1. work'[v] = work[v] /\ Active(v)
      BY <2>1, <2>3, <1>4 DEF Active
    <3>2. /\ Undecided(work'[v].event, work'[v].token, work'[v].todo)
          /\ \A r \in work'[v].result : Undecided(work'[v].event, work'[v].token, {r.to})
      BY <2>1, <3>1 DEF CurrentInv, OwnedWorkIsCurrent
    <3>3. QED
      BY <3>2, <1>1 DEF Undecided, Waiting
  <2>4. QED
    BY <2>2, <2>3
<1>13. QED
  BY <1>7, <1>8, <1>9, <1>10, <1>11, <1>12 DEF ClaimInv, CurrentInv

(***************************************************************************)
(* A worker acknowledges a result.  If it still owns the claim, exactly    *)
(* one delivery row changes, and no other claim of that event is owned.    *)
(***************************************************************************)
LEMMA AcknowledgeKeepsInv ==
    ASSUME IInv, TypeOK', NEW w \in Workers, NEW r \in work[w].result, Acknowledge(w, r)
    PROVE  IInv'
<1> USE DEF IInv
<1> DEFINE e == work[w].event
           t == work[w].token
           row == delivery[e][r.to]
<1>1. /\ work \in [Workers -> Work]
      /\ event \in [Events -> EventRow]
      /\ delivery \in [Events -> [Consumers -> DeliveryRow]]
      /\ Active(w) /\ e \in Events /\ t \in Tokens
      /\ r.to \in Consumers
  BY DEF TypeOK, Acknowledge, Work, Result
<1>2. UNCHANGED <<event, batch, sent>>
  BY DEF Acknowledge
<1>3. CASE ~Owned(e, t)
  <2>1. UNCHANGED delivery /\ work' = [work EXCEPT ![w].result = {}, ![w].lost = TRUE]
    BY <1>3 DEF Acknowledge
  <2>2. \A v \in Workers : /\ work'[v].active <=> work[v].active
                          /\ work'[v].event = work[v].event
                          /\ work'[v].token = work[v].token
                          /\ work'[v].todo = work[v].todo
                          /\ work'[v].result \subseteq work[v].result
    BY <2>1, <1>1 DEF Work
  <2>3. Forgets
    BY <1>2, <2>1, <2>2 DEF Forgets
  <2>4. QED
    BY <2>3, ForgettingKeepsInv
<1>4. CASE Owned(e, t)
  <2>1. /\ work' = [work EXCEPT ![w].result = {}]
        /\ delivery' = [delivery EXCEPT ![e][r.to] = Acknowledged(@, t, r.ok)]
    BY <1>4 DEF Acknowledge
  <2>2. \A v \in Workers : /\ work'[v].active <=> work[v].active
                          /\ work'[v].event = work[v].event
                          /\ work'[v].token = work[v].token
                          /\ work'[v].todo = work[v].todo
    BY <2>1, <1>1 DEF Work
  <2>3. work'[w].result = {} /\ \A v \in Workers \ {w} : work'[v].result = work[v].result
    BY <2>1, <1>1 DEF Work
  <2>4. row.status = "PENDING" /\ row.last # t
    BY <1>1, <1>4 DEF CurrentInv, OwnedWorkIsCurrent, Undecided, Waiting
  <2>5. delivery'[e][r.to] = Acknowledged(row, t, r.ok)
    BY <2>1, <1>1
  <2>6. \A d \in Events, c \in Consumers :
           d # e \/ c # r.to => delivery'[d][c] = delivery[d][c]
    BY <2>1, <1>1
  <2>7. event[e].status = "PROCESSING" /\ event[e].token = t
    BY <1>4 DEF Owned
  <2>8. r.to \in ConsumersOf[e]
    BY <1>1 DEF ClaimInv, WorkIsSound
  <2>9. TokensDiffer'
    <3>1. \A v, x \in Workers : \A j \in batch[v] :
             work'[x].active => j.token # work'[x].token
      BY <2>2 DEF ClaimInv, TokensDiffer, Active
    <3>2. \A v, x \in Workers :
             work'[v].active /\ work'[x].active /\ work'[v].token = work'[x].token => v = x
      BY <2>2 DEF ClaimInv, TokensDiffer, Active
    <3>3. QED
      BY <3>1, <3>2, <1>2 DEF ClaimInv, TokensDiffer, Active
  <2>10. BatchIsSound'
    BY <1>2 DEF ClaimInv, BatchIsSound
  <2>11. WorkIsSound'
    BY <1>2, <2>2, <2>3 DEF ClaimInv, WorkIsSound, Active
  <2>12. /\ row \in DeliveryRow
         /\ row.attempts < MaxAttempts
    BY <1>1, <2>4 DEF RowInv, GivenUpAtLimit, Waiting
  <2>13. /\ delivery'[e][r.to].status \in {"PENDING", "PROCESSED", "FAILED"}
         /\ delivery'[e][r.to].status = "FAILED" =>
               delivery'[e][r.to].attempts = MaxAttempts
         /\ delivery'[e][r.to].status = "PENDING" =>
               delivery'[e][r.to].attempts < MaxAttempts
    <3>1. row.attempts \in Nat /\ MaxAttempts \in Nat
      BY <2>12, NumbersAssumption DEF DeliveryRow
    <3>2. row.attempts + 1 >= MaxAttempts => row.attempts + 1 = MaxAttempts
      BY <3>1, <2>12
    <3>3. ~(row.attempts + 1 >= MaxAttempts) => row.attempts + 1 < MaxAttempts
      BY <3>1
    <3>4. CASE r.ok
      BY <3>4, <2>4, <2>5, <2>12 DEF Acknowledged, DeliveryRow
    <3>5. CASE ~r.ok
      BY <3>5, <2>4, <2>5, <3>2, <3>3 DEF Acknowledged
    <3>6. QED
      BY <3>4, <3>5
  <2>14. RowsMatch'
    BY <1>2, <2>6, <2>7, <2>8, <2>13 DEF RowInv, RowsMatch
  <2>15. EventMatchesDeliveries'
    <3> SUFFICES ASSUME NEW d \in Events, event[d].status \in {"PROCESSED", "FAILED"}
                 PROVE  \A c \in Consumers : delivery'[d][c] = delivery[d][c]
      BY <1>2, ConsumersOfAssumption DEF RowInv, EventMatchesDeliveries, Waiting
    <3>1. QED
      BY <2>6, <2>7
  <2>16. GivenUpAtLimit'
    BY <2>6, <2>13, <1>1 DEF RowInv, GivenUpAtLimit, Waiting
  <2>17. OwnedBatchIsCurrent'
    <3> SUFFICES ASSUME NEW v \in Workers, NEW k \in batch[v], Owned(k.event, k.token),
                        NEW c \in k.todo
                 PROVE  delivery'[k.event][c] = delivery[k.event][c]
      BY <1>2 DEF CurrentInv, OwnedBatchIsCurrent, Owned, Undecided, Waiting
    <3>1. k.event # e
      BY <1>1, <2>7 DEF Owned, ClaimInv, TokensDiffer
    <3>2. k.event \in Events /\ c \in Consumers
      BY DEF TypeOK, Claim
    <3>3. QED
      BY <3>1, <3>2, <2>6
  <2>18. OwnedWorkIsCurrent'
    <3> SUFFICES ASSUME NEW v \in Workers, Active(v), Owned(work[v].event, work[v].token),
                        NEW c \in Consumers,
                        c \in work[v].todo \/ v # w
                 PROVE  delivery'[work[v].event][c] = delivery[work[v].event][c]
      <4> SUFFICES ASSUME NEW v \in Workers, Active(v)', Owned(work[v].event, work[v].token)'
                   PROVE  /\ Undecided(work[v].event, work[v].token, work[v].todo)'
                          /\ \A q \in work'[v].result :
                                Undecided(work[v].event, work[v].token, {q.to})'
        BY DEF OwnedWorkIsCurrent
      <4>1. /\ work[v].todo \subseteq Consumers
            /\ \A q \in work[v].result : q.to \in Consumers
        BY <1>1 DEF Work, Result
      <4>2. Active(v) /\ Owned(work[v].event, work[v].token)
        BY <1>2, <2>2 DEF Active, Owned
      <4>3. /\ Undecided(work[v].event, work[v].token, work[v].todo)
            /\ \A q \in work[v].result : Undecided(work[v].event, work[v].token, {q.to})
        BY <4>2 DEF CurrentInv, OwnedWorkIsCurrent
      <4>4. \A c \in Consumers : c \in work[v].todo \/ v # w =>
               delivery'[work[v].event][c] = delivery[work[v].event][c]
        BY <4>2
      <4>5. Undecided(work[v].event, work[v].token, work[v].todo)'
        BY <2>2, <4>1, <4>3, <4>4 DEF Undecided, Waiting
      <4>6. ASSUME NEW q \in work'[v].result
            PROVE  Undecided(work[v].event, work[v].token, {q.to})'
        <5>1. v # w /\ q \in work[v].result
          BY <2>3
        <5>2. QED
          BY <5>1, <2>2, <4>1, <4>3, <4>4 DEF Undecided, Waiting
      <4>7. QED
        BY <4>5, <4>6
    <3>1. work[v].event \in Events
      BY DEF TypeOK
    <3>2. CASE v = w
      <4>1. c # r.to
        BY <3>2 DEF ClaimInv, WorkIsSound
      <4>2. QED
        BY <3>1, <4>1, <2>6
    <3>3. CASE v # w
      <4>1. work[v].event # e
        BY <3>3, <1>1, <2>7 DEF Owned, ClaimInv, TokensDiffer
      <4>2. QED
        BY <3>1, <4>1, <2>6
    <3>4. QED
      BY <3>2, <3>3
  <2>19. QED
    BY <2>9, <2>10, <2>11, <2>14, <2>15, <2>16, <2>17, <2>18 DEF ClaimInv, RowInv, CurrentInv
<1>5. QED
  BY <1>3, <1>4

(***************************************************************************)
(* A worker finishes its attempt: the event is settled from its deliveries *)
(* and nobody owns it any more.                                            *)
(***************************************************************************)
LEMMA FinalStatusIsRight ==
    ASSUME IInv, NEW e \in Events, event[e].status # "ABSENT"
    PROVE  /\ FinalStatus(e) \in {"PENDING", "FAILED", "PROCESSED"}
           /\ FinalStatus(e) = "PROCESSED" =>
                 \A c \in ConsumersOf[e] : delivery[e][c].status = "PROCESSED"
           /\ FinalStatus(e) = "FAILED" =>
                 /\ \A c \in ConsumersOf[e] : ~Waiting(e, c)
                 /\ \E c \in ConsumersOf[e] : delivery[e][c].status = "FAILED"
<1>1. ConsumersOf[e] \subseteq Consumers
  BY ConsumersOfAssumption
<1>2. \A c \in Consumers : delivery[e][c].status \in {"ABSENT", "PENDING", "PROCESSED", "FAILED"}
  BY DEF IInv, TypeOK, DeliveryRow, DeliveryStatuses
<1>3. \A c \in Consumers : delivery[e][c].status = "ABSENT" <=> c \notin ConsumersOf[e]
  BY DEF IInv, RowInv, RowsMatch
<1>4. QED
  BY <1>1, <1>2, <1>3 DEF FinalStatus, Waiting

LEMMA FinishKeepsInv ==
    ASSUME IInv, TypeOK', NEW w \in Workers, FinishAttempt(w)
    PROVE  IInv'
<1> USE DEF IInv
<1> DEFINE e == work[w].event
<1>1. /\ work \in [Workers -> Work]
      /\ event \in [Events -> EventRow]
      /\ Active(w) /\ e \in Events
      /\ event[e].status # "ABSENT"
  BY DEF TypeOK, FinishAttempt, ClaimInv, WorkIsSound
<1>2. UNCHANGED <<delivery, batch, sent>> /\ work' = [work EXCEPT ![w] = NoWork]
  BY DEF FinishAttempt
<1>3. \A v \in Workers : work'[v].active => v # w /\ work'[v] = work[v]
  BY <1>1, <1>2 DEF NoWork
<1>4. CASE ~Owned(e, work[w].token)
  <2>1. UNCHANGED event
    BY <1>4 DEF FinishAttempt
  <2>2. Forgets
    BY <1>2, <1>3, <2>1 DEF Forgets
  <2>3. QED
    BY <2>2, ForgettingKeepsInv
<1>5. CASE Owned(e, work[w].token)
  <2>1. event' = [event EXCEPT ![e] = [status |-> FinalStatus(e), token |-> NoToken,
                                       due |-> FinalStatus(e) # "PENDING", stale |-> FALSE]]
    BY <1>5 DEF FinishAttempt
  <2>2. event'[e].status = FinalStatus(e) /\ \A d \in Events \ {e} : event'[d] = event[d]
    BY <1>1, <2>1
  <2>3. /\ FinalStatus(e) \in {"PENDING", "FAILED", "PROCESSED"}
        /\ FinalStatus(e) = "PROCESSED" =>
              \A c \in ConsumersOf[e] : delivery[e][c].status = "PROCESSED"
        /\ FinalStatus(e) = "FAILED" =>
              /\ \A c \in ConsumersOf[e] : ~Waiting(e, c)
              /\ \E c \in ConsumersOf[e] : delivery[e][c].status = "FAILED"
    BY <1>1, FinalStatusIsRight
  <2>4. \A d \in Events : event'[d].status = "ABSENT" <=> event[d].status = "ABSENT"
    BY <1>1, <2>2, <2>3
  <2>5. \A d \in Events : \A t : event'[d].status = "PROCESSING" /\ event'[d].token = t
                             => Owned(d, t)
    BY <2>2, <2>3 DEF Owned
  <2>6. TokensDiffer'
    BY <1>2, <1>3 DEF ClaimInv, TokensDiffer, Active
  <2>7. BatchIsSound'
    <3>1. \A v \in Workers : \A k \in batch[v] : k.event \in Events
      BY DEF TypeOK, Claim
    <3>2. QED
      BY <1>2, <2>4, <3>1 DEF ClaimInv, BatchIsSound
  <2>8. WorkIsSound'
    BY <1>2, <1>3, <2>4 DEF ClaimInv, WorkIsSound, Active, TypeOK
  <2>9. RowsMatch'
    BY <1>2, <2>4 DEF RowInv, RowsMatch
  <2>10. EventMatchesDeliveries'
    BY <1>2, <2>2, <2>3 DEF RowInv, EventMatchesDeliveries, Waiting
  <2>11. GivenUpAtLimit'
    BY <1>2 DEF RowInv, GivenUpAtLimit, Waiting
  <2>12. OwnedBatchIsCurrent'
    <3>1. \A v \in Workers : \A k \in batch[v] : k.event \in Events
      BY DEF TypeOK, Claim
    <3>2. QED
      BY <1>2, <2>5, <3>1 DEF CurrentInv, OwnedBatchIsCurrent, Owned, Undecided, Waiting
  <2>13. OwnedWorkIsCurrent'
    BY <1>2, <1>3, <2>5 DEF CurrentInv, OwnedWorkIsCurrent, Owned, Undecided, Waiting, Active, TypeOK
  <2>14. QED
    BY <2>6, <2>7, <2>8, <2>9, <2>10, <2>11, <2>12, <2>13 DEF ClaimInv, RowInv, CurrentInv
<1>6. QED
  BY <1>4, <1>5

(***************************************************************************)
(* Accepting an event and retrying a failed one change the rows of an      *)
(* event that nobody owns.                                                 *)
(***************************************************************************)
LEMMA EnqueueKeepsInv ==
    ASSUME IInv, TypeOK', NEW e \in Events, Enqueue(e)
    PROVE  IInv'
<1> USE DEF IInv
<1>1. /\ event[e].status = "ABSENT"
      /\ event' = [event EXCEPT ![e] = [status |-> "PENDING", token |-> NoToken,
                                         due |-> TRUE, stale |-> FALSE]]
      /\ delivery' = [delivery EXCEPT ![e] =
                        [c \in Consumers |->
                           IF c \in ConsumersOf[e]
                           THEN [status |-> "PENDING", attempts |-> 0, last |-> NoToken]
                           ELSE AbsentDelivery]]
      /\ UNCHANGED <<batch, work, sent>>
  BY DEF Enqueue
<1>2. /\ event \in [Events -> EventRow]
      /\ delivery \in [Events -> [Consumers -> DeliveryRow]]
  BY DEF TypeOK
<1>3. event'[e].status = "PENDING" /\ \A d \in Events \ {e} : event'[d] = event[d]
  BY <1>1, <1>2
<1>4. \A d \in Events \ {e} : delivery'[d] = delivery[d]
  BY <1>1, <1>2
<1>5. \A c \in Consumers :
         /\ c \in ConsumersOf[e] => /\ delivery'[e][c].status = "PENDING"
                                    /\ delivery'[e][c].attempts = 0
         /\ c \notin ConsumersOf[e] => delivery'[e][c].status = "ABSENT"
  BY <1>1, <1>2 DEF AbsentDelivery
<1>6. \A v \in Workers : /\ \A k \in batch[v] : k.event \in Events \ {e}
                        /\ Active(v) => work[v].event \in Events \ {e}
  BY <1>1 DEF ClaimInv, BatchIsSound, WorkIsSound, TypeOK, Claim
<1>7. ClaimInv'
  <2>1. TokensDiffer'
    BY <1>1 DEF ClaimInv, TokensDiffer, Active
  <2>2. BatchIsSound'
    BY <1>1, <1>3, <1>6 DEF ClaimInv, BatchIsSound
  <2>3. WorkIsSound'
    BY <1>1, <1>3, <1>6 DEF ClaimInv, WorkIsSound, Active
  <2>4. QED
    BY <2>1, <2>2, <2>3 DEF ClaimInv
<1>8. RowInv'
  <2>1. RowsMatch'
    BY <1>3, <1>4, <1>5 DEF RowInv, RowsMatch
  <2>2. EventMatchesDeliveries'
    BY <1>3, <1>4 DEF RowInv, EventMatchesDeliveries, Waiting
  <2>3. GivenUpAtLimit'
    <3>1. 0 < MaxAttempts
      BY NumbersAssumption
    <3>2. QED
      BY <3>1, <1>4, <1>5 DEF RowInv, GivenUpAtLimit, Waiting
  <2>4. QED
    BY <2>1, <2>2, <2>3 DEF RowInv
<1>9. CurrentInv'
  <2>1. OwnedBatchIsCurrent'
    BY <1>1, <1>3, <1>4, <1>6 DEF CurrentInv, OwnedBatchIsCurrent, Owned, Undecided, Waiting
  <2>2. OwnedWorkIsCurrent'
    BY <1>1, <1>3, <1>4, <1>6
       DEF CurrentInv, OwnedWorkIsCurrent, Owned, Undecided, Waiting, Active
  <2>3. QED
    BY <2>1, <2>2 DEF CurrentInv
<1>10. QED
  BY <1>7, <1>8, <1>9

LEMMA RetryKeepsInv ==
    ASSUME IInv, TypeOK', NEW e \in Events, RetryFailed(e)
    PROVE  IInv'
<1> USE DEF IInv
<1>0. UNCHANGED <<batch, work, sent>>
  BY DEF RetryFailed
<1>1. /\ event[e].status = "FAILED"
      /\ event' = [event EXCEPT ![e] = [status |-> "PENDING", token |-> NoToken,
                                         due |-> TRUE, stale |-> FALSE]]
      /\ delivery' = [delivery EXCEPT ![e] =
                        [c \in Consumers |->
                           IF delivery[e][c].status = "FAILED"
                           THEN [delivery[e][c] EXCEPT !.status = "PENDING", !.attempts = 0]
                           ELSE delivery[e][c]]]
  BY DEF RetryFailed
<1>2. /\ event \in [Events -> EventRow]
      /\ delivery \in [Events -> [Consumers -> DeliveryRow]]
  BY DEF TypeOK
<1>3. event'[e].status = "PENDING" /\ \A d \in Events \ {e} : event'[d] = event[d]
  BY <1>1, <1>2
<1>4. \A d \in Events \ {e} : delivery'[d] = delivery[d]
  BY <1>1, <1>2
<1>5. \A c \in Consumers :
         \/ delivery'[e][c] = delivery[e][c] /\ delivery[e][c].status # "FAILED"
         \/ /\ delivery[e][c].status = "FAILED"
            /\ delivery'[e][c].status = "PENDING"
            /\ delivery'[e][c].attempts = 0
  <2>1. \A c \in Consumers :
          delivery'[e][c] = IF delivery[e][c].status = "FAILED"
                            THEN [delivery[e][c] EXCEPT !.status = "PENDING", !.attempts = 0]
                            ELSE delivery[e][c]
    BY <1>1, <1>2
  <2>2. \A q \in DeliveryRow :
           /\ [q EXCEPT !.status = "PENDING", !.attempts = 0].status = "PENDING"
           /\ [q EXCEPT !.status = "PENDING", !.attempts = 0].attempts = 0
    BY DEF DeliveryRow
  <2>3. \A c \in Consumers : delivery[e][c] \in DeliveryRow
    BY <1>2
  <2>4. ASSUME NEW c \in Consumers, delivery[e][c].status = "FAILED"
        PROVE  delivery'[e][c].status = "PENDING" /\ delivery'[e][c].attempts = 0
    <3>1. delivery'[e][c] = [delivery[e][c] EXCEPT !.status = "PENDING", !.attempts = 0]
      BY <2>1, <2>4
    <3>2. QED
      BY <2>2, <2>3, <3>1
  <2>5. ASSUME NEW c \in Consumers, delivery[e][c].status # "FAILED"
        PROVE  delivery'[e][c] = delivery[e][c]
    BY <2>1, <2>5
  <2>6. QED
    BY <2>4, <2>5
<1>6. \A d \in Events : event'[d].status = "ABSENT" <=> event[d].status = "ABSENT"
  BY <1>1, <1>3
<1>7. \A d \in Events : \A t : event'[d].status = "PROCESSING" /\ event'[d].token = t
                           => d # e /\ Owned(d, t)
  BY <1>3 DEF Owned
<1>8. \A v \in Workers : \A k \in batch[v] : k.event \in Events
  BY DEF TypeOK, Claim
<1>9. ClaimInv'
  <2>1. TokensDiffer'
    BY <1>0 DEF ClaimInv, TokensDiffer, Active
  <2>2. BatchIsSound'
    BY <1>0, <1>6, <1>8 DEF ClaimInv, BatchIsSound
  <2>3. WorkIsSound'
    BY <1>0, <1>6 DEF ClaimInv, WorkIsSound, Active, TypeOK
  <2>4. QED
    BY <2>1, <2>2, <2>3 DEF ClaimInv
<1>10. RowInv'
  <2>1. RowsMatch'
    BY <1>4, <1>5, <1>6 DEF RowInv, RowsMatch
  <2>2. EventMatchesDeliveries'
    BY <1>3, <1>4 DEF RowInv, EventMatchesDeliveries, Waiting
  <2>3. GivenUpAtLimit'
    <3>1. 0 < MaxAttempts
      BY NumbersAssumption
    <3>2. QED
      BY <3>1, <1>4, <1>5 DEF RowInv, GivenUpAtLimit, Waiting
  <2>4. QED
    BY <2>1, <2>2, <2>3 DEF RowInv
<1>11. CurrentInv'
  <2>1. OwnedBatchIsCurrent'
    BY <1>0, <1>4, <1>7, <1>8 DEF CurrentInv, OwnedBatchIsCurrent, Owned, Undecided, Waiting
  <2>2. OwnedWorkIsCurrent'
    <3> SUFFICES ASSUME NEW v \in Workers, Active(v)', Owned(work[v].event, work[v].token)'
                 PROVE  /\ Undecided(work[v].event, work[v].token, work[v].todo)'
                        /\ \A r \in work'[v].result :
                              Undecided(work[v].event, work[v].token, {r.to})'
      BY DEF OwnedWorkIsCurrent
    <3>1. work' = work /\ Active(v) /\ work[v].event \in Events
      BY <1>0 DEF Active, TypeOK
    <3>2. work[v].event # e /\ Owned(work[v].event, work[v].token)
      BY <1>7, <3>1 DEF Owned
    <3>3. delivery'[work[v].event] = delivery[work[v].event]
      BY <1>4, <3>1, <3>2
    <3>4. /\ Undecided(work[v].event, work[v].token, work[v].todo)
          /\ \A r \in work[v].result : Undecided(work[v].event, work[v].token, {r.to})
      BY <3>1, <3>2 DEF CurrentInv, OwnedWorkIsCurrent
    <3>5. QED
      BY <3>1, <3>3, <3>4 DEF Undecided, Waiting
  <2>3. QED
    BY <2>1, <2>2 DEF CurrentInv
<1>12. QED
  BY <1>9, <1>10, <1>11

(***************************************************************************)
(* A worker claims a batch.  The tokens are new, so every older claim of   *)
(* the events is no longer owned, and no delivery was counted for them.    *)
(***************************************************************************)
LEMMA ClaimKeepsInv ==
    ASSUME IInv, TypeOK', NEW w \in Workers, NEW es \in SUBSET Events, ClaimDue(w, es)
    PROVE  IInv'
<1> USE DEF IInv
<1> DEFINE token == CHOOSE f \in FreshTokens(es) : TRUE
           new == {[event |-> e, token |-> token[e], todo |-> PendingConsumers(e)] : e \in es}
<1>1. /\ \A e \in es : token[e] \in Tokens /\ token[e] \notin TokensInUse
      /\ \A d, e \in es : token[d] = token[e] => d = e
  BY FreshTokensChosen DEF ClaimDue
<1>2. /\ event' = [e \in Events |->
                      IF e \in es
                      THEN [event[e] EXCEPT !.status = "PROCESSING", !.token = token[e],
                                            !.stale = FALSE]
                      ELSE event[e]]
      /\ batch' = [batch EXCEPT ![w] = new]
  BY DEF ClaimDue
<1>3. /\ ~Active(w) /\ UNCHANGED <<delivery, work, sent>>
      /\ \A e \in es : event[e].status \in {"PENDING", "PROCESSING"}
  BY DEF ClaimDue, Claimable
<1> HIDE DEF token
<1>4. \A e \in es : event'[e].status = "PROCESSING" /\ event'[e].token = token[e]
  <2>1. \A e \in es : event[e] \in EventRow
    BY DEF TypeOK
  <2>2. QED
    BY <1>2, <2>1 DEF EventRow
<1>5. \A e \in Events \ es : event'[e] = event[e]
  BY <1>2
<1>6. batch'[w] = new /\ \A v \in Workers \ {w} : batch'[v] = batch[v]
  BY <1>2 DEF TypeOK
<1>7. \A k \in new : /\ k.event \in es
                    /\ k.token = token[k.event]
                    /\ k.todo = PendingConsumers(k.event)
  OBVIOUS
<1>8. \A j, k \in new : j.event = k.event => j = k
  OBVIOUS
<1>9. \A v \in Workers : \A k \in batch[v] : k.event \in Events /\ k.token \in TokensInUse
  <2> SUFFICES ASSUME NEW v \in Workers, NEW k \in batch[v]
               PROVE  k.event \in Events /\ k.token \in TokensInUse
    OBVIOUS
  <2>1. k.token \in {j.token : j \in batch[v]}
    OBVIOUS
  <2>2. k.token \in UNION {{j.token : j \in batch[x]} : x \in Workers}
    BY <2>1
  <2>3. k.token \in TokensInUse
    BY <2>2 DEF TokensInUse
  <2>4. k \in Claim
    BY DEF TypeOK
  <2>5. QED
    BY <2>3, <2>4 DEF Claim
<1>10. \A v \in Workers : Active(v) => work[v].event \in Events /\ work[v].token \in TokensInUse
  <2> SUFFICES ASSUME NEW v \in Workers, Active(v)
               PROVE  work[v].event \in Events /\ work[v].token \in TokensInUse
    OBVIOUS
  <2>1. work[v].token \in {work[x].token : x \in {y \in Workers : Active(y)}}
    OBVIOUS
  <2>2. work[v].token \in TokensInUse
    BY <2>1 DEF TokensInUse
  <2>3. work[v].event \in Events
    BY DEF TypeOK
  <2>4. QED
    BY <2>2, <2>3
<1>11. \A e \in Events, c \in Consumers : delivery[e][c].last \in TokensInUse
  BY DEF TokensInUse
<1> HIDE DEF new
<1>12. TokensDiffer'
  <2>1. ASSUME NEW v \in Workers, NEW x \in Workers, NEW j \in batch'[v], NEW k \in batch'[x],
               j.token = k.token
        PROVE  v = x /\ j = k
    <3>1. CASE v = w /\ x = w
      BY <2>1, <3>1, <1>1, <1>6, <1>7, <1>8
    <3>2. CASE v = w /\ x # w
      BY <2>1, <3>2, <1>1, <1>6, <1>7, <1>9
    <3>3. CASE v # w /\ x = w
      BY <2>1, <3>3, <1>1, <1>6, <1>7, <1>9
    <3>4. CASE v # w /\ x # w
      BY <2>1, <3>4, <1>6 DEF ClaimInv, TokensDiffer
    <3>5. QED
      BY <3>1, <3>2, <3>3, <3>4
  <2>2. ASSUME NEW v \in Workers, NEW x \in Workers, NEW k \in batch'[v], Active(x)
        PROVE  k.token # work[x].token
    <3>1. CASE v = w
      BY <2>2, <3>1, <1>1, <1>6, <1>7, <1>10
    <3>2. CASE v # w
      BY <2>2, <3>2, <1>6 DEF ClaimInv, TokensDiffer
    <3>3. QED
      BY <3>1, <3>2
  <2>3. \A v, x \in Workers :
           Active(v) /\ Active(x) /\ work[v].token = work[x].token => v = x
    BY DEF ClaimInv, TokensDiffer
  <2>4. QED
    BY <2>1, <2>2, <2>3, <1>3 DEF TokensDiffer, Active
<1>13. BatchIsSound'
  <2> SUFFICES ASSUME NEW v \in Workers, NEW k \in batch'[v]
               PROVE  /\ event'[k.event].status # "ABSENT"
                      /\ k.todo \subseteq ConsumersOf[k.event]
    BY DEF BatchIsSound
  <2>1. CASE v = w
    <3>1. k \in new
      BY <2>1, <1>6
    <3>2. k.event \in es /\ k.event \in Events /\ k.todo = PendingConsumers(k.event)
      BY <3>1, <1>7
    <3>3. PendingConsumers(k.event) \subseteq ConsumersOf[k.event]
      BY <3>2 DEF PendingConsumers, RowInv, RowsMatch
    <3>4. QED
      BY <3>2, <3>3, <1>4
  <2>2. CASE v # w
    BY <2>2, <1>4, <1>5, <1>6, <1>9 DEF ClaimInv, BatchIsSound
  <2>3. QED
    BY <2>1, <2>2
<1>14. WorkIsSound'
  BY <1>3, <1>4, <1>5, <1>10 DEF ClaimInv, WorkIsSound, Active
<1>15. RowsMatch'
  BY <1>3, <1>4, <1>5 DEF RowInv, RowsMatch
<1>16. EventMatchesDeliveries'
  BY <1>3, <1>4, <1>5 DEF RowInv, EventMatchesDeliveries, Waiting
<1>17. GivenUpAtLimit'
  BY <1>3 DEF RowInv, GivenUpAtLimit, Waiting
<1>18. OwnedBatchIsCurrent'
  <2> SUFFICES ASSUME NEW v \in Workers, NEW k \in batch'[v],
                      event'[k.event].status = "PROCESSING", event'[k.event].token = k.token,
                      NEW c \in k.todo
               PROVE  delivery[k.event][c].status = "PENDING"
                      /\ delivery[k.event][c].last # k.token
    BY <1>3 DEF OwnedBatchIsCurrent, Owned, Undecided, Waiting
  <2>1. CASE v = w
    <3>1. k \in new
      BY <2>1, <1>6
    <3>2. k.event \in es /\ k.token = token[k.event] /\ c \in PendingConsumers(k.event)
      BY <3>1, <1>7
    <3>3. c \in Consumers /\ delivery[k.event][c].status = "PENDING"
      BY <3>2 DEF PendingConsumers
    <3>4. QED
      BY <3>2, <3>3, <1>1, <1>11
  <2>2. CASE v # w
    <3>1. k \in batch[v]
      BY <2>2, <1>6
    <3>2. k.event \in Events \ es
      BY <3>1, <1>1, <1>4, <1>9
    <3>3. QED
      BY <3>1, <3>2, <1>5 DEF CurrentInv, OwnedBatchIsCurrent, Owned, Undecided, Waiting
  <2>3. QED
    BY <2>1, <2>2
<1>19. OwnedWorkIsCurrent'
  <2>1. \A v \in Workers : Active(v) /\ event'[work[v].event].token = work[v].token
                             => work[v].event \in Events \ es
    BY <1>1, <1>4, <1>10
  <2>2. \A v \in Workers : Active(v) /\ Owned(work[v].event, work[v].token)'
                             => Owned(work[v].event, work[v].token)
    BY <2>1, <1>3, <1>5 DEF Owned
  <2>3. QED
    BY <2>2, <1>3 DEF CurrentInv, OwnedWorkIsCurrent, Owned, Undecided, Waiting, Active
<1>20. QED
  BY <1>12, <1>13, <1>14, <1>15, <1>16, <1>17, <1>18, <1>19 DEF ClaimInv, RowInv, CurrentInv

-----------------------------------------------------------------------------
LEMMA InvStep == IInv /\ [Next]_vars => IInv'
<1> SUFFICES ASSUME IInv, [Next]_vars PROVE IInv'
  OBVIOUS
<1>1. TypeOK /\ TypeOK'
  BY TypeStep DEF IInv
<1>2. ASSUME NEW e \in Events, Enqueue(e) PROVE IInv'
  BY <1>1, <1>2, EnqueueKeepsInv
<1>3. ASSUME NEW e \in Events, RetryFailed(e) PROVE IInv'
  BY <1>1, <1>3, RetryKeepsInv
<1>4. ASSUME NEW w \in Workers, NEW es \in SUBSET Events, ClaimDue(w, es) PROVE IInv'
  BY <1>1, <1>4, ClaimKeepsInv
<1>5. ASSUME NEW w \in Workers, NEW k \in batch[w], StartClaim(w, k) PROVE IInv'
  BY <1>1, <1>5, StartKeepsInv
<1>6. ASSUME NEW w \in Workers, NEW c \in Consumers, NEW ok \in BOOLEAN,
             NEW reached \in BOOLEAN, Dispatch(w, c, ok, reached)
      PROVE  IInv'
  BY <1>1, <1>6, DispatchKeepsInv
<1>7. ASSUME NEW w \in Workers, NEW r \in work[w].result, Acknowledge(w, r) PROVE IInv'
  BY <1>1, <1>7, AcknowledgeKeepsInv
<1>8. ASSUME NEW w \in Workers, FinishAttempt(w) PROVE IInv'
  BY <1>1, <1>8, FinishKeepsInv
<1>9. CASE \/ \E e \in Events : LeaseExpires(e) \/ BackoffEnds(e)
           \/ \E w \in Workers : \/ Abandon(w) \/ Heartbeat(w)
                                \/ HeartbeatFails(w) \/ Crash(w)
           \/ UNCHANGED vars
  BY <1>1, <1>9, ForgettingActions, ForgettingKeepsInv
<1>10. QED
  BY <1>2, <1>3, <1>4, <1>5, <1>6, <1>7, <1>8, <1>9 DEF Next, WorkerStep

(***************************************************************************)
(* The inductive invariant holds in every state that the outbox reaches,   *)
(* whatever its workers, crashes, expired leases and retries.              *)
(***************************************************************************)
THEOREM Invariance == Spec => []IInv
<1>1. QED
  BY InvInit, InvStep, PTL DEF Spec

(***************************************************************************)
(* While a worker owns its claim, nobody else decides about what it still  *)
(* has in hand.                                                            *)
(***************************************************************************)
THEOREM OwnedClaimsStayCurrent == Spec => []OwnedClaimsAreCurrent
<1>1. IInv => OwnedClaimsAreCurrent
  BY DEF IInv, CurrentInv, OwnedClaimsAreCurrent
<1>2. QED
  BY <1>1, Invariance, PTL

(***************************************************************************)
(* Events are closed only over settled deliveries.                         *)
(***************************************************************************)
THEOREM ClosedOverSettled == Spec => []EventMatchesDeliveries
<1>1. IInv => EventMatchesDeliveries
  BY DEF IInv, RowInv
<1>2. QED
  BY <1>1, Invariance, PTL

-----------------------------------------------------------------------------
(***************************************************************************)
(* What a step can make of the row of a delivery.                          *)
(***************************************************************************)
Succeeds(e, c) ==
    /\ delivery[e][c].status = "PENDING"
    /\ delivery'[e][c] = [delivery[e][c] EXCEPT !.status = "PROCESSED", !.last = event[e].token]

IsEnqueued(e, c) ==
    /\ event[e].status = "ABSENT"
    /\ delivery'[e][c] \in
          {AbsentDelivery, [status |-> "PENDING", attempts |-> 0, last |-> NoToken]}

RowStep(e, c) ==
    \/ delivery'[e][c] = delivery[e][c]
    \/ IsEnqueued(e, c) \/ Succeeds(e, c) \/ CountsFailure(e, c) \/ StartsCountAgain(e, c)

LEMMA EnqueueIsRowStep ==
    ASSUME IInv, NEW d \in Events, Enqueue(d), NEW e \in Events, NEW c \in Consumers
    PROVE  RowStep(e, c)
<1>1. delivery \in [Events -> [Consumers -> DeliveryRow]]
  BY DEF IInv, TypeOK
<1>2. /\ event[d].status = "ABSENT"
      /\ delivery' = [delivery EXCEPT ![d] =
                        [b \in Consumers |->
                           IF b \in ConsumersOf[d]
                           THEN [status |-> "PENDING", attempts |-> 0, last |-> NoToken]
                           ELSE AbsentDelivery]]
  BY DEF Enqueue
<1>3. CASE e = d
  BY <1>1, <1>2, <1>3 DEF RowStep, IsEnqueued
<1>4. CASE e # d
  BY <1>1, <1>2, <1>4 DEF RowStep
<1> QED
  BY <1>3, <1>4

LEMMA RetryIsRowStep ==
    ASSUME IInv, NEW d \in Events, RetryFailed(d), NEW e \in Events, NEW c \in Consumers
    PROVE  RowStep(e, c)
<1>1. delivery \in [Events -> [Consumers -> DeliveryRow]]
  BY DEF IInv, TypeOK
<1>2. /\ event[d].status = "FAILED"
      /\ delivery' = [delivery EXCEPT ![d] =
                        [b \in Consumers |->
                           IF delivery[d][b].status = "FAILED"
                           THEN [delivery[d][b] EXCEPT !.status = "PENDING", !.attempts = 0]
                           ELSE delivery[d][b]]]
  BY DEF RetryFailed
<1>3. CASE e = d
  <2>1. delivery'[e][c] = IF delivery[e][c].status = "FAILED"
                          THEN [delivery[e][c] EXCEPT !.status = "PENDING", !.attempts = 0]
                          ELSE delivery[e][c]
    BY <1>1, <1>2, <1>3
  <2> QED
    BY <1>2, <1>3, <2>1 DEF RowStep, StartsCountAgain
<1>4. CASE e # d
  BY <1>1, <1>2, <1>4 DEF RowStep
<1> QED
  BY <1>3, <1>4

(***************************************************************************)
(* The result that a worker reports under a valid claim is about a pending *)
(* delivery below the limit that was not counted for the claim.            *)
(***************************************************************************)
LEMMA AcknowledgeIsRowStep ==
    ASSUME IInv, NEW w \in Workers, NEW r \in work[w].result, Acknowledge(w, r),
           NEW e \in Events, NEW c \in Consumers
    PROVE  RowStep(e, c)
<1> DEFINE d == work[w].event
           t == work[w].token
           row == delivery[d][r.to]
<1>1. /\ delivery \in [Events -> [Consumers -> DeliveryRow]]
      /\ work[w] \in Work /\ Active(w) /\ d \in Events
  BY DEF IInv, TypeOK, Acknowledge
<1>2. r.to \in Consumers
  BY <1>1 DEF Work, Result
<1>3. CASE ~Owned(d, t)
  BY <1>3 DEF Acknowledge, RowStep
<1>4. CASE Owned(d, t)
  <2>1. delivery' = [delivery EXCEPT ![d][r.to] = Acknowledged(@, t, r.ok)]
    BY <1>4 DEF Acknowledge
  <2>2. delivery'[d][r.to] = Acknowledged(row, t, r.ok)
    BY <1>1, <1>2, <2>1
  <2>3. \A f \in Events, b \in Consumers :
           f # d \/ b # r.to => delivery'[f][b] = delivery[f][b]
    BY <1>1, <2>1
  <2>4. event[d].status = "PROCESSING" /\ event[d].token = t
    BY <1>4 DEF Owned
  <2>5. row.status = "PENDING" /\ row.last # t
    BY <1>1, <1>4 DEF IInv, CurrentInv, OwnedWorkIsCurrent, Undecided, Waiting
  <2>6. row \in DeliveryRow /\ row.attempts < MaxAttempts
    BY <1>1, <1>2, <2>5 DEF IInv, RowInv, GivenUpAtLimit, Waiting
  <2>7. row.attempts + 1 >= MaxAttempts <=> row.attempts + 1 = MaxAttempts
    BY <2>6, NumbersAssumption DEF DeliveryRow
  <2>8. CASE r.ok
    <3>1. Succeeds(d, r.to)
      BY <2>2, <2>4, <2>5, <2>8 DEF Succeeds, Acknowledged
    <3> QED
      BY <2>3, <3>1 DEF RowStep
  <2>9. CASE ~r.ok
    <3>1. delivery'[d][r.to] =
            [status   |-> IF row.attempts + 1 = MaxAttempts THEN "FAILED" ELSE "PENDING",
             attempts |-> row.attempts + 1,
             last     |-> t]
      BY <2>2, <2>5, <2>7, <2>9 DEF Acknowledged
    <3>2. CountsFailure(d, r.to)
      BY <1>1, <2>3, <2>4, <2>5, <3>1 DEF CountsFailure
    <3> QED
      BY <2>3, <3>2 DEF RowStep
  <2> QED
    BY <2>8, <2>9
<1> QED
  BY <1>3, <1>4

LEMMA NextIsRowStep ==
    ASSUME IInv, [Next]_vars, NEW e \in Events, NEW c \in Consumers
    PROVE  RowStep(e, c)
<1>1. ASSUME NEW d \in Events, Enqueue(d) PROVE RowStep(e, c)
  BY <1>1, EnqueueIsRowStep
<1>2. ASSUME NEW d \in Events, RetryFailed(d) PROVE RowStep(e, c)
  BY <1>2, RetryIsRowStep
<1>3. ASSUME NEW w \in Workers, NEW r \in work[w].result, Acknowledge(w, r)
      PROVE  RowStep(e, c)
  BY <1>3, AcknowledgeIsRowStep
<1>4. ASSUME delivery' = delivery PROVE RowStep(e, c)
  BY <1>4 DEF RowStep
<1>5. CASE UNCHANGED vars
  BY <1>4, <1>5 DEF vars
<1>6. ASSUME NEW d \in Events, LeaseExpires(d) \/ BackoffEnds(d) PROVE RowStep(e, c)
  BY <1>4, <1>6 DEF LeaseExpires, BackoffEnds
<1>7. ASSUME NEW w \in Workers,
             \/ \E es \in SUBSET Events : ClaimDue(w, es)
             \/ \E k \in batch[w] : StartClaim(w, k)
             \/ \E b \in Consumers, ok, reached \in BOOLEAN : Dispatch(w, b, ok, reached)
             \/ Abandon(w) \/ FinishAttempt(w)
             \/ Heartbeat(w) \/ HeartbeatFails(w) \/ Crash(w)
      PROVE  RowStep(e, c)
  BY <1>4, <1>7
     DEF ClaimDue, StartClaim, Dispatch, Abandon, FinishAttempt, Heartbeat, HeartbeatFails, Crash
<1> QED
  BY <1>1, <1>2, <1>3, <1>5, <1>6, <1>7 DEF Next, WorkerStep

(***************************************************************************)
(* A delivery that was not enqueued has counted nothing.                   *)
(***************************************************************************)
NothingCounted ==
    \A e \in Events, c \in Consumers :
       delivery[e][c].status = "ABSENT" => delivery[e][c] = AbsentDelivery

LEMMA NothingCountedStep == IInv /\ NothingCounted /\ [Next]_vars => NothingCounted'
<1> SUFFICES ASSUME IInv, NothingCounted, [Next]_vars,
                    NEW e \in Events, NEW c \in Consumers, delivery'[e][c].status = "ABSENT"
             PROVE  delivery'[e][c] = AbsentDelivery
  BY DEF NothingCounted
<1>1. delivery[e][c] \in DeliveryRow
  BY DEF IInv, TypeOK
<1>2. RowStep(e, c)
  BY NextIsRowStep
<1>3. CASE delivery'[e][c] = delivery[e][c]
  BY <1>3 DEF NothingCounted
<1>4. CASE IsEnqueued(e, c)
  BY <1>4 DEF IsEnqueued
<1>5. ~Succeeds(e, c)
  BY <1>1 DEF Succeeds, DeliveryRow
<1>6. ~CountsFailure(e, c)
  BY DEF CountsFailure
<1>7. ~StartsCountAgain(e, c)
  BY <1>1 DEF StartsCountAgain, DeliveryRow
<1> QED
  BY <1>2, <1>3, <1>4, <1>5, <1>6, <1>7 DEF RowStep

FailuresCountedOnce(e, c) ==
    LET old == delivery[e][c]
        new == delivery'[e][c]
    IN  /\ \/ new.attempts # old.attempts
           \/ new.status = "FAILED" /\ old.status # "FAILED"
           => CountsFailure(e, c) \/ StartsCountAgain(e, c)
        /\ new.last # old.last => new.last = event[e].token

LEMMA FailuresStep ==
    ASSUME IInv, NothingCounted, [Next]_vars, NEW e \in Events, NEW c \in Consumers
    PROVE  FailuresCountedOnce(e, c)
<1>1. delivery[e][c] \in DeliveryRow
  BY DEF IInv, TypeOK
<1>2. RowStep(e, c)
  BY NextIsRowStep
<1>3. CASE delivery'[e][c] = delivery[e][c]
  BY <1>3 DEF FailuresCountedOnce
<1>4. CASE IsEnqueued(e, c)
  <2>1. delivery[e][c].status = "ABSENT"
    BY <1>4 DEF IsEnqueued, IInv, RowInv, RowsMatch
  <2>2. delivery[e][c] = AbsentDelivery
    BY <2>1 DEF NothingCounted
  <2> QED
    BY <1>4, <2>2 DEF IsEnqueued, AbsentDelivery, FailuresCountedOnce
<1>5. CASE Succeeds(e, c)
  <2>1. /\ delivery'[e][c].status = "PROCESSED" /\ delivery'[e][c].last = event[e].token
        /\ delivery'[e][c].attempts = delivery[e][c].attempts
    BY <1>1, <1>5 DEF Succeeds, DeliveryRow
  <2> QED
    BY <2>1 DEF FailuresCountedOnce
<1>6. CASE CountsFailure(e, c)
  <2>1. delivery'[e][c].last = event[e].token
    BY <1>6 DEF CountsFailure
  <2> QED
    BY <1>6, <2>1 DEF FailuresCountedOnce
<1>7. CASE StartsCountAgain(e, c)
  <2>1. delivery'[e][c].last = delivery[e][c].last
    BY <1>1, <1>7 DEF StartsCountAgain, DeliveryRow
  <2> QED
    BY <1>7, <2>1 DEF FailuresCountedOnce
<1> QED
  BY <1>2, <1>3, <1>4, <1>5, <1>6, <1>7 DEF RowStep

(***************************************************************************)
(* A failure is counted once, for the claim that holds the event, and the  *)
(* MaxAttempts-th is the one that gives a delivery up: for any number of   *)
(* consumers and workers, and whatever those that lost their claims        *)
(* report.                                                                 *)
(***************************************************************************)
THEOREM FailuresAreCounted == Spec => FailuresCountOnce
<1>1. Init => NothingCounted
  BY DEF Init, NothingCounted
<1>2. IInv /\ NothingCounted /\ [Next]_vars =>
        [\A e \in Events, c \in Consumers : FailuresCountedOnce(e, c)]_vars
  BY FailuresStep
<1>3. [\A e \in Events, c \in Consumers : FailuresCountedOnce(e, c)]_vars =>
        [\A e \in Events, c \in Consumers :
           LET old == delivery[e][c]
               new == delivery'[e][c]
           IN  /\ \/ new.attempts # old.attempts
                  \/ new.status = "FAILED" /\ old.status # "FAILED"
                  => CountsFailure(e, c) \/ StartsCountAgain(e, c)
               /\ new.last # old.last => new.last = event[e].token]_vars
  BY DEF FailuresCountedOnce
<1> QED
  BY <1>1, <1>2, <1>3, Invariance, NothingCountedStep, PTL DEF Spec, FailuresCountOnce

-----------------------------------------------------------------------------
(***************************************************************************)
(* Outbox implements DeliveryPromise: every initial state is one of the    *)
(* promise, and every step from a state of the inductive invariant is a    *)
(* step of the promise or leaves it unchanged.                             *)
(***************************************************************************)
AbsOutcome == [e \in Events |-> Outcome(event[e].status)]
AbsPromise == [e \in Events |-> [c \in Consumers |-> PromiseOf(delivery[e][c].status)]]

-----------------------------------------------------------------------------
(***************************************************************************)
(* What a change of the rows is, seen from the promise.                    *)
(***************************************************************************)
LEMMA SameOutcome ==
    ASSUME \A e \in Events : Outcome(event'[e].status) = Outcome(event[e].status)
    PROVE  AbsOutcome' = AbsOutcome
  BY DEF AbsOutcome

LEMMA SamePromise ==
    ASSUME \A e \in Events, c \in Consumers :
              PromiseOf(delivery'[e][c].status) = PromiseOf(delivery[e][c].status)
    PROVE  AbsPromise' = AbsPromise
  BY DEF AbsPromise

LEMMA OneOutcome ==
    ASSUME NEW d \in Events,
           \A e \in Events \ {d} : event'[e].status = event[e].status
    PROVE  AbsOutcome' = [AbsOutcome EXCEPT ![d] = Outcome(event'[d].status)]
  BY DEF AbsOutcome

LEMMA OnePromise ==
    ASSUME NEW d \in Events,
           \A e \in Events \ {d} : delivery'[e] = delivery[e],
           NEW ps,
           ps = [c \in Consumers |-> PromiseOf(delivery'[d][c].status)]
    PROVE  AbsPromise' = [AbsPromise EXCEPT ![d] = ps]
  BY DEF AbsPromise

LEMMA OneConsumersPromise ==
    ASSUME NEW d \in Events, NEW b \in Consumers,
           \A e \in Events, c \in Consumers :
              e # d \/ c # b => delivery'[e][c].status = delivery[e][c].status
    PROVE  AbsPromise' = [AbsPromise EXCEPT ![d][b] = PromiseOf(delivery'[d][b].status)]
  BY DEF AbsPromise

-----------------------------------------------------------------------------
LEMMA InitRefines == Init => Promise!Init
  BY DEF Init, Promise!Init, Outcome, PromiseOf, AbsentEvent, AbsentDelivery

LEMMA EnqueueRefines ==
    ASSUME IInv, NEW e \in Events, Enqueue(e)
    PROVE  Promise!Accept(e)
<1>1. event[e].status = "ABSENT" /\ UNCHANGED sent
  BY DEF Enqueue
<1>2. /\ event'[e].status = "PENDING"
      /\ \A d \in Events \ {e} : event'[d] = event[d]
  BY DEF Enqueue, IInv, TypeOK
<1>3. /\ \A c \in Consumers : delivery'[e][c].status =
                                 IF c \in ConsumersOf[e] THEN "PENDING" ELSE "ABSENT"
      /\ \A d \in Events \ {e} : delivery'[d] = delivery[d]
  BY DEF Enqueue, IInv, TypeOK, AbsentDelivery
<1>4. AbsOutcome' = [AbsOutcome EXCEPT ![e] = "open"]
  BY <1>2, OneOutcome DEF Outcome
<1>5. AbsPromise' = [AbsPromise EXCEPT ![e] =
                        [c \in Consumers |-> IF c \in ConsumersOf[e] THEN "owed" ELSE "none"]]
  <2>1. [c \in Consumers |-> IF c \in ConsumersOf[e] THEN "owed" ELSE "none"]
           = [c \in Consumers |-> PromiseOf(delivery'[e][c].status)]
    BY <1>3 DEF PromiseOf
  <2>2. QED
    BY <1>3, <2>1, OnePromise
<1>6. AbsOutcome[e] = "none"
  BY <1>1 DEF AbsOutcome, Outcome
<1>7. QED
  BY <1>1, <1>4, <1>5, <1>6 DEF Promise!Accept, AbsOutcome, AbsPromise

LEMMA DispatchRefines ==
    ASSUME IInv, NEW w \in Workers, NEW c \in Consumers, NEW ok \in BOOLEAN,
           NEW reached \in BOOLEAN, Dispatch(w, c, ok, reached)
    PROVE  Promise!Tell(work[w].event, c) \/ UNCHANGED Promise!vars
<1> DEFINE e == work[w].event
<1>1. Active(w) /\ c \in work[w].todo /\ UNCHANGED <<event, delivery>>
  BY DEF Dispatch
<1>2. e \in Events /\ event[e].status # "ABSENT" /\ c \in ConsumersOf[e]
  BY <1>1 DEF IInv, TypeOK, ClaimInv, WorkIsSound
<1>3. sent' = [sent EXCEPT ![e] = IF reached THEN @ \cup {c} ELSE @]
  BY DEF Dispatch
<1>4. sent \in [Events -> SUBSET Consumers] /\ event[e].status \in EventStatuses
  BY <1>2 DEF IInv, TypeOK, EventRow
<1> HIDE DEF e
<1>5. AbsOutcome' = AbsOutcome /\ AbsPromise' = AbsPromise
  BY <1>1 DEF AbsOutcome, AbsPromise
<1>6. CASE reached
  <2>1. AbsOutcome[e] # "none"
    BY <1>2, <1>4 DEF AbsOutcome, Outcome, EventStatuses
  <2>2. sent' = [sent EXCEPT ![e] = @ \cup {c}]
    BY <1>3, <1>6
  <2>3. Promise!Tell(e, c)
    BY <1>2, <1>5, <2>1, <2>2 DEF Promise!Tell, AbsOutcome, AbsPromise
  <2>4. QED
    BY <2>3 DEF e
<1>7. CASE ~reached
  <2>1. sent' = sent
    BY <1>2, <1>3, <1>4, <1>7
  <2>2. QED
    BY <1>5, <2>1 DEF Promise!vars, AbsOutcome, AbsPromise
<1>8. QED
  BY <1>6, <1>7

LEMMA AcknowledgeRefines ==
    ASSUME IInv, NEW w \in Workers, NEW r \in work[w].result, Acknowledge(w, r)
    PROVE  \/ Promise!Keep(work[w].event, r.to)
           \/ Promise!GiveUp(work[w].event, r.to)
           \/ UNCHANGED Promise!vars
<1> DEFINE e == work[w].event
           t == work[w].token
           c == r.to
<1>1. Active(w) /\ UNCHANGED <<event, sent>>
  BY DEF Acknowledge
<1>2. r \in Result
  BY DEF IInv, TypeOK, Work
<1>3. /\ e \in Events /\ c \in Consumers /\ r.ok \in BOOLEAN
      /\ c \in ConsumersOf[e]
      /\ r.ok => c \in sent[e]
  BY <1>1, <1>2 DEF IInv, TypeOK, ClaimInv, WorkIsSound, Result
<1>4. delivery \in [Events -> [Consumers -> DeliveryRow]]
  BY DEF IInv, TypeOK
<1>5. AbsOutcome' = AbsOutcome
  BY <1>1 DEF AbsOutcome
<1>6. CASE ~Owned(e, t)
  <2>1. UNCHANGED delivery
    BY <1>6 DEF Acknowledge
  <2>2. AbsPromise' = AbsPromise
    BY <2>1 DEF AbsPromise
  <2>3. QED
    BY <1>1, <1>5, <2>2 DEF Promise!vars, AbsOutcome, AbsPromise
<1>7. CASE Owned(e, t)
  <2>1. delivery' = [delivery EXCEPT ![e][c] = Acknowledged(@, t, r.ok)]
    BY <1>7 DEF Acknowledge
  <2>2. Undecided(e, t, {c})
    BY <1>1, <1>7 DEF IInv, CurrentInv, OwnedWorkIsCurrent
  <2>3. delivery[e][c].status = "PENDING" /\ delivery[e][c].last # t
    BY <2>2 DEF Undecided, Waiting
  <2> DEFINE row == delivery[e][c]
             new == Acknowledged(row, t, r.ok)
  <2>4. row \in DeliveryRow
    BY <1>3, <1>4
  <2>5. event[e].status = "PROCESSING"
    BY <1>7 DEF Owned
  <2> HIDE DEF e, t, c
  <2>6. /\ delivery'[e][c] = new
        /\ \A d \in Events, b \in Consumers :
              d # e \/ b # c => delivery'[d][b] = delivery[d][b]
    BY <1>3, <1>4, <2>1
  <2>7. /\ r.ok => new.status = "PROCESSED"
        /\ ~r.ok => new.status \in {"FAILED", "PENDING"}
    BY <2>3, <2>4, <1>3 DEF Acknowledged, DeliveryRow
  <2> HIDE DEF row, new
  <2>8. AbsPromise' = [AbsPromise EXCEPT ![e][c] = PromiseOf(delivery'[e][c].status)]
    <3>1. \A d \in Events, b \in Consumers :
             d # e \/ b # c => delivery'[d][b].status = delivery[d][b].status
      BY <2>6
    <3>2. e \in Events /\ c \in Consumers
      BY <1>3
    <3>3. QED
      BY <3>1, <3>2, OneConsumersPromise
  <2>9. AbsOutcome[e] = "open" /\ AbsPromise[e][c] = "owed"
    BY <1>3, <2>3, <2>5 DEF AbsOutcome, AbsPromise, Outcome, PromiseOf
  <2>10. CASE r.ok
    <3>1. AbsPromise' = [AbsPromise EXCEPT ![e][c] = "kept"]
      BY <2>6, <2>7, <2>8, <2>10 DEF PromiseOf
    <3>2. Promise!Keep(e, c)
      BY <1>1, <1>3, <1>5, <2>9, <2>10, <3>1 DEF Promise!Keep, AbsOutcome, AbsPromise
    <3>3. QED
      BY <3>2 DEF e, c
  <2>11. CASE ~r.ok /\ new.status = "FAILED"
    <3>1. AbsPromise' = [AbsPromise EXCEPT ![e][c] = "given up"]
      BY <2>6, <2>8, <2>11 DEF PromiseOf
    <3>2. Promise!GiveUp(e, c)
      BY <1>1, <1>5, <2>9, <3>1 DEF Promise!GiveUp, AbsOutcome, AbsPromise
    <3>3. QED
      BY <3>2 DEF e, c
  <2>12. CASE ~r.ok /\ new.status = "PENDING"
    <3>1. \A d \in Events, b \in Consumers : delivery'[d][b].status = delivery[d][b].status
      BY <2>3, <2>6, <2>12
    <3>2. AbsPromise' = AbsPromise
      BY <3>1, SamePromise
    <3>3. QED
      BY <1>1, <1>5, <3>2 DEF Promise!vars, AbsOutcome, AbsPromise
  <2>13. QED
    BY <1>3, <2>7, <2>10, <2>11, <2>12
<1>8. QED
  BY <1>6, <1>7

LEMMA FinishRefines ==
    ASSUME IInv, NEW w \in Workers, FinishAttempt(w)
    PROVE  Promise!Close(work[w].event) \/ UNCHANGED Promise!vars
<1> DEFINE e == work[w].event
<1>1. /\ e \in Events
      /\ event[e].status # "ABSENT"
      /\ UNCHANGED <<delivery, sent>>
  BY DEF FinishAttempt, IInv, TypeOK, ClaimInv, WorkIsSound
<1>2. AbsPromise' = AbsPromise
  BY <1>1 DEF AbsPromise
<1>3. CASE ~Owned(e, work[w].token)
  <2>1. UNCHANGED event
    BY <1>3 DEF FinishAttempt
  <2>2. AbsOutcome' = AbsOutcome
    BY <2>1 DEF AbsOutcome
  <2>3. QED
    BY <1>1, <1>2, <2>2 DEF Promise!vars, AbsOutcome, AbsPromise
<1>4. CASE Owned(e, work[w].token)
  <2>1. event' = [event EXCEPT ![e] = [status |-> FinalStatus(e), token |-> NoToken,
                                       due |-> FinalStatus(e) # "PENDING", stale |-> FALSE]]
    BY <1>4 DEF FinishAttempt
  <2>2. event \in [Events -> EventRow]
    BY DEF IInv, TypeOK
  <2>3. event'[e].status = FinalStatus(e) /\ \A d \in Events \ {e} : event'[d] = event[d]
    BY <1>1, <2>1, <2>2
  <2>4. event[e].status = "PROCESSING"
    BY <1>4 DEF Owned
  <2>5. /\ FinalStatus(e) \in {"PENDING", "FAILED", "PROCESSED"}
        /\ FinalStatus(e) = "PROCESSED" =>
              \A c \in ConsumersOf[e] : delivery[e][c].status = "PROCESSED"
        /\ FinalStatus(e) = "FAILED" =>
              /\ \A c \in ConsumersOf[e] : ~Waiting(e, c)
              /\ \E c \in ConsumersOf[e] : delivery[e][c].status = "FAILED"
    BY <1>1, FinalStatusIsRight
  <2>6. \A c \in ConsumersOf[e] : /\ c \in Consumers
                                  /\ delivery[e][c].status \in DeliveryStatuses
                                  /\ delivery[e][c].status # "ABSENT"
    <3>1. ConsumersOf[e] \subseteq Consumers
      BY <1>1, ConsumersOfAssumption
    <3>2. QED
      BY <1>1, <3>1 DEF IInv, TypeOK, DeliveryRow, RowInv, RowsMatch
  <2> HIDE DEF e
  <2>7. AbsOutcome' = [AbsOutcome EXCEPT ![e] = Outcome(FinalStatus(e))]
    <3>1. AbsOutcome' = [AbsOutcome EXCEPT ![e] = Outcome(event'[e].status)]
      BY <1>1, <2>3, OneOutcome
    <3>2. QED
      BY <2>3, <3>1
  <2>8. AbsOutcome[e] = "open"
    BY <1>1, <2>4 DEF AbsOutcome, Outcome
  <2>9. CASE FinalStatus(e) = "PENDING"
    <3>1. \A d \in Events : Outcome(event'[d].status) = Outcome(event[d].status)
      BY <2>3, <2>4, <2>9 DEF Outcome
    <3>2. AbsOutcome' = AbsOutcome
      BY <3>1, SameOutcome
    <3>3. QED
      BY <1>1, <1>2, <3>2 DEF Promise!vars, AbsOutcome, AbsPromise
  <2>10. CASE FinalStatus(e) # "PENDING"
    <3>1. \A c \in ConsumersOf[e] : delivery[e][c].status # "PENDING"
      BY <2>5, <2>10 DEF Waiting
    <3>2. \A c \in ConsumersOf[e] : AbsPromise[e][c] # "owed"
      BY <1>1, <2>6, <3>1 DEF AbsPromise, PromiseOf, DeliveryStatuses
    <3>3. \A c \in ConsumersOf[e] :
             AbsPromise[e][c] = "kept" <=> delivery[e][c].status = "PROCESSED"
      BY <1>1, <2>6 DEF AbsPromise, PromiseOf, DeliveryStatuses
    <3>4. (\A c \in ConsumersOf[e] : AbsPromise[e][c] = "kept")
             <=> FinalStatus(e) = "PROCESSED"
      BY <2>5, <2>10, <3>3
    <3>5. Outcome(FinalStatus(e)) = IF \A c \in ConsumersOf[e] : AbsPromise[e][c] = "kept"
                                    THEN "kept" ELSE "broken"
      BY <2>5, <2>10, <3>4 DEF Outcome
    <3>6. Promise!Close(e)
      BY <1>1, <1>2, <2>7, <2>8, <3>2, <3>5 DEF Promise!Close, AbsOutcome, AbsPromise
    <3>7. QED
      BY <3>6 DEF e
  <2>11. QED
    BY <2>9, <2>10
<1>5. QED
  BY <1>3, <1>4

LEMMA RetryRefines ==
    ASSUME IInv, NEW e \in Events, RetryFailed(e)
    PROVE  Promise!Reopen(e)
<1>1. event[e].status = "FAILED" /\ UNCHANGED sent
  BY DEF RetryFailed
<1>2. /\ event'[e].status = "PENDING"
      /\ \A d \in Events \ {e} : event'[d] = event[d]
  BY DEF RetryFailed, IInv, TypeOK
<1>3. delivery \in [Events -> [Consumers -> DeliveryRow]]
  BY DEF IInv, TypeOK
<1>4. /\ \A c \in Consumers : delivery'[e][c].status =
            IF delivery[e][c].status = "FAILED" THEN "PENDING" ELSE delivery[e][c].status
      /\ \A d \in Events \ {e} : delivery'[d] = delivery[d]
  <2>1. /\ \A c \in Consumers :
              delivery'[e][c] = IF delivery[e][c].status = "FAILED"
                                THEN [delivery[e][c] EXCEPT !.status = "PENDING", !.attempts = 0]
                                ELSE delivery[e][c]
        /\ \A d \in Events \ {e} : delivery'[d] = delivery[d]
    BY <1>3 DEF RetryFailed
  <2>2. \A q \in DeliveryRow :
           [q EXCEPT !.status = "PENDING", !.attempts = 0].status = "PENDING"
    BY DEF DeliveryRow
  <2>3. ASSUME NEW c \in Consumers
        PROVE  delivery'[e][c].status =
                  IF delivery[e][c].status = "FAILED" THEN "PENDING" ELSE delivery[e][c].status
    <3>1. delivery[e][c] \in DeliveryRow
      BY <1>3
    <3>2. QED
      BY <2>1, <2>2, <3>1
  <2>4. QED
    BY <2>1, <2>3
<1>5. AbsOutcome' = [AbsOutcome EXCEPT ![e] = "open"]
  BY <1>2, OneOutcome DEF Outcome
<1>6. \A c \in Consumers : AbsPromise[e][c] = PromiseOf(delivery[e][c].status)
  BY DEF AbsPromise
<1>7. \A c \in Consumers : delivery[e][c].status \in DeliveryStatuses
  BY <1>3 DEF DeliveryRow
<1>8. [c \in Consumers |-> IF AbsPromise[e][c] = "given up" THEN "owed" ELSE AbsPromise[e][c]]
        = [c \in Consumers |-> PromiseOf(delivery'[e][c].status)]
  <2>1. /\ PromiseOf("PENDING") = "owed" /\ PromiseOf("FAILED") = "given up"
        /\ \A status \in DeliveryStatuses \ {"FAILED"} : PromiseOf(status) # "given up"
    BY DEF PromiseOf, DeliveryStatuses
  <2>2. ASSUME NEW c \in Consumers
        PROVE  (IF AbsPromise[e][c] = "given up" THEN "owed" ELSE AbsPromise[e][c])
                 = PromiseOf(delivery'[e][c].status)
    <3>1. CASE delivery[e][c].status = "FAILED"
      BY <1>4, <1>6, <2>1, <3>1
    <3>2. CASE delivery[e][c].status # "FAILED"
      BY <1>4, <1>6, <1>7, <2>1, <3>2
    <3>3. QED
      BY <3>1, <3>2
  <2>3. QED
    BY <2>2
<1>9. AbsPromise' = [AbsPromise EXCEPT ![e] =
        [c \in Consumers |-> IF AbsPromise[e][c] = "given up" THEN "owed" ELSE AbsPromise[e][c]]]
  BY <1>4, <1>8, OnePromise
<1>10. AbsOutcome[e] = "broken"
  BY <1>1 DEF AbsOutcome, Outcome
<1>11. QED
  BY <1>1, <1>5, <1>9, <1>10 DEF Promise!Reopen, AbsOutcome, AbsPromise

(***************************************************************************)
(* The actions the promise does not see: claims, leases and crashes.       *)
(***************************************************************************)
LEMMA ClaimHidden ==
    ASSUME IInv, NEW w \in Workers, NEW es \in SUBSET Events, ClaimDue(w, es)
    PROVE  UNCHANGED Promise!vars
<1>1. \A e \in Events : Outcome(event'[e].status) = Outcome(event[e].status)
  <2> SUFFICES ASSUME NEW e \in Events
               PROVE  Outcome(event'[e].status) = Outcome(event[e].status)
    OBVIOUS
  <2>1. event[e] \in EventRow
    BY DEF IInv, TypeOK
  <2>2. CASE e \in es
    <3>1. event[e].status \in {"PENDING", "PROCESSING"}
      BY <2>2 DEF ClaimDue, Claimable
    <3>2. event'[e].status = "PROCESSING"
      BY <2>1, <2>2 DEF ClaimDue, EventRow
    <3>3. QED
      BY <3>1, <3>2 DEF Outcome
  <2>3. CASE e \notin es
    BY <2>3 DEF ClaimDue
  <2>4. QED
    BY <2>2, <2>3
<1>2. UNCHANGED <<delivery, sent>>
  BY DEF ClaimDue
<1>3. AbsOutcome' = AbsOutcome
  BY <1>1, SameOutcome
<1>4. AbsPromise' = AbsPromise
  BY <1>2 DEF AbsPromise
<1>5. QED
  BY <1>2, <1>3, <1>4 DEF Promise!vars, AbsOutcome, AbsPromise

LEMMA OthersHidden ==
    ASSUME IInv,
           \/ \E e \in Events : LeaseExpires(e) \/ BackoffEnds(e)
           \/ \E w \in Workers : \/ \E k \in batch[w] : StartClaim(w, k)
                                \/ Abandon(w) \/ Heartbeat(w)
                                \/ HeartbeatFails(w) \/ Crash(w)
           \/ UNCHANGED vars
    PROVE  UNCHANGED Promise!vars
<1>1. UNCHANGED <<delivery, sent>>
  BY DEF LeaseExpires, BackoffEnds, StartClaim, Abandon, Heartbeat, HeartbeatFails, Crash, vars
<1>2. \A e \in Events : event'[e].status = event[e].status
  <2>1. event \in [Events -> EventRow]
    BY DEF IInv, TypeOK
  <2>2. ASSUME NEW e \in Events, LeaseExpires(e)
        PROVE  \A d \in Events : event'[d].status = event[d].status
    BY <2>1, <2>2 DEF LeaseExpires, EventRow
  <2>3. ASSUME NEW e \in Events, BackoffEnds(e)
        PROVE  \A d \in Events : event'[d].status = event[d].status
    BY <2>1, <2>3 DEF BackoffEnds, EventRow
  <2>4. ASSUME NEW w \in Workers, Heartbeat(w)
        PROVE  \A d \in Events : event'[d].status = event[d].status
    BY <2>1, <2>4 DEF Heartbeat, EventRow
  <2>5. CASE UNCHANGED event
    BY <2>5
  <2>6. QED
    BY <2>2, <2>3, <2>4, <2>5 DEF StartClaim, Abandon, HeartbeatFails, Crash, vars
<1>3. AbsOutcome' = AbsOutcome
  BY <1>2, SameOutcome
<1>4. AbsPromise' = AbsPromise
  BY <1>1 DEF AbsPromise
<1>5. QED
  BY <1>1, <1>3, <1>4 DEF Promise!vars, AbsOutcome, AbsPromise

-----------------------------------------------------------------------------
LEMMA StepRefines == IInv /\ [Next]_vars => [Promise!Next]_(Promise!vars)
<1> SUFFICES ASSUME IInv, [Next]_vars PROVE Promise!Next \/ UNCHANGED Promise!vars
  OBVIOUS
<1>1. ASSUME NEW e \in Events, Enqueue(e) PROVE Promise!Next
  BY <1>1, EnqueueRefines DEF Promise!Next
<1>2. ASSUME NEW e \in Events, RetryFailed(e) PROVE Promise!Next
  BY <1>2, RetryRefines DEF Promise!Next
<1>3. ASSUME NEW w \in Workers, NEW c \in Consumers, NEW ok \in BOOLEAN,
             NEW reached \in BOOLEAN, Dispatch(w, c, ok, reached)
      PROVE  Promise!Next \/ UNCHANGED Promise!vars
  <2>1. work[w].event \in Events
    BY <1>3 DEF Dispatch, IInv, TypeOK
  <2>2. QED
    BY <1>3, <2>1, DispatchRefines DEF Promise!Next
<1>4. ASSUME NEW w \in Workers, NEW r \in work[w].result, Acknowledge(w, r)
      PROVE  Promise!Next \/ UNCHANGED Promise!vars
  <2>1. work[w].event \in Events
    BY <1>4 DEF Acknowledge, IInv, TypeOK
  <2>2. r.to \in Consumers
    BY <1>4 DEF IInv, TypeOK, Work, Result
  <2>3. QED
    BY <1>4, <2>1, <2>2, AcknowledgeRefines DEF Promise!Next
<1>5. ASSUME NEW w \in Workers, FinishAttempt(w)
      PROVE  Promise!Next \/ UNCHANGED Promise!vars
  <2>1. work[w].event \in Events
    BY <1>5 DEF FinishAttempt, IInv, TypeOK
  <2>2. QED
    BY <1>5, <2>1, FinishRefines DEF Promise!Next
<1>6. ASSUME NEW w \in Workers, NEW es \in SUBSET Events, ClaimDue(w, es)
      PROVE  UNCHANGED Promise!vars
  BY <1>6, ClaimHidden
<1>7. CASE \/ \E e \in Events : LeaseExpires(e) \/ BackoffEnds(e)
           \/ \E w \in Workers : \/ \E k \in batch[w] : StartClaim(w, k)
                                \/ Abandon(w) \/ Heartbeat(w)
                                \/ HeartbeatFails(w) \/ Crash(w)
           \/ UNCHANGED vars
  BY <1>7, OthersHidden
<1>8. QED
  BY <1>1, <1>2, <1>3, <1>4, <1>5, <1>6, <1>7 DEF Next, WorkerStep

(***************************************************************************)
(* The outbox keeps the promise: a delivery is kept only after its         *)
(* consumer was reached, an event is closed only when nobody is owed it,   *)
(* and only failed consumers are served again after a retry, for any       *)
(* number of workers and any number of crashes, stalls and lost leases.    *)
(***************************************************************************)
THEOREM OutboxKeepsPromise == Spec => KeepsPromise
<1>1. Init => Promise!Init
  BY InitRefines
<1>2. IInv /\ [Next]_vars => [Promise!Next]_(Promise!vars)
  BY StepRefines
<1>3. QED
  BY <1>1, <1>2, Invariance, PTL DEF Spec, KeepsPromise, Promise!Spec
=============================================================================
