------------------------------ MODULE Campaigns ------------------------------
(***************************************************************************)
(* One customer campaign: it is scheduled, paused and cancelled by         *)
(* administrators and sent in batches, by the campaign worker or by an     *)
(* administrator.  A batch sends Telegram messages inside its transaction; *)
(* what it noted about them is committed at the end, or lost.              *)
(*                                                                         *)
(* campaign and delivery are committed rows.  Only scheduling and the      *)
(* image handlers lock the row of the campaign when they read it: the      *)
(* others decide from an unlocked read and wait for the row when they      *)
(* write, whatever became of it.                                           *)
(***************************************************************************)
EXTENDS DbSessions

CONSTANTS
    Recipients,
    MaxAttempts,      \* customer_campaign_max_attempts
    BatchLimit,       \* customer_campaign_batch_size
    MaxTroubles,      \* bound: errors of Telegram or of the upload volume
    MaxMessages,      \* bound: messages to one recipient, who then withdraws consent
    MaxLost           \* bound: transactions that a crash ends

ASSUME CampaignAssumption ==
    /\ MaxAttempts \in Nat \ {0}
    /\ BatchLimit \in Nat \ {0}
    /\ MaxTroubles \in Nat
    /\ MaxMessages \in Nat
    /\ MaxLost \in Nat

VARIABLES
    campaign,        \* status; due: scheduled_at <= now
    delivery,        \* the delivery for each recipient
    campaignLock,
    campaignTx,      \* what each session is doing to the campaign
    received,        \* history: the messages each recipient got
    forgotten,       \* history: those of them nobody noted as sent
    troubles,
    lost

messages == <<received, forgotten>>
campaignVars == <<campaign, delivery, campaignLock, campaignTx, messages, troubles, lost>>

CampaignRow == <<"campaign">>
DeliveryRow(r) == <<"delivery", r>>
CampaignRows == {CampaignRow} \cup {DeliveryRow(r) : r \in Recipients}

CampaignStatuses == {"DRAFT", "SCHEDULED", "SENDING", "PAUSED", "COMPLETED", "CANCELLED", "FAILED"}
UnfinishedStatuses == {"PENDING", "SENDING", "RATE_LIMITED"}
FinishedStatuses == {"SENT", "FAILED", "SKIPPED"}      \* SKIPPED stands for BLOCKED too
DeliveryRecord == [status : {"absent"} \cup UnfinishedStatuses \cup FinishedStatuses,
                   attempts : 0 .. MaxAttempts,      \* 0 when it is finished
                   due : BOOLEAN]                    \* next_attempt_at is null or past

(***************************************************************************)
(* A delivery waits for another attempt only while it has one left, or     *)
(* while Telegram limits the rate.                                         *)
(***************************************************************************)
Delivery == {d \in DeliveryRecord : d.status = "PENDING" => d.attempts < MaxAttempts}
NoDelivery == [status |-> "absent", attempts |-> 0, due |-> TRUE]

BatchSteps == {"select", "send"}
CampaignSteps == {"idle", "snapshot", "skip", "commit"} \cup BatchSteps
CampaignTransaction ==
    [step : CampaignSteps,
     todo : SUBSET Recipients,     \* deliveries still to be sent or skipped
     changes : UNION {[rs -> Delivery] : rs \in SUBSET Recipients},
     write : CampaignStatuses \cup {"none"}]    \* the status it gives the campaign
IdleCampaignTx == [step |-> "idle", todo |-> {}, changes |-> <<>>, write |-> "none"]

CampaignTypeOK ==
    /\ campaign \in [status : CampaignStatuses, due : BOOLEAN]
    /\ delivery \in [Recipients -> Delivery]
    /\ campaignLock \in [CampaignRows -> Sessions \cup {Nobody}]
    /\ campaignTx \in [Sessions -> CampaignTransaction]
    /\ received \in [Recipients -> Nat]
    /\ forgotten \in [Recipients -> Nat]
    /\ troubles \in 0 .. MaxTroubles
    /\ lost \in 0 .. MaxLost

CampaignInit ==
    /\ campaign = [status |-> "DRAFT", due |-> FALSE]
    /\ delivery = [r \in Recipients |-> NoDelivery]
    /\ campaignLock = [row \in CampaignRows |-> Nobody]
    /\ campaignTx = [s \in Sessions |-> IdleCampaignTx]
    /\ received = [r \in Recipients |-> 0]
    /\ forgotten = [r \in Recipients |-> 0]
    /\ troubles = 0
    /\ lost = 0

-----------------------------------------------------------------------------
Unfinished(d) == d.status \in UnfinishedStatuses
Finished(d) == d.status \in FinishedStatuses
Processable(d) == d.status \in {"PENDING", "RATE_LIMITED"} /\ d.due

(***************************************************************************)
(* A delivery that is finished.  Nobody looks at its attempts again.       *)
(***************************************************************************)
Ended(status) == [NoDelivery EXCEPT !.status = status]

(***************************************************************************)
(* The rows as the transaction of session s sees them: what is committed,  *)
(* and its own changes.                                                    *)
(***************************************************************************)
Seen(s) ==
    LET own == campaignTx[s].changes
    IN  [r \in Recipients |-> IF r \in DOMAIN own THEN own[r] ELSE delivery[r]]

WithChange(own, r, d) ==
    [q \in DOMAIN own \cup {r} |-> IF q = r THEN d ELSE own[q]]

CampaignRowIsFree(s) == MayLock(campaignLock, CampaignRow, s)

EndCampaignTx(s) ==
    /\ campaignTx' = [campaignTx EXCEPT ![s] = IdleCampaignTx]
    /\ campaignLock' = WithoutSession(campaignLock, s)

Trouble == troubles < MaxTroubles /\ troubles' = troubles + 1

-----------------------------------------------------------------------------
(***************************************************************************)
(* Administrators                                                          *)
(***************************************************************************)
(***************************************************************************)
(* Scheduling locks the campaign, so it is one step.  The deliveries are   *)
(* made once, for the audience of that moment: a campaign that goes on     *)
(* after a pause keeps its deliveries.                                     *)
(***************************************************************************)
Materialized(audience) ==
    IF \A r \in Recipients : delivery[r].status = "absent"
    THEN [r \in Recipients |->
            IF r \in audience THEN [NoDelivery EXCEPT !.status = "PENDING"] ELSE NoDelivery]
    ELSE delivery

Schedule(audience, atOnce) ==
    /\ campaignLock[CampaignRow] = Nobody
    /\ campaign.status \in {"DRAFT", "PAUSED"}
    /\ audience # {}
    /\ campaign' = [status |-> IF atOnce THEN "SENDING" ELSE "SCHEDULED", due |-> atOnce]
    /\ delivery' = Materialized(audience)
    /\ UNCHANGED <<campaignLock, campaignTx, messages, troubles, lost>>

(***************************************************************************)
(* Pausing and cancelling read the campaign without a lock.                *)
(***************************************************************************)
Begin(s, step, status) ==
    /\ campaignTx[s].step = "idle"
    /\ campaignTx' = [campaignTx EXCEPT ![s].step = step, ![s].write = status]
    /\ UNCHANGED <<campaign, delivery, campaignLock, messages, troubles, lost>>

PauseBegin(s) ==
    /\ campaign.status \in {"SCHEDULED", "SENDING"}
    /\ Begin(s, "commit", "PAUSED")

CancelBegin(s) ==
    /\ campaign.status \notin {"COMPLETED", "CANCELLED"}
    /\ Begin(s, "snapshot", "CANCELLED")

(***************************************************************************)
(* The UPDATE that skips what remains.  It goes through the rows that were *)
(* unfinished when it started, waits for each one that a batch has locked, *)
(* and looks at it again before it writes.                                 *)
(***************************************************************************)
SkipSnapshot(s) ==
    /\ campaignTx[s].step = "snapshot"
    /\ campaignTx' = [campaignTx EXCEPT
         ![s].step = "skip",
         ![s].todo = {r \in Recipients : Unfinished(Seen(s)[r])}]
    /\ UNCHANGED <<campaign, delivery, campaignLock, messages, troubles, lost>>

(* Mutant: the UPDATE skips every row it started with. *)
SkipsWhatItSaw(s, r) == TRUE

StillUnfinished(s, r) == Unfinished(Seen(s)[r])

SkipRow(s, r) ==
    /\ campaignTx[s].step = "skip"
    /\ r \in campaignTx[s].todo
    /\ MayLock(campaignLock, DeliveryRow(r), s)
    /\ LET skips == StillUnfinished(s, r)
       IN  /\ campaignTx' = [campaignTx EXCEPT
                ![s].todo = @ \ {r},
                ![s].changes = IF skips THEN WithChange(@, r, Ended("SKIPPED")) ELSE @]
           /\ campaignLock' =
                IF skips THEN WithRows(campaignLock, {DeliveryRow(r)}, s) ELSE campaignLock
    /\ UNCHANGED <<campaign, delivery, messages, troubles, lost>>

(***************************************************************************)
(* The end of a pause, a cancellation or a batch.  The UPDATE of the       *)
(* campaign waits for its row and writes the new status over whatever is   *)
(* there.                                                                  *)
(***************************************************************************)
CampaignCommit(s) ==
    LET t == campaignTx[s]
    IN  /\ t.step = "commit" \/ (t.step = "skip" /\ t.todo = {})
        /\ t.write # "none" => CampaignRowIsFree(s)
        /\ campaign' = IF t.write = "none" THEN campaign ELSE [campaign EXCEPT !.status = t.write]
        /\ delivery' = Seen(s)
        /\ EndCampaignTx(s)
        /\ UNCHANGED <<messages, troubles, lost>>

-----------------------------------------------------------------------------
(***************************************************************************)
(* Batches                                                                 *)
(***************************************************************************)
BatchBegin(s) ==
    \/ /\ campaign.status = "SENDING"
       /\ Begin(s, "select", "none")
    \/ /\ campaign.status = "SCHEDULED" /\ campaign.due
       /\ Begin(s, "select", "SENDING")

(***************************************************************************)
(* SELECT ... FOR UPDATE SKIP LOCKED takes as many of the deliveries that  *)
(* are due and that nobody has locked as the limit allows.  Before it, the *)
(* session writes SENDING to a campaign that it read as SCHEDULED, which   *)
(* waits for the row, and the deliveries left in SENDING become FAILED.    *)
(***************************************************************************)
LeftSending == {r \in Recipients : delivery[r].status = "SENDING"}

(* Mutant: the SELECT does not lock what it returns. *)
RowsOfUpdate(chosen) == {DeliveryRow(r) : r \in LeftSending}

RowsOfBatch(chosen) == {DeliveryRow(r) : r \in chosen \cup LeftSending}

StartedRow(s) == IF campaignTx[s].write = "SENDING" THEN {CampaignRow} ELSE {}

BatchSelect(s, limit, chosen) ==
    LET free == {r \in Recipients : /\ Processable(delivery[r])
                                    /\ campaignLock[DeliveryRow(r)] = Nobody}
        taken == RowsOfBatch(chosen) \cup StartedRow(s)
    IN  /\ campaignTx[s].step = "select"
        /\ \A row \in taken : MayLock(campaignLock, row, s)
        /\ chosen \subseteq free
        /\ \/ Cardinality(chosen) = limit
           \/ chosen = free /\ Cardinality(free) < limit
        /\ campaignLock' = WithRows(campaignLock, taken, s)
        /\ campaignTx' = [campaignTx EXCEPT
             ![s].step = "send",
             ![s].todo = chosen,
             ![s].changes = [r \in LeftSending |-> Ended("FAILED")]]
        /\ UNCHANGED <<campaign, delivery, messages, troubles, lost>>

(***************************************************************************)
(* The image of the campaign cannot be read: the campaign fails.           *)
(***************************************************************************)
PhotoUnreadable(s) ==
    /\ campaignTx[s].step = "select"
    /\ Trouble
    /\ \A row \in StartedRow(s) : MayLock(campaignLock, row, s)
    /\ campaignLock' = WithRows(campaignLock, StartedRow(s), s)
    /\ campaignTx' = [campaignTx EXCEPT ![s].step = "snapshot", ![s].write = "FAILED"]
    /\ UNCHANGED <<campaign, delivery, messages, lost>>

(***************************************************************************)
(* One delivery of the batch is settled, in the session only: d is its new *)
(* row.                                                                    *)
(***************************************************************************)
Settle(s, r, d) ==
    /\ campaignTx[s].step = "send"
    /\ r \in campaignTx[s].todo
    /\ campaignTx' = [campaignTx EXCEPT
         ![s].todo = @ \ {r},
         ![s].changes = WithChange(@, r, d)]
    /\ UNCHANGED <<campaign, delivery, campaignLock, lost>>

(* Mutant: one attempt too many. *)
OneRetryMore(d) == d.attempts <= MaxAttempts

RetriesLeft(d) == d.attempts < MaxAttempts

Attempted(d) == [d EXCEPT !.attempts = IF @ < MaxAttempts THEN @ + 1 ELSE @]

(***************************************************************************)
(* The recipient has no chat, has withdrawn consent, or has blocked the    *)
(* bot: the subscription says so, or Telegram does.                        *)
(***************************************************************************)
SkipDelivery(s, r) ==
    /\ Settle(s, r, Ended("SKIPPED"))
    /\ UNCHANGED <<messages, troubles>>

SendMessage(s, r) ==
    /\ received[r] < MaxMessages
    /\ Settle(s, r, Ended("SENT"))
    /\ received' = [received EXCEPT ![r] = @ + 1]
    /\ UNCHANGED <<forgotten, troubles>>

RateLimited(s, r) ==
    /\ Settle(s, r, [Attempted(delivery[r]) EXCEPT !.status = "RATE_LIMITED", !.due = FALSE])
    /\ Trouble
    /\ UNCHANGED messages

(***************************************************************************)
(* Any other error is tried again later, until there were MaxAttempts.     *)
(* When it is a timeout the message may have arrived all the same.         *)
(***************************************************************************)
SendFails(s, r, arrived) ==
    /\ arrived => received[r] < MaxMessages
    /\ Settle(s, r,
         LET d == Attempted(delivery[r])
         IN  IF RetriesLeft(d)
             THEN [d EXCEPT !.status = "PENDING", !.due = FALSE]
             ELSE Ended("FAILED"))
    /\ Trouble
    /\ received' = [received EXCEPT ![r] = IF arrived THEN @ + 1 ELSE @]
    /\ forgotten' = [forgotten EXCEPT ![r] = IF arrived THEN @ + 1 ELSE @]

(***************************************************************************)
(* Telegram cannot parse the message: the rest of the campaign is skipped. *)
(***************************************************************************)
BadRequest(s, r) ==
    /\ campaignTx[s].step = "send"
    /\ r \in campaignTx[s].todo
    /\ Trouble
    /\ campaignTx' = [campaignTx EXCEPT
         ![s].step = "snapshot",
         ![s].todo = {},
         ![s].changes = WithChange(@, r, Ended("FAILED")),
         ![s].write = "FAILED"]
    /\ UNCHANGED <<campaign, delivery, campaignLock, messages, lost>>

(***************************************************************************)
(* The batch counts what is unfinished.  It does not see what other        *)
(* batches have done and not committed.                                    *)
(***************************************************************************)
(* Mutant: count_remaining_processable, which leaves out what is not due. *)
ProcessableRemain(s) == \E r \in Recipients : Processable(Seen(s)[r])

DeliveriesRemain(s) == \E r \in Recipients : Unfinished(Seen(s)[r])

BatchCount(s) ==
    /\ campaignTx[s].step = "send"
    /\ campaignTx[s].todo = {}
    /\ campaignTx' = [campaignTx EXCEPT
         ![s].step = "commit",
         ![s].write = IF DeliveriesRemain(s) THEN @ ELSE "COMPLETED"]
    /\ UNCHANGED <<campaign, delivery, campaignLock, messages, troubles, lost>>

-----------------------------------------------------------------------------
(***************************************************************************)
(* A transaction ends without a commit: nobody will know what it has sent. *)
(***************************************************************************)
CampaignRollback(s) ==
    LET own == campaignTx[s].changes
        sent == {r \in DOMAIN own : own[r].status = "SENT"}
    IN  /\ forgotten' = [r \in Recipients |-> IF r \in sent THEN forgotten[r] + 1 ELSE forgotten[r]]
        /\ EndCampaignTx(s)
        /\ UNCHANGED <<campaign, delivery, received, troubles>>

CampaignCrash(s) ==
    /\ campaignTx[s].step # "idle"
    /\ lost < MaxLost
    /\ lost' = lost + 1
    /\ CampaignRollback(s)

(***************************************************************************)
(* PostgreSQL ends one transaction of a circle of waiting ones.            *)
(***************************************************************************)
Awaited(s) ==
    LET t == campaignTx[s]
    IN  CASE t.step = "skip" /\ t.todo # {} -> {DeliveryRow(r) : r \in t.todo}
          [] t.step = "select" /\ t.write = "SENDING" -> {CampaignRow}
          [] t.step \in {"commit", "skip"} /\ t.write # "none" -> {CampaignRow}
          [] OTHER -> {}

CampaignDeadlock(s) ==
    /\ \E circle \in SUBSET Sessions :
          /\ s \in circle
          /\ \A t \in circle : /\ Awaited(t) # {}
                               /\ \A row \in Awaited(t) : campaignLock[row] \in circle \ {t}
    /\ CampaignRollback(s)
    /\ UNCHANGED lost

(***************************************************************************)
(* scheduled_at and next_attempt_at come.                                  *)
(***************************************************************************)
CampaignDue ==
    /\ campaign.status = "SCHEDULED" /\ ~campaign.due
    /\ campaign' = [campaign EXCEPT !.due = TRUE]
    /\ UNCHANGED <<delivery, campaignLock, campaignTx, messages, troubles, lost>>

DeliveryDue(r) ==
    /\ ~delivery[r].due
    /\ delivery' = [delivery EXCEPT ![r].due = TRUE]
    /\ UNCHANGED <<campaign, campaignLock, campaignTx, messages, troubles, lost>>

-----------------------------------------------------------------------------
DeliveryStep(s, r) ==
    \/ SkipDelivery(s, r)
    \/ SendMessage(s, r)
    \/ RateLimited(s, r)
    \/ BadRequest(s, r)
    \/ \E arrived \in BOOLEAN : SendFails(s, r, arrived)

SelectStep(s) ==
    \E limit \in 1 .. BatchLimit, chosen \in SUBSET Recipients : BatchSelect(s, limit, chosen)

CampaignNext ==
    \/ \E audience \in SUBSET Recipients, atOnce \in BOOLEAN : Schedule(audience, atOnce)
    \/ CampaignDue
    \/ \E r \in Recipients : DeliveryDue(r)
    \/ \E s \in Sessions :
          \/ PauseBegin(s)
          \/ CancelBegin(s)
          \/ SkipSnapshot(s)
          \/ \E r \in Recipients : SkipRow(s, r) \/ DeliveryStep(s, r)
          \/ BatchBegin(s)
          \/ SelectStep(s)
          \/ PhotoUnreadable(s)
          \/ BatchCount(s)
          \/ CampaignCommit(s)
          \/ CampaignCrash(s)
          \/ CampaignDeadlock(s)

CampaignSpec == CampaignInit /\ [][CampaignNext]_campaignVars

(***************************************************************************)
(* Fairness.  Time passes; a handler that can go on does, and one that     *)
(* waits for a row gets it in the end; the worker polls for ever and       *)
(* begins a batch of the campaign when list_due_campaign_ids returns it.   *)
(* Nothing says that an administrator ever acts.                           *)
(***************************************************************************)
(* Mutant: a campaign with nothing left to send is not listed. *)
ListedToSend ==
    \E r \in Recipients : Processable(delivery[r]) \/ delivery[r].status = "SENDING"

Listed ==
    \/ \E r \in Recipients : Processable(delivery[r]) \/ delivery[r].status = "SENDING"
    \/ \A r \in Recipients : ~Unfinished(delivery[r])

CampaignFairness ==
    /\ WF_campaignVars(CampaignDue)
    /\ \A r \in Recipients : WF_campaignVars(DeliveryDue(r))
    /\ SF_campaignVars(\E s \in Sessions : Listed /\ BatchBegin(s))
    /\ \A s \in Sessions :
          /\ SF_campaignVars(\E r \in Recipients : SkipRow(s, r))
          /\ SF_campaignVars(SelectStep(s))
          /\ SF_campaignVars(CampaignCommit(s))
          /\ WF_campaignVars(\/ SkipSnapshot(s) \/ BatchCount(s) \/ CampaignDeadlock(s)
                             \/ \E r \in Recipients : DeliveryStep(s, r))

CampaignFairSpec == CampaignSpec /\ CampaignFairness

-----------------------------------------------------------------------------
(***************************************************************************)
(* Each recipient got one message for each delivery noted as sent, and     *)
(* none besides those that a lost transaction or a timeout made everyone   *)
(* forget: two batches, a batch and a cancellation, or a batch after a     *)
(* pause never send the same delivery twice.                               *)
(***************************************************************************)
NotedAsSent(r) ==
    \/ delivery[r].status = "SENT"
    \/ \E s \in Sessions : /\ r \in DOMAIN campaignTx[s].changes
                           /\ campaignTx[s].changes[r].status = "SENT"

SentOnceUnlessForgotten ==
    \A r \in Recipients :
       received[r] = forgotten[r] + IF NotedAsSent(r) THEN 1 ELSE 0

(***************************************************************************)
(* What became of a delivery is final: a cancellation or a failure that    *)
(* waited for the batch that sent it does not write SKIPPED over it.       *)
(***************************************************************************)
FinishedDeliveryIsFinal ==
    [][\A r \in Recipients : Finished(delivery[r]) => delivery'[r] = delivery[r]]_campaignVars

(***************************************************************************)
(* A campaign that is COMPLETED or FAILED leaves nobody waiting: all its   *)
(* deliveries are finished, though other batches, a pause or a             *)
(* cancellation ran while the last one counted.                            *)
(***************************************************************************)
ClosedMeansFinished ==
    campaign.status \in {"COMPLETED", "FAILED"} =>
       \A r \in Recipients : ~Unfinished(delivery[r])

(***************************************************************************)
(* A campaign that is being sent does not stay so: it completes, fails, or *)
(* somebody stops it.                                                      *)
(***************************************************************************)
CampaignsEnd == campaign.status = "SENDING" ~> campaign.status # "SENDING"

(***************************************************************************)
(* What repository.py says of an attempt that did not finish: it is not    *)
(* tried again, to avoid a duplicate.  No recipient gets a second message  *)
(* after a first one whose transaction was lost.                           *)
(***************************************************************************)
UnfinishedSendsAreNotRetried ==
    [][\A r \in Recipients : received'[r] > received[r] => forgotten[r] = 0]_campaignVars
=============================================================================
