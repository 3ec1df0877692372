------------------------------- MODULE MCEnds --------------------------------
(***************************************************************************)
(* What must end around the purchase path: requests with an idempotency    *)
(* key, campaigns and the events of the outbox.  The three components      *)
(* share no rows, so their steps are not interleaved: scenario picks the   *)
(* one that acts in a behaviour, and what is used up when it starts.       *)
(***************************************************************************)
EXTENDS Integers, FiniteSets

CONSTANTS
    Sessions, Nobody,
    Keys, Payloads, NoKey, NoPayload, CommitsExpiry, MaxExecutions,
    Recipients, MaxAttempts, BatchLimit, MaxTroubles, MaxMessages, MaxLost,
    Events, Consumers, Tokens, NoToken, NoEvent,
    BatchSize, MaxRetries, MaxCrashes, MaxWaits, MaxStalls

VARIABLES
    scenario,
    record, request, answer, executions,
    campaign, delivery, campaignLock, campaignTx, received, forgotten, troubles, lost,
    event, eventDelivery, batch, work, sent, retries, crashes, waits, stalls

I == INSTANCE Idempotency WITH tx <- request
C == INSTANCE Campaigns
O == INSTANCE Outbox WITH
    Workers <- Sessions,
    ConsumersOf <- [e \in Events |-> Consumers],
    delivery <- eventDelivery

keyVars == <<record, request, answer, executions>>
campaignVars == <<campaign, delivery, campaignLock, campaignTx, received, forgotten,
                  troubles, lost>>
eventVars == <<event, eventDelivery, batch, work, sent, retries, crashes, waits, stalls>>
all == <<scenario, keyVars, campaignVars, eventVars>>

-----------------------------------------------------------------------------
(***************************************************************************)
(* "keys": the requests of Idempotency.  "events": the workers of Outbox,  *)
(* one of which dies or has a heartbeat that fails.  "campaign": batches,  *)
(* pauses, cancellations and a crash in two sessions, with one recipient.  *)
(* "long campaign": two recipients, one session, and an error of Telegram  *)
(* or of the volume.                                                       *)
(***************************************************************************)
CampaignScenarios == {"campaign", "long campaign"}
OfKeys == scenario = "keys"
OfCampaign == scenario \in CampaignScenarios
OfEvents == scenario = "events"

FirstRecipient == CHOOSE r \in Recipients : TRUE
FirstSession == CHOOSE s \in Sessions : TRUE

CampaignInit ==
    /\ campaign = [status |-> "DRAFT", due |-> FALSE]
    /\ delivery = [r \in Recipients |-> C!NoDelivery]
    /\ campaignLock = [row \in C!CampaignRows |-> Nobody]
    /\ campaignTx = [s \in Sessions |-> C!IdleCampaignTx]
    /\ received = [r \in Recipients |-> 0]
    /\ forgotten = [r \in Recipients |-> 0]
    /\ troubles = IF scenario = "campaign" THEN MaxTroubles ELSE 0
    /\ lost = IF scenario = "long campaign" THEN MaxLost ELSE 0

EventsInit ==
    /\ event = [e \in Events |-> O!AbsentEvent]
    /\ eventDelivery = [e \in Events |-> [c \in Consumers |-> O!AbsentDelivery]]
    /\ batch = [s \in Sessions |-> {}]
    /\ work = [s \in Sessions |-> O!NoWork]
    /\ sent = [e \in Events |-> {}]
    /\ retries = 0
    /\ waits = 0
    /\ crashes \in {0, MaxCrashes}
    /\ stalls = IF crashes = 0 THEN MaxStalls ELSE 0
    /\ OfEvents \/ crashes = 0

EndsInit ==
    /\ scenario \in CampaignScenarios \cup {"keys", "events"}
    /\ I!Init
    /\ CampaignInit
    /\ EventsInit

CampaignFits ==
    IF scenario = "long campaign"
    THEN \A s \in Sessions \ {FirstSession} : campaignTx'[s] = campaignTx[s]
    ELSE \A r \in Recipients \ {FirstRecipient} : delivery'[r] = delivery[r]

(***************************************************************************)
(* A step of one component.                                                *)
(***************************************************************************)
InKeys(step) == OfKeys /\ step /\ UNCHANGED <<scenario, campaignVars, eventVars>>
InCampaign(step) ==
    OfCampaign /\ step /\ CampaignFits /\ UNCHANGED <<scenario, keyVars, eventVars>>
InEvents(step) == OfEvents /\ step /\ UNCHANGED <<scenario, keyVars, campaignVars>>

EndsNext ==
    \/ OfKeys /\ I!Next /\ UNCHANGED <<scenario, campaignVars, eventVars>>
    \/ OfCampaign /\ C!CampaignNext /\ CampaignFits /\ UNCHANGED <<scenario, keyVars, eventVars>>
    \/ OfEvents /\ O!Next /\ UNCHANGED <<scenario, keyVars, campaignVars>>

-----------------------------------------------------------------------------
(***************************************************************************)
(* The fairness of the three components.  Only one of them ever acts, so   *)
(* one condition on a disjunction says the same as one for each of them.   *)
(***************************************************************************)
SessionFairness(s) ==
    /\ SF_all(\/ InKeys(\E x \in Keys : I!Clean(s, x))
              \/ InCampaign(\E r \in Recipients : C!SkipRow(s, r)))
    /\ SF_all(InKeys(I!InsertProcessing(s)) \/ InCampaign(C!SelectStep(s)))
    /\ SF_all(InKeys(I!Load(s)) \/ InCampaign(C!CampaignCommit(s)))
    /\ WF_all(\/ InKeys(I!Succeed(s) \/ I!Refuse(s) \/ I!DeadlockVictim(s))
              \/ InCampaign(\/ C!SkipSnapshot(s) \/ C!BatchCount(s) \/ C!CampaignDeadlock(s)
                            \/ \E r \in Recipients : C!DeliveryStep(s, r))
              \/ InEvents(O!WorkerStep(s)))

EventFairness(e) ==
    /\ SF_all(\/ InCampaign(\E s \in Sessions : C!Listed /\ C!BatchBegin(s))
              \/ InEvents(\E w \in Sessions, es \in SUBSET Events :
                             e \in es /\ O!ClaimDue(w, es)))
    /\ WF_all(InCampaign(C!CampaignDue) \/ InEvents(O!BackoffEnds(e)))
    /\ WF_all(InEvents(O!Abandoned(e) /\ O!LeaseExpires(e)))

EndsFairness ==
    /\ \A s \in Sessions : SessionFairness(s)
    /\ \A e \in Events : EventFairness(e)
    /\ \A r \in Recipients : WF_all(InCampaign(C!DeliveryDue(r)))

EndsSpec == EndsInit /\ [][EndsNext]_all /\ EndsFairness

-----------------------------------------------------------------------------
(***************************************************************************)
(* Every request with an idempotency key gets its answer, also when the    *)
(* keys of several requests expire at once and each of them cleans up.     *)
(***************************************************************************)
RequestsAnswered == I!RequestsAnswered

(***************************************************************************)
(* A campaign that is being sent does not stay so: it completes, fails, or *)
(* somebody stops it.                                                      *)
(***************************************************************************)
CampaignsEnd == C!CampaignsEnd

(***************************************************************************)
(* Every event is delivered to all its consumers or marked as failed, even *)
(* if a worker dies between dispatch and acknowledgement or its heartbeat  *)
(* comes late.                                                             *)
(***************************************************************************)
EventsSettle == O!EventsSettle
=============================================================================
