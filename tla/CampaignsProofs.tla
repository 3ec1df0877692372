--------------------------- MODULE CampaignsProofs ---------------------------
(***************************************************************************)
(* Proofs about Campaigns, for any recipients, sessions and bounds: no     *)
(* recipient is written to twice for one delivery, a finished delivery is  *)
(* final, and a closed campaign leaves nobody waiting.                     *)
(***************************************************************************)
EXTENDS Campaigns, TLAPS

-----------------------------------------------------------------------------
(***************************************************************************)
(* The inductive invariant.  What a session has done to a delivery, or is  *)
(* about to do in a batch, concerns a row it has locked and that is        *)
(* committed as unfinished.  Whoever will write COMPLETED or FAILED sees   *)
(* nothing unfinished besides what it will skip.                           *)
(***************************************************************************)
Holds(s, r) == campaignLock[DeliveryRow(r)] = s

OwnsItsChanges(s) ==
    \A r \in DOMAIN campaignTx[s].changes :
       /\ Holds(s, r)
       /\ Unfinished(delivery[r])
       /\ campaignTx[s].changes[r].status # "absent"
       /\ Finished(campaignTx[s].changes[r]) => campaignTx[s].changes[r].due

OwnsItsBatch(s) ==
    campaignTx[s].step = "send" =>
       \A r \in campaignTx[s].todo : /\ Holds(s, r)
                                     /\ Unfinished(delivery[r])
                                     /\ r \notin DOMAIN campaignTx[s].changes

WriteFitsStep(s) ==
    /\ campaignTx[s].step \in BatchSteps => campaignTx[s].write \in {"none", "SENDING"}
    /\ campaignTx[s].step \in {"snapshot", "skip"} => campaignTx[s].write \in {"FAILED", "CANCELLED"}
    /\ campaignTx[s].step = "commit" =>
          campaignTx[s].write \in {"none", "SENDING", "COMPLETED", "PAUSED"}

LeavesNothing(s) ==
    /\ campaignTx[s].step = "commit" /\ campaignTx[s].write = "COMPLETED" =>
          \A r \in Recipients : ~Unfinished(Seen(s)[r])
    /\ campaignTx[s].step = "skip" /\ campaignTx[s].write = "FAILED" =>
          \A r \in Recipients \ campaignTx[s].todo : ~Unfinished(Seen(s)[r])

Present == \E r \in Recipients : delivery[r].status # "absent"

StartsClean(s) ==
    campaignTx[s].step \in {"idle", "select"} => DOMAIN campaignTx[s].changes = {}

SessionSound(s) ==
    /\ StartsClean(s)
    /\ OwnsItsChanges(s)
    /\ OwnsItsBatch(s)
    /\ WriteFitsStep(s)
    /\ LeavesNothing(s)
    /\ campaignTx[s].step # "idle" /\ campaignTx[s].write # "CANCELLED" => Present

DeliveriesSound == \A r \in Recipients : Finished(delivery[r]) => delivery[r].due

SentOutHasDeliveries == campaign.status \notin {"DRAFT", "CANCELLED"} => Present

CampaignInv ==
    /\ CampaignTypeOK
    /\ \A s \in Sessions : SessionSound(s)
    /\ DeliveriesSound
    /\ SentOutHasDeliveries
    /\ SentOnceUnlessForgotten
    /\ ClosedMeansFinished

-----------------------------------------------------------------------------
LEMMA RowsDiffer ==
    /\ \A r \in Recipients : DeliveryRow(r) \in CampaignRows /\ DeliveryRow(r) # CampaignRow
    /\ \A q, r \in Recipients : DeliveryRow(q) = DeliveryRow(r) => q = r
    /\ CampaignRow \in CampaignRows
  BY DEF DeliveryRow, CampaignRow, CampaignRows

LEMMA IdleCampaignType ==
    /\ IdleCampaignTx \in CampaignTransaction
    /\ IdleCampaignTx.step = "idle" /\ DOMAIN IdleCampaignTx.changes = {}
    /\ IdleCampaignTx.write = "none" /\ IdleCampaignTx.todo = {}
<1>1. <<>> \in [{} -> Delivery] /\ DOMAIN <<>> = {}
  OBVIOUS
<1>2. <<>> \in UNION {[rs -> Delivery] : rs \in SUBSET Recipients}
  BY <1>1
<1> QED
  BY <1>1, <1>2 DEF IdleCampaignTx, CampaignTransaction, CampaignSteps, BatchSteps

LEMMA ChangesType ==
    ASSUME NEW t \in CampaignTransaction
    PROVE  /\ DOMAIN t.changes \subseteq Recipients
           /\ t.changes \in [DOMAIN t.changes -> Delivery]
           /\ \A r \in DOMAIN t.changes : t.changes[r] \in Delivery
  BY DEF CampaignTransaction

LEMMA EndedType ==
    ASSUME NEW status \in UnfinishedStatuses \cup FinishedStatuses
    PROVE  Ended(status) \in Delivery /\ Ended(status).status = status /\ Ended(status).due = TRUE
<1>1. 0 \in 0 .. MaxAttempts /\ 0 < MaxAttempts
  BY CampaignAssumption
<1> QED
  BY <1>1 DEF Ended, NoDelivery, Delivery, DeliveryRecord

ChangeSets == UNION {[rs -> Delivery] : rs \in SUBSET Recipients}

LEMMA WithChangeType ==
    ASSUME NEW own \in ChangeSets,
           NEW r \in Recipients, NEW d \in Delivery
    PROVE  /\ WithChange(own, r, d) \in ChangeSets
           /\ DOMAIN WithChange(own, r, d) = DOMAIN own \cup {r}
           /\ WithChange(own, r, d)[r] = d
           /\ \A q \in DOMAIN own \ {r} : WithChange(own, r, d)[q] = own[q]
<1> DEFINE rs == DOMAIN own \cup {r}
<1>1. rs \in SUBSET Recipients /\ \A q \in DOMAIN own : own[q] \in Delivery
  BY DEF ChangeSets
<1>2. WithChange(own, r, d) \in [rs -> Delivery]
  BY <1>1 DEF WithChange
<1> QED
  BY <1>1, <1>2 DEF WithChange, ChangeSets

LEMMA CampaignTxEffect ==
    ASSUME CampaignTypeOK, NEW s \in Sessions, NEW t \in CampaignTransaction,
           campaignTx' = [campaignTx EXCEPT ![s] = t]
    PROVE  /\ campaignTx' \in [Sessions -> CampaignTransaction]
           /\ campaignTx'[s] = t
           /\ \A q \in Sessions \ {s} : campaignTx'[q] = campaignTx[q]
  BY DEF CampaignTypeOK

LEMMA SeenIs ==
    ASSUME NEW s \in Sessions, NEW r \in Recipients
    PROVE  Seen(s)[r] = IF r \in DOMAIN campaignTx[s].changes
                        THEN campaignTx[s].changes[r] ELSE delivery[r]
  BY DEF Seen

(***************************************************************************)
(* Two sessions never have changes of one delivery.                        *)
(***************************************************************************)
LEMMA ChangesAreExclusive ==
    ASSUME CampaignInv, NEW s \in Sessions, NEW q \in Sessions, q # s,
           NEW r \in DOMAIN campaignTx[s].changes
    PROVE  r \notin DOMAIN campaignTx[q].changes
  BY DEF CampaignInv, SessionSound, OwnsItsChanges, Holds

(***************************************************************************)
(* What the other sessions rely on stays: their locks, the committed rows  *)
(* they have locked, and that there are deliveries.                        *)
(***************************************************************************)
LEMMA OthersStaySound ==
    ASSUME CampaignInv, NEW s \in Sessions,
           \A q \in Sessions \ {s} : campaignTx'[q] = campaignTx[q],
           \A q \in Sessions \ {s}, r \in Recipients :
              campaignLock[DeliveryRow(r)] = q => campaignLock'[DeliveryRow(r)] = q,
           Present => Present',
           \A r \in Recipients : \/ delivery'[r].status = delivery[r].status
                                 \/ r \in DOMAIN campaignTx[s].changes
                                 \/ ~Present
    PROVE  \A q \in Sessions \ {s} : SessionSound(q)'
<1> SUFFICES ASSUME NEW q \in Sessions \ {s} PROVE SessionSound(q)'
  OBVIOUS
<1>1. campaignTx'[q] = campaignTx[q] /\ SessionSound(q) /\ SessionSound(s) /\ q # s
  BY DEF CampaignInv
<1>2. /\ DOMAIN campaignTx[q].changes \subseteq Recipients
      /\ campaignTx[q].todo \subseteq Recipients
  BY ChangesType DEF CampaignInv, CampaignTypeOK, CampaignTransaction
<1>3. \A r \in Recipients : Holds(q, r) /\ Unfinished(delivery[r]) =>
         Holds(q, r)' /\ Unfinished(delivery[r])'
  <2> SUFFICES ASSUME NEW r \in Recipients, Holds(q, r), Unfinished(delivery[r])
               PROVE  Holds(q, r)' /\ Unfinished(delivery[r])'
    OBVIOUS
  <2>1. Holds(q, r)'
    BY DEF Holds
  <2>2. r \notin DOMAIN campaignTx[s].changes
    BY <1>1 DEF SessionSound, OwnsItsChanges, Holds
  <2>3. Present
    BY DEF Unfinished, UnfinishedStatuses, Present
  <2> QED
    BY <2>1, <2>2, <2>3 DEF Unfinished
<1>4. OwnsItsChanges(q)'
  BY <1>1, <1>2, <1>3 DEF SessionSound, OwnsItsChanges, Finished
<1>5. OwnsItsBatch(q)'
  BY <1>1, <1>2, <1>3 DEF SessionSound, OwnsItsBatch
<1>6. WriteFitsStep(q)' /\ StartsClean(q)'
  BY <1>1 DEF SessionSound, WriteFitsStep, StartsClean
<1>7. Present => \A r \in Recipients : ~Unfinished(Seen(q)[r]) => ~Unfinished(Seen(q)[r])'
  <2> SUFFICES ASSUME Present, NEW r \in Recipients, ~Unfinished(Seen(q)[r])
               PROVE  ~Unfinished(Seen(q)[r])'
    OBVIOUS
  <2>1. CASE r \in DOMAIN campaignTx[q].changes
    BY <1>1, <2>1 DEF Seen, Unfinished
  <2>2. CASE r \notin DOMAIN campaignTx[q].changes
    <3>1. ~Unfinished(delivery[r])
      BY <2>2 DEF Seen
    <3>2. delivery'[r].status = delivery[r].status
      BY <1>1, <3>1 DEF SessionSound, OwnsItsChanges
    <3> QED
      BY <1>1, <2>2, <3>1, <3>2 DEF Seen, Unfinished
  <2> QED
    BY <2>1, <2>2
<1>8. LeavesNothing(q)'
  BY <1>1, <1>7 DEF SessionSound, LeavesNothing
<1>9. (campaignTx[q].step # "idle" /\ campaignTx[q].write # "CANCELLED" => Present)'
  BY <1>1 DEF SessionSound
<1> QED
  BY <1>4, <1>5, <1>6, <1>8, <1>9 DEF SessionSound

(***************************************************************************)
(* A step of one session that commits nothing.                             *)
(***************************************************************************)
SentIn(t, r) == r \in DOMAIN t.changes /\ t.changes[r].status = "SENT"

OthersKeepLocks(s) ==
    /\ campaignLock' \in [CampaignRows -> Sessions \cup {Nobody}]
    /\ \A row \in CampaignRows : \/ campaignLock'[row] = campaignLock[row]
                                 \/ campaignLock[row] \in {s, Nobody}

LEMMA TxStepKeeps ==
    ASSUME CampaignInv, NEW s \in Sessions, NEW t \in CampaignTransaction,
           campaignTx' = [campaignTx EXCEPT ![s] = t],
           OthersKeepLocks(s),
           UNCHANGED <<campaign, delivery>>,
           received' \in [Recipients -> Nat], forgotten' \in [Recipients -> Nat],
           troubles' \in 0 .. MaxTroubles, lost' \in 0 .. MaxLost,
           SentOnceUnlessForgotten', SessionSound(s)'
    PROVE  CampaignInv'
<1>1. /\ campaignTx' \in [Sessions -> CampaignTransaction]
      /\ \A q \in Sessions \ {s} : campaignTx'[q] = campaignTx[q]
  BY CampaignTxEffect DEF CampaignInv
<1>2. CampaignTypeOK'
  BY <1>1 DEF CampaignInv, CampaignTypeOK, OthersKeepLocks
<1>3. \A q \in Sessions \ {s}, r \in Recipients :
         campaignLock[DeliveryRow(r)] = q => campaignLock'[DeliveryRow(r)] = q
  BY RowsDiffer, SessionsAssumption DEF OthersKeepLocks
<1>4. Present => Present'
  BY DEF Present
<1>5. \A q \in Sessions \ {s} : SessionSound(q)'
  BY <1>1, <1>3, <1>4, OthersStaySound
<1>6. DeliveriesSound' /\ SentOutHasDeliveries' /\ ClosedMeansFinished'
  BY DEF CampaignInv, DeliveriesSound, SentOutHasDeliveries, ClosedMeansFinished,
         Present, Finished, Unfinished
<1>7. \A q \in Sessions : SessionSound(q)'
  BY <1>5
<1> QED
  BY <1>2, <1>6, <1>7 DEF CampaignInv

LEMMA CountsStay ==
    ASSUME CampaignInv, NEW s \in Sessions, NEW t \in CampaignTransaction,
           campaignTx' = [campaignTx EXCEPT ![s] = t],
           UNCHANGED <<delivery, received, forgotten>>,
           \A r \in Recipients : SentIn(t, r) <=> SentIn(campaignTx[s], r)
    PROVE  SentOnceUnlessForgotten'
<1>1. \A q \in Sessions : campaignTx'[q] = IF q = s THEN t ELSE campaignTx[q]
  BY CampaignTxEffect DEF CampaignInv
<1>2. \A r \in Recipients : NotedAsSent(r) <=>
         (delivery[r].status = "SENT" \/ \E q \in Sessions : SentIn(campaignTx[q], r))
  BY DEF NotedAsSent, SentIn
<1>3. \A r \in Recipients : NotedAsSent(r)' <=>
         (delivery'[r].status = "SENT" \/ \E q \in Sessions : SentIn(campaignTx'[q], r))
  BY DEF NotedAsSent, SentIn
<1>4. \A r \in Recipients : NotedAsSent(r)' <=> NotedAsSent(r)
  BY <1>1, <1>2, <1>3
<1>5. SentOnceUnlessForgotten
  BY DEF CampaignInv
<1> HIDE DEF NotedAsSent
<1> QED
  BY <1>4, <1>5 DEF SentOnceUnlessForgotten

-----------------------------------------------------------------------------
(***************************************************************************)
(* Steps that leave the changes of their session alone.                    *)
(***************************************************************************)
LEMMA SameChanges ==
    ASSUME CampaignInv, NEW s \in Sessions, NEW t \in CampaignTransaction,
           campaignTx' = [campaignTx EXCEPT ![s] = t],
           t.changes = campaignTx[s].changes,
           UNCHANGED delivery,
           \A r \in Recipients : Holds(s, r) => Holds(s, r)'
    PROVE  /\ OwnsItsChanges(s)'
           /\ \A r \in Recipients : Seen(s)'[r] = Seen(s)[r]
           /\ \A r \in Recipients : SentIn(t, r) <=> SentIn(campaignTx[s], r)
           /\ Present' <=> Present
<1>1. campaignTx'[s] = t
  BY CampaignTxEffect DEF CampaignInv
<1>2. DOMAIN campaignTx[s].changes \subseteq Recipients
  BY ChangesType DEF CampaignInv, CampaignTypeOK
<1>3. OwnsItsChanges(s)
  BY DEF CampaignInv, SessionSound
<1> QED
  BY <1>1, <1>2, <1>3 DEF OwnsItsChanges, Seen, SentIn, Present, Finished, Unfinished

LEMMA QuietStepKeeps ==
    ASSUME CampaignInv, NEW s \in Sessions, NEW t \in CampaignTransaction,
           campaignTx' = [campaignTx EXCEPT ![s] = t],
           t.changes = campaignTx[s].changes,
           t.step \notin {"idle", "send"}, t.step = "select" => campaignTx[s].step = "idle",
           OthersKeepLocks(s),
           \A r \in Recipients : Holds(s, r) => Holds(s, r)',
           UNCHANGED <<campaign, delivery, received, forgotten, lost>>,
           troubles' \in 0 .. MaxTroubles,
           WriteFitsStep(s)',
           t.step = "commit" /\ t.write = "COMPLETED" =>
              \A r \in Recipients : ~Unfinished(Seen(s)[r]),
           t.step = "skip" /\ t.write = "FAILED" =>
              \A r \in Recipients \ t.todo : ~Unfinished(Seen(s)[r]),
           t.write # "CANCELLED" => Present
    PROVE  CampaignInv'
<1>1. campaignTx'[s] = t
  BY CampaignTxEffect DEF CampaignInv
<1>2. /\ OwnsItsChanges(s)' /\ (Present' <=> Present)
      /\ \A r \in Recipients : Seen(s)'[r] = Seen(s)[r]
  BY SameChanges
<1>3. SentOnceUnlessForgotten'
  BY SameChanges, CountsStay
<1>4. OwnsItsBatch(s)'
  BY <1>1 DEF OwnsItsBatch
<1>5. LeavesNothing(s)'
  BY <1>1, <1>2 DEF LeavesNothing
<1>6. StartsClean(s)'
  BY <1>1 DEF CampaignInv, SessionSound, StartsClean
<1>7. SessionSound(s)'
  BY <1>1, <1>2, <1>4, <1>5, <1>6 DEF SessionSound
<1>8. /\ received' \in [Recipients -> Nat] /\ forgotten' \in [Recipients -> Nat]
      /\ lost' \in 0 .. MaxLost
  BY DEF CampaignInv, CampaignTypeOK
<1> QED
  BY <1>3, <1>7, <1>8, TxStepKeeps

LEMMA LocksStay ==
    ASSUME CampaignInv, NEW s \in Sessions, UNCHANGED campaignLock
    PROVE  OthersKeepLocks(s) /\ \A r \in Recipients : Holds(s, r) => Holds(s, r)'
  BY DEF CampaignInv, CampaignTypeOK, OthersKeepLocks, Holds

LEMMA LocksTaken ==
    ASSUME CampaignInv, NEW s \in Sessions, NEW rows \in SUBSET CampaignRows,
           \A row \in rows : MayLock(campaignLock, row, s),
           campaignLock' = WithRows(campaignLock, rows, s)
    PROVE  /\ OthersKeepLocks(s)
           /\ \A r \in Recipients : Holds(s, r) => Holds(s, r)'
           /\ \A r \in Recipients : DeliveryRow(r) \in rows => Holds(s, r)'
<1>1. /\ campaignLock \in [CampaignRows -> Sessions \cup {Nobody}]
      /\ \A row \in CampaignRows :
            campaignLock'[row] = IF row \in rows THEN s ELSE campaignLock[row]
      /\ campaignLock' \in [CampaignRows -> Sessions \cup {Nobody}]
  BY DEF CampaignInv, CampaignTypeOK, WithRows
<1> QED
  BY <1>1, RowsDiffer DEF OthersKeepLocks, Holds, MayLock

LEMMA TroubleType ==
    ASSUME CampaignInv, Trouble PROVE troubles' \in 0 .. MaxTroubles
  BY CampaignAssumption DEF CampaignInv, CampaignTypeOK, Trouble

LEMMA BeginKeeps ==
    ASSUME CampaignInv, NEW s \in Sessions, NEW step \in {"commit", "snapshot", "select"},
           NEW status \in {"PAUSED", "CANCELLED", "none", "SENDING"},
           Begin(s, step, status),
           step = "commit" => status = "PAUSED",
           step = "snapshot" => status = "CANCELLED",
           step = "select" => status \in {"none", "SENDING"},
           status # "CANCELLED" => Present
    PROVE  CampaignInv'
<1> DEFINE t == [campaignTx[s] EXCEPT !.step = step, !.write = status]
<1>1. campaignTx[s] \in CampaignTransaction
  BY DEF CampaignInv, CampaignTypeOK
<1>2. t \in CampaignTransaction
  BY <1>1 DEF CampaignTransaction, CampaignSteps, BatchSteps, CampaignStatuses
<1>3. t.step = step /\ t.write = status /\ t.changes = campaignTx[s].changes
  BY <1>1 DEF CampaignTransaction
<1>4. campaignTx' = [campaignTx EXCEPT ![s] = t]
  BY DEF Begin
<1>5. /\ UNCHANGED <<campaign, delivery, campaignLock, received, forgotten, troubles, lost>>
      /\ campaignTx[s].step = "idle"
  BY DEF Begin, messages
<1>6. campaignTx'[s] = t
  BY <1>2, <1>4, CampaignTxEffect DEF CampaignInv
<1> HIDE DEF t
<1>7. WriteFitsStep(s)'
  BY <1>3, <1>6 DEF WriteFitsStep, BatchSteps
<1>8. troubles' \in 0 .. MaxTroubles
  BY <1>5 DEF CampaignInv, CampaignTypeOK
<1> QED
  BY <1>2, <1>3, <1>4, <1>5, <1>7, <1>8, LocksStay, QuietStepKeeps

LEMMA AdministratorBegins ==
    ASSUME CampaignInv, NEW s \in Sessions, PauseBegin(s) \/ CancelBegin(s) \/ BatchBegin(s)
    PROVE  CampaignInv'
<1>1. campaign.status \in {"SCHEDULED", "SENDING"} => Present
  BY DEF CampaignInv, SentOutHasDeliveries
<1>2. CASE PauseBegin(s)
  BY <1>1, <1>2, BeginKeeps DEF PauseBegin
<1>3. CASE CancelBegin(s)
  BY <1>3, BeginKeeps DEF CancelBegin
<1>4. CASE BatchBegin(s)
  BY <1>1, <1>4, BeginKeeps DEF BatchBegin
<1> QED
  BY <1>2, <1>3, <1>4

LEMMA SkipSnapshotKeeps ==
    ASSUME CampaignInv, NEW s \in Sessions, SkipSnapshot(s) PROVE CampaignInv'
<1> DEFINE rest == {r \in Recipients : Unfinished(Seen(s)[r])}
           t == [campaignTx[s] EXCEPT !.step = "skip", !.todo = rest]
<1>1. campaignTx[s] \in CampaignTransaction /\ campaignTx[s].step = "snapshot" /\ SessionSound(s)
  BY DEF CampaignInv, CampaignTypeOK, SkipSnapshot
<1>2. /\ campaignTx' = [campaignTx EXCEPT ![s] = t]
      /\ UNCHANGED <<campaign, delivery, campaignLock, received, forgotten, troubles, lost>>
  BY DEF SkipSnapshot, messages
<1>3. \A r \in Recipients \ rest : ~Unfinished(Seen(s)[r])
  OBVIOUS
<1>4. rest \subseteq Recipients
  OBVIOUS
<1> HIDE DEF rest
<1>5. t \in CampaignTransaction
  BY <1>1, <1>4 DEF CampaignTransaction, CampaignSteps
<1>6. /\ t.step = "skip" /\ t.todo = rest
      /\ t.write = campaignTx[s].write /\ t.changes = campaignTx[s].changes
  BY <1>1 DEF CampaignTransaction
<1> HIDE DEF t
<1>7. campaignTx'[s] = t
  BY <1>2, <1>5, CampaignTxEffect DEF CampaignInv
<1>8. WriteFitsStep(s)' /\ (t.write # "CANCELLED" => Present)
  BY <1>1, <1>6, <1>7 DEF SessionSound, WriteFitsStep, BatchSteps
<1>9. troubles' \in 0 .. MaxTroubles
  BY <1>2 DEF CampaignInv, CampaignTypeOK
<1> QED
  BY <1>2, <1>3, <1>5, <1>6, <1>8, <1>9, LocksStay, QuietStepKeeps

LEMMA BatchCountKeeps ==
    ASSUME CampaignInv, NEW s \in Sessions, BatchCount(s) PROVE CampaignInv'
<1> DEFINE w == IF DeliveriesRemain(s) THEN campaignTx[s].write ELSE "COMPLETED"
           t == [campaignTx[s] EXCEPT !.step = "commit", !.write = w]
<1>1. campaignTx[s] \in CampaignTransaction /\ campaignTx[s].step = "send" /\ SessionSound(s)
  BY DEF CampaignInv, CampaignTypeOK, BatchCount
<1>2. campaignTx[s].write \in {"none", "SENDING"} /\ Present
  BY <1>1 DEF SessionSound, WriteFitsStep, BatchSteps
<1>3. w \in {"none", "SENDING", "COMPLETED"} /\ (w = "COMPLETED" => ~DeliveriesRemain(s))
  BY <1>2
<1>4. /\ campaignTx' = [campaignTx EXCEPT ![s] = t]
      /\ UNCHANGED <<campaign, delivery, campaignLock, received, forgotten, troubles, lost>>
  BY DEF BatchCount, messages
<1> HIDE DEF w
<1>5. t \in CampaignTransaction
  BY <1>1, <1>3 DEF CampaignTransaction, CampaignSteps, CampaignStatuses
<1>6. t.step = "commit" /\ t.write = w /\ t.changes = campaignTx[s].changes
  BY <1>1 DEF CampaignTransaction
<1> HIDE DEF t
<1>7. campaignTx'[s] = t
  BY <1>4, <1>5, CampaignTxEffect DEF CampaignInv
<1>8. WriteFitsStep(s)'
  BY <1>3, <1>6, <1>7 DEF WriteFitsStep, BatchSteps
<1>9. troubles' \in 0 .. MaxTroubles
  BY <1>4 DEF CampaignInv, CampaignTypeOK
<1>10. t.write = "COMPLETED" => \A r \in Recipients : ~Unfinished(Seen(s)[r])
  BY <1>3, <1>6 DEF DeliveriesRemain
<1> QED
  BY <1>2, <1>4, <1>5, <1>6, <1>8, <1>9, <1>10, LocksStay, QuietStepKeeps

LEMMA PhotoUnreadableKeeps ==
    ASSUME CampaignInv, NEW s \in Sessions, PhotoUnreadable(s) PROVE CampaignInv'
<1> DEFINE t == [campaignTx[s] EXCEPT !.step = "snapshot", !.write = "FAILED"]
<1>1. campaignTx[s] \in CampaignTransaction /\ campaignTx[s].step = "select" /\ SessionSound(s)
  BY DEF CampaignInv, CampaignTypeOK, PhotoUnreadable
<1>2. Present
  BY <1>1 DEF SessionSound, WriteFitsStep, BatchSteps
<1>3. /\ campaignTx' = [campaignTx EXCEPT ![s] = t]
      /\ UNCHANGED <<campaign, delivery, received, forgotten, lost>>
      /\ campaignLock' = WithRows(campaignLock, StartedRow(s), s)
      /\ \A row \in StartedRow(s) : MayLock(campaignLock, row, s)
      /\ Trouble
  BY DEF PhotoUnreadable, messages
<1>4. StartedRow(s) \in SUBSET CampaignRows
  BY RowsDiffer DEF StartedRow
<1>5. t \in CampaignTransaction
  BY <1>1 DEF CampaignTransaction, CampaignSteps, CampaignStatuses
<1>6. t.step = "snapshot" /\ t.write = "FAILED" /\ t.changes = campaignTx[s].changes
  BY <1>1 DEF CampaignTransaction
<1> HIDE DEF t
<1>7. campaignTx'[s] = t
  BY <1>3, <1>5, CampaignTxEffect DEF CampaignInv
<1>8. WriteFitsStep(s)'
  BY <1>6, <1>7 DEF WriteFitsStep, BatchSteps
<1> QED
  BY <1>2, <1>3, <1>4, <1>5, <1>6, <1>8, LocksTaken, TroubleType, QuietStepKeeps

-----------------------------------------------------------------------------
(***************************************************************************)
(* Steps that change one delivery in their session.                        *)
(***************************************************************************)
AsSent(t, s, r, status) ==
    /\ SentIn(t, r) <=> status = "SENT"
    /\ \A q \in Recipients \ {r} : SentIn(t, q) <=> SentIn(campaignTx[s], q)

Counted(r, status) ==
    /\ received' \in [Recipients -> Nat] /\ forgotten' \in [Recipients -> Nat]
    /\ \A q \in Recipients :
          received'[q] - forgotten'[q] =
             received[q] - forgotten[q] + IF q = r /\ status = "SENT" THEN 1 ELSE 0

SeesInstead(s, r, d) ==
    \A q \in Recipients : Seen(s)'[q] = IF q = r THEN d ELSE Seen(s)[q]

LEMMA OneChange ==
    ASSUME CampaignInv, NEW s \in Sessions, NEW t \in CampaignTransaction,
           NEW r \in Recipients, NEW d \in Delivery,
           campaignTx' = [campaignTx EXCEPT ![s] = t],
           t.changes = WithChange(campaignTx[s].changes, r, d),
           UNCHANGED delivery,
           \A q \in Recipients : Holds(s, q) => Holds(s, q)',
           Holds(s, r)', Unfinished(delivery[r]),
           d.status # "absent", Finished(d) => d.due
    PROVE  /\ OwnsItsChanges(s)'
           /\ SeesInstead(s, r, d)
           /\ AsSent(t, s, r, d.status)
           /\ Present' <=> Present
<1> DEFINE own == campaignTx[s].changes
<1>1. campaignTx'[s] = t /\ OwnsItsChanges(s)
  BY CampaignTxEffect DEF CampaignInv, SessionSound
<1>2. campaignTx[s] \in CampaignTransaction
  BY DEF CampaignInv, CampaignTypeOK
<1>3. own \in ChangeSets /\ DOMAIN own \subseteq Recipients
  BY <1>2, ChangesType DEF CampaignTransaction, ChangeSets
<1>4. /\ DOMAIN t.changes = DOMAIN own \cup {r} /\ t.changes[r] = d
      /\ \A q \in DOMAIN own \ {r} : t.changes[q] = own[q]
  <2> HIDE DEF own
  <2>1. t.changes = WithChange(own, r, d)
    BY DEF own
  <2> QED
    BY <1>3, <2>1, WithChangeType
<1>5. OwnsItsChanges(s)'
  BY <1>1, <1>3, <1>4 DEF OwnsItsChanges, Finished, Unfinished
<1>6. SeesInstead(s, r, d)
  BY <1>1, <1>3, <1>4 DEF Seen, SeesInstead
<1>7. AsSent(t, s, r, d.status)
  BY <1>3, <1>4 DEF SentIn, AsSent
<1> QED
  BY <1>5, <1>6, <1>7 DEF Present

LEMMA OneCount ==
    ASSUME CampaignInv, NEW s \in Sessions, NEW t \in CampaignTransaction,
           NEW r \in Recipients, NEW status,
           campaignTx' = [campaignTx EXCEPT ![s] = t],
           UNCHANGED delivery,
           Unfinished(delivery[r]), Unfinished(Seen(s)[r]),
           \A q \in Sessions \ {s} : r \notin DOMAIN campaignTx[q].changes,
           AsSent(t, s, r, status), Counted(r, status)
    PROVE  SentOnceUnlessForgotten'
<1>1. \A q \in Sessions : campaignTx'[q] = IF q = s THEN t ELSE campaignTx[q]
  BY CampaignTxEffect DEF CampaignInv
<1>2. \A q \in Recipients : NotedAsSent(q) <=>
         (delivery[q].status = "SENT" \/ \E o \in Sessions : SentIn(campaignTx[o], q))
  BY DEF NotedAsSent, SentIn
<1>3. \A q \in Recipients : NotedAsSent(q)' <=>
         (delivery'[q].status = "SENT" \/ \E o \in Sessions : SentIn(campaignTx'[o], q))
  BY DEF NotedAsSent, SentIn
<1>4. \A q \in Recipients \ {r} : NotedAsSent(q)' <=> NotedAsSent(q)
  BY <1>1, <1>2, <1>3 DEF AsSent
<1>5. ~NotedAsSent(r)
  <2>1. delivery[r].status # "SENT" /\ Seen(s)[r].status # "SENT"
    BY DEF Unfinished, UnfinishedStatuses
  <2>2. ~SentIn(campaignTx[s], r)
    BY <2>1, SeenIs DEF SentIn
  <2>3. \A o \in Sessions : ~SentIn(campaignTx[o], r)
    BY <2>2 DEF SentIn
  <2> QED
    BY <1>2, <2>1, <2>3
<1>6. NotedAsSent(r)' <=> status = "SENT"
  <2>1. delivery'[r].status # "SENT"
    BY DEF Unfinished, UnfinishedStatuses
  <2>2. \A o \in Sessions \ {s} : ~SentIn(campaignTx'[o], r)
    BY <1>1 DEF SentIn
  <2> QED
    BY <1>1, <1>3, <2>1, <2>2 DEF AsSent
<1>7. SentOnceUnlessForgotten
  BY DEF CampaignInv
<1>8. received \in [Recipients -> Nat] /\ forgotten \in [Recipients -> Nat]
  BY DEF CampaignInv, CampaignTypeOK
<1> HIDE DEF NotedAsSent
<1> SUFFICES ASSUME NEW q \in Recipients
             PROVE  received'[q] = forgotten'[q] + IF NotedAsSent(q)' THEN 1 ELSE 0
  BY DEF SentOnceUnlessForgotten
<1>9. /\ received[q] = forgotten[q] + IF NotedAsSent(q) THEN 1 ELSE 0
      /\ received[q] \in Nat /\ forgotten[q] \in Nat
      /\ received'[q] \in Nat /\ forgotten'[q] \in Nat
      /\ received'[q] - forgotten'[q] =
            received[q] - forgotten[q] + IF q = r /\ status = "SENT" THEN 1 ELSE 0
  BY <1>7, <1>8 DEF SentOnceUnlessForgotten, Counted
<1>10. CASE q = r
  BY <1>5, <1>6, <1>9, <1>10
<1>11. CASE q # r
  BY <1>4, <1>9, <1>11
<1> QED
  BY <1>10, <1>11

LEMMA ChangeKeeps ==
    ASSUME CampaignInv, NEW s \in Sessions, NEW t \in CampaignTransaction,
           NEW r \in Recipients, NEW d \in Delivery,
           campaignTx' = [campaignTx EXCEPT ![s] = t],
           t.changes = WithChange(campaignTx[s].changes, r, d),
           UNCHANGED <<campaign, delivery, lost>>,
           OthersKeepLocks(s),
           \A q \in Recipients : Holds(s, q) => Holds(s, q)',
           Holds(s, r)', Unfinished(delivery[r]), Unfinished(Seen(s)[r]),
           d.status # "absent", Finished(d) => d.due,
           \A q \in Sessions \ {s} : r \notin DOMAIN campaignTx[q].changes,
           Counted(r, d.status),
           troubles' \in 0 .. MaxTroubles,
           t.step \in {"send", "snapshot", "skip"},
           OwnsItsBatch(s)', WriteFitsStep(s)',
           t.step = "skip" /\ t.write = "FAILED" =>
              \A q \in Recipients \ t.todo :
                 ~Unfinished(IF q = r THEN d ELSE Seen(s)[q])
    PROVE  CampaignInv'
<1>1. campaignTx'[s] = t
  BY CampaignTxEffect DEF CampaignInv
<1>2. /\ OwnsItsChanges(s)' /\ (Present' <=> Present)
      /\ SeesInstead(s, r, d)
      /\ AsSent(t, s, r, d.status)
  <2>1. UNCHANGED delivery /\ (Finished(d) => d.due)
    OBVIOUS
  <2>2. OwnsItsChanges(s)'
    BY <2>1, OneChange
  <2>3. Present' <=> Present
    BY <2>1, OneChange
  <2>4. SeesInstead(s, r, d)
    BY <2>1, OneChange
  <2>5. AsSent(t, s, r, d.status)
    BY <2>1, OneChange
  <2> QED
    BY <2>2, <2>3, <2>4, <2>5
<1>3. SentOnceUnlessForgotten'
  BY <1>2, OneCount
<1>4. LeavesNothing(s)'
  BY <1>1, <1>2 DEF LeavesNothing, SeesInstead
<1>5. Present
  BY DEF Present, Unfinished, UnfinishedStatuses
<1>6. SessionSound(s)'
  BY <1>1, <1>2, <1>4, <1>5 DEF SessionSound, StartsClean
<1>7. /\ lost' \in 0 .. MaxLost
      /\ received' \in [Recipients -> Nat] /\ forgotten' \in [Recipients -> Nat]
  BY DEF CampaignInv, CampaignTypeOK, Counted
<1> QED
  BY <1>3, <1>6, <1>7, TxStepKeeps

(***************************************************************************)
(* The delivery that a batch takes next.                                   *)
(***************************************************************************)
LEMMA NextOfBatch ==
    ASSUME CampaignInv, NEW s \in Sessions, NEW r \in campaignTx[s].todo,
           campaignTx[s].step = "send"
    PROVE  /\ r \in Recipients /\ Holds(s, r)
           /\ Unfinished(delivery[r]) /\ Unfinished(Seen(s)[r])
           /\ \A q \in Sessions \ {s} : r \notin DOMAIN campaignTx[q].changes
           /\ campaignTx[s].write \in {"none", "SENDING"}
<1>1. campaignTx[s] \in CampaignTransaction /\ SessionSound(s)
  BY DEF CampaignInv, CampaignTypeOK
<1>2. r \in Recipients
  BY <1>1 DEF CampaignTransaction
<1>3. Holds(s, r) /\ Unfinished(delivery[r]) /\ r \notin DOMAIN campaignTx[s].changes
  BY <1>1 DEF SessionSound, OwnsItsBatch
<1>4. Seen(s)[r] = delivery[r]
  BY <1>2, <1>3, SeenIs
<1>5. \A q \in Sessions \ {s} : r \notin DOMAIN campaignTx[q].changes
  BY <1>3 DEF CampaignInv, SessionSound, OwnsItsChanges, Holds
<1> QED
  BY <1>1, <1>2, <1>3, <1>4, <1>5 DEF SessionSound, WriteFitsStep, BatchSteps

LEMMA SettleKeeps ==
    ASSUME CampaignInv, NEW s \in Sessions, NEW r, NEW d \in Delivery,
           Settle(s, r, d), d.status # "absent", Finished(d) => d.due,
           Counted(r, d.status), troubles' \in 0 .. MaxTroubles
    PROVE  CampaignInv'
<1> DEFINE own == WithChange(campaignTx[s].changes, r, d)
           t == [campaignTx[s] EXCEPT !.todo = @ \ {r}, !.changes = own]
<1>1. /\ campaignTx[s].step = "send" /\ r \in campaignTx[s].todo
      /\ campaignTx' = [campaignTx EXCEPT ![s] = t]
      /\ UNCHANGED <<campaign, delivery, campaignLock, lost>>
  BY DEF Settle
<1>2. campaignTx[s] \in CampaignTransaction /\ SessionSound(s)
  BY DEF CampaignInv, CampaignTypeOK
<1>3. campaignTx[s].changes \in ChangeSets
  BY <1>2 DEF CampaignTransaction, ChangeSets
<1>4. r \in Recipients
  BY <1>1, NextOfBatch
<1>5. own \in ChangeSets /\ DOMAIN own = DOMAIN campaignTx[s].changes \cup {r}
  <2>1. DOMAIN own = DOMAIN campaignTx[s].changes \cup {r}
    BY DEF WithChange
  <2>2. \A q \in DOMAIN own : own[q] \in Delivery
    BY <1>3 DEF WithChange, ChangeSets
  <2>3. own \in [DOMAIN own -> Delivery] /\ DOMAIN own \subseteq Recipients
    BY <1>3, <1>4, <2>2 DEF WithChange, ChangeSets
  <2> QED
    BY <2>1, <2>3 DEF ChangeSets
<1> HIDE DEF own
<1>6. t \in CampaignTransaction
  BY <1>2, <1>5 DEF CampaignTransaction, ChangeSets
<1>7. /\ t.step = "send" /\ t.write = campaignTx[s].write
      /\ t.todo = campaignTx[s].todo \ {r} /\ t.changes = own
  BY <1>1, <1>2 DEF CampaignTransaction
<1> HIDE DEF t
<1>8. campaignTx'[s] = t
  BY <1>1, <1>6, CampaignTxEffect DEF CampaignInv
<1>9. OthersKeepLocks(s) /\ \A q \in Recipients : Holds(s, q) => Holds(s, q)'
  BY <1>1, LocksStay
<1>10. OwnsItsBatch(s)'
  <2> SUFFICES ASSUME NEW q \in t.todo
               PROVE  Holds(s, q)' /\ Unfinished(delivery[q])' /\ q \notin DOMAIN t.changes
    BY <1>8 DEF OwnsItsBatch
  <2>1. q \in campaignTx[s].todo /\ q # r /\ q \in Recipients
    BY <1>1, <1>7, NextOfBatch
  <2>2. Holds(s, q) /\ Unfinished(delivery[q]) /\ q \notin DOMAIN campaignTx[s].changes
    BY <1>1, <1>2, <2>1 DEF SessionSound, OwnsItsBatch
  <2> QED
    BY <1>1, <1>5, <1>7, <1>9, <2>1, <2>2 DEF Unfinished
<1>11. WriteFitsStep(s)'
  BY <1>1, <1>7, <1>8, NextOfBatch DEF WriteFitsStep, BatchSteps
<1>12. t.changes = WithChange(campaignTx[s].changes, r, d)
  BY <1>7 DEF own
<1> QED
  BY <1>1, <1>4, <1>6, <1>7, <1>9, <1>10, <1>11, <1>12, NextOfBatch, ChangeKeeps

LEMMA AttemptedType ==
    ASSUME NEW d \in Delivery
    PROVE  Attempted(d) \in DeliveryRecord
  BY CampaignAssumption DEF Attempted, Delivery, DeliveryRecord

LEMMA DeliveryStepKeeps ==
    ASSUME CampaignInv, NEW s \in Sessions, NEW r \in Recipients,
           \/ SkipDelivery(s, r) \/ SendMessage(s, r) \/ RateLimited(s, r)
           \/ \E arrived \in BOOLEAN : SendFails(s, r, arrived)
    PROVE  CampaignInv'
<1>1. /\ received \in [Recipients -> Nat] /\ forgotten \in [Recipients -> Nat]
      /\ troubles \in 0 .. MaxTroubles /\ delivery[r] \in Delivery
  BY DEF CampaignInv, CampaignTypeOK
<1>2. \A status \in FinishedStatuses :
         /\ Ended(status) \in Delivery /\ Ended(status).status = status
         /\ status # "absent" /\ (Finished(Ended(status)) => Ended(status).due)
  BY EndedType DEF FinishedStatuses
<1>3. CASE SkipDelivery(s, r)
  <2>1. Settle(s, r, Ended("SKIPPED")) /\ UNCHANGED <<received, forgotten, troubles>>
    BY <1>3 DEF SkipDelivery, messages
  <2>2. Counted(r, "SKIPPED")
    BY <1>1, <2>1 DEF Counted
  <2>3. "SKIPPED" \in FinishedStatuses
    BY DEF FinishedStatuses
  <2> QED
    BY <1>1, <1>2, <2>1, <2>2, <2>3, SettleKeeps
<1>4. CASE SendMessage(s, r)
  <2>1. /\ Settle(s, r, Ended("SENT")) /\ UNCHANGED <<forgotten, troubles>>
        /\ received' = [received EXCEPT ![r] = @ + 1]
    BY <1>4 DEF SendMessage
  <2>2. Counted(r, "SENT")
    BY <1>1, <2>1 DEF Counted
  <2>3. "SENT" \in FinishedStatuses
    BY DEF FinishedStatuses
  <2> QED
    BY <1>1, <1>2, <2>1, <2>2, <2>3, SettleKeeps
<1>5. CASE RateLimited(s, r)
  <2> DEFINE a == Attempted(delivery[r])
             d == [a EXCEPT !.status = "RATE_LIMITED", !.due = FALSE]
  <2>1. Settle(s, r, d) /\ Trouble /\ UNCHANGED <<received, forgotten>>
    BY <1>5 DEF RateLimited, messages
  <2>2. a \in DeliveryRecord
    BY <1>1, AttemptedType
  <2> HIDE DEF a
  <2>3. d \in Delivery /\ d.status = "RATE_LIMITED" /\ ~Finished(d)
    BY <2>2 DEF Delivery, DeliveryRecord, UnfinishedStatuses, Finished, FinishedStatuses
  <2> HIDE DEF d
  <2>4. Counted(r, d.status)
    BY <1>1, <2>1, <2>3 DEF Counted
  <2> QED
    BY <2>1, <2>3, <2>4, TroubleType, SettleKeeps
<1>6. ASSUME NEW arrived \in BOOLEAN, SendFails(s, r, arrived) PROVE CampaignInv'
  <2> DEFINE a == Attempted(delivery[r])
             again == [a EXCEPT !.status = "PENDING", !.due = FALSE]
             d == IF RetriesLeft(a) THEN again ELSE Ended("FAILED")
  <2>1. /\ Settle(s, r, d) /\ Trouble
        /\ received' = [received EXCEPT ![r] = IF arrived THEN @ + 1 ELSE @]
        /\ forgotten' = [forgotten EXCEPT ![r] = IF arrived THEN @ + 1 ELSE @]
    BY <1>6 DEF SendFails
  <2>2. a \in DeliveryRecord
    BY <1>1, AttemptedType
  <2> HIDE DEF a
  <2>3. /\ RetriesLeft(a) => again \in Delivery
        /\ again.status = "PENDING" /\ ~Finished(again)
    BY <2>2 DEF Delivery, DeliveryRecord, RetriesLeft,
                UnfinishedStatuses, Finished, FinishedStatuses
  <2> HIDE DEF again
  <2>4. "FAILED" \in FinishedStatuses
    BY DEF FinishedStatuses
  <2>5. d \in Delivery /\ d.status \in {"PENDING", "FAILED"} /\ (Finished(d) => d.due)
    BY <1>2, <2>3, <2>4
  <2> HIDE DEF d
  <2>6. Counted(r, d.status)
    <3>1. /\ received' \in [Recipients -> Nat] /\ forgotten' \in [Recipients -> Nat]
          /\ \A q \in Recipients : received'[q] - forgotten'[q] = received[q] - forgotten[q]
      BY <1>1, <2>1
    <3> QED
      BY <1>1, <2>5, <3>1 DEF Counted
  <2> QED
    BY <2>1, <2>5, <2>6, TroubleType, SettleKeeps
<1> QED
  BY <1>3, <1>4, <1>5, <1>6

LEMMA BadRequestKeeps ==
    ASSUME CampaignInv, NEW s \in Sessions, NEW r \in Recipients, BadRequest(s, r)
    PROVE  CampaignInv'
<1> DEFINE d == Ended("FAILED")
           own == WithChange(campaignTx[s].changes, r, d)
           t == [campaignTx[s] EXCEPT !.step = "snapshot", !.todo = {},
                                      !.changes = own, !.write = "FAILED"]
<1>1. /\ campaignTx[s].step = "send" /\ r \in campaignTx[s].todo /\ Trouble
      /\ campaignTx' = [campaignTx EXCEPT ![s] = t]
      /\ UNCHANGED <<campaign, delivery, campaignLock, received, forgotten, lost>>
  BY DEF BadRequest, messages
<1>2. campaignTx[s] \in CampaignTransaction
  BY DEF CampaignInv, CampaignTypeOK
<1>3. campaignTx[s].changes \in ChangeSets
  BY <1>2 DEF CampaignTransaction, ChangeSets
<1>4. d \in Delivery /\ d.status = "FAILED" /\ d.due
  BY EndedType DEF FinishedStatuses
<1> HIDE DEF d
<1>5. own \in ChangeSets
  BY <1>3, <1>4, WithChangeType
<1> HIDE DEF own
<1>6. t \in CampaignTransaction
  BY <1>2, <1>5 DEF CampaignTransaction, CampaignSteps, CampaignStatuses, ChangeSets
<1>7. t.step = "snapshot" /\ t.write = "FAILED" /\ t.changes = own
  BY <1>2 DEF CampaignTransaction
<1> HIDE DEF t
<1>8. campaignTx'[s] = t
  BY <1>1, <1>6, CampaignTxEffect DEF CampaignInv
<1>9. OthersKeepLocks(s) /\ \A q \in Recipients : Holds(s, q) => Holds(s, q)'
  BY <1>1, LocksStay
<1>10. OwnsItsBatch(s)' /\ WriteFitsStep(s)'
  BY <1>7, <1>8 DEF OwnsItsBatch, WriteFitsStep, BatchSteps
<1>11. t.changes = WithChange(campaignTx[s].changes, r, d)
  BY <1>7 DEF own
<1>12. Counted(r, d.status)
  BY <1>1, <1>4 DEF CampaignInv, CampaignTypeOK, Counted
<1>13. troubles' \in 0 .. MaxTroubles
  BY <1>1, TroubleType
<1> QED
  BY <1>1, <1>4, <1>6, <1>7, <1>9, <1>10, <1>11, <1>12, <1>13, NextOfBatch, ChangeKeeps

(***************************************************************************)
(* A row that the UPDATE skips is unfinished when it looks at it again.    *)
(***************************************************************************)
LEMMA SkippedIsFree ==
    ASSUME CampaignInv, NEW s \in Sessions, NEW r \in Recipients,
           MayLock(campaignLock, DeliveryRow(r), s), Unfinished(Seen(s)[r])
    PROVE  /\ Unfinished(delivery[r])
           /\ \A q \in Sessions \ {s} : r \notin DOMAIN campaignTx[q].changes
<1>1. Unfinished(delivery[r])
  BY SeenIs DEF CampaignInv, SessionSound, OwnsItsChanges
<1>2. \A q \in Sessions \ {s} : ~Holds(q, r)
  BY SessionsAssumption DEF Holds, MayLock
<1> QED
  BY <1>1, <1>2 DEF CampaignInv, SessionSound, OwnsItsChanges

LEMMA SkipRowKeeps ==
    ASSUME CampaignInv, NEW s \in Sessions, NEW r \in Recipients, SkipRow(s, r)
    PROVE  CampaignInv'
<1>1. /\ campaignTx[s].step = "skip" /\ r \in campaignTx[s].todo
      /\ MayLock(campaignLock, DeliveryRow(r), s)
      /\ UNCHANGED <<campaign, delivery, received, forgotten, troubles, lost>>
  BY DEF SkipRow, messages
<1>2. campaignTx[s] \in CampaignTransaction /\ SessionSound(s)
  BY DEF CampaignInv, CampaignTypeOK
<1>3. campaignTx[s].changes \in ChangeSets
  BY <1>2 DEF CampaignTransaction, ChangeSets
<1>4. campaignTx[s].write \in {"FAILED", "CANCELLED"}
  BY <1>1, <1>2 DEF SessionSound, WriteFitsStep
<1>5. troubles' \in 0 .. MaxTroubles
  BY <1>1 DEF CampaignInv, CampaignTypeOK
<1>6. campaignTx[s].write = "FAILED" =>
         Present /\ \A q \in Recipients \ campaignTx[s].todo : ~Unfinished(Seen(s)[q])
  BY <1>1, <1>2 DEF SessionSound, LeavesNothing
<1>7. CASE StillUnfinished(s, r)
  <2> DEFINE d == Ended("SKIPPED")
             own == WithChange(campaignTx[s].changes, r, d)
             t == [campaignTx[s] EXCEPT !.todo = @ \ {r}, !.changes = own]
             rows == {DeliveryRow(r)}
  <2>1. /\ campaignTx' = [campaignTx EXCEPT ![s] = t]
        /\ campaignLock' = WithRows(campaignLock, rows, s)
    BY <1>7 DEF SkipRow
  <2>2. d \in Delivery /\ d.status = "SKIPPED" /\ d.due
    BY EndedType DEF FinishedStatuses
  <2> HIDE DEF d
  <2>3. own \in ChangeSets
    BY <1>3, <2>2, WithChangeType
  <2> HIDE DEF own
  <2>4. t \in CampaignTransaction
    BY <1>2, <2>3 DEF CampaignTransaction, ChangeSets
  <2>5. /\ t.step = "skip" /\ t.write = campaignTx[s].write
        /\ t.todo = campaignTx[s].todo \ {r} /\ t.changes = own
    BY <1>1, <1>2 DEF CampaignTransaction
  <2> HIDE DEF t
  <2>6. campaignTx'[s] = t
    BY <2>1, <2>4, CampaignTxEffect DEF CampaignInv
  <2>7. rows \in SUBSET CampaignRows /\ \A row \in rows : MayLock(campaignLock, row, s)
    BY <1>1, RowsDiffer
  <2>8. DeliveryRow(r) \in rows
    OBVIOUS
  <2> HIDE DEF rows
  <2>9. OthersKeepLocks(s) /\ (\A q \in Recipients : Holds(s, q) => Holds(s, q)') /\ Holds(s, r)'
    BY <2>1, <2>7, <2>8, LocksTaken
  <2>10. OwnsItsBatch(s)' /\ WriteFitsStep(s)'
    BY <1>4, <2>5, <2>6 DEF OwnsItsBatch, WriteFitsStep, BatchSteps
  <2>11. t.changes = WithChange(campaignTx[s].changes, r, d)
    BY <2>5 DEF own
  <2>12. Counted(r, d.status)
    BY <1>1, <2>2 DEF CampaignInv, CampaignTypeOK, Counted
  <2>13. /\ Unfinished(Seen(s)[r]) /\ Unfinished(delivery[r])
         /\ \A q \in Sessions \ {s} : r \notin DOMAIN campaignTx[q].changes
    BY <1>1, <1>7, SkippedIsFree DEF StillUnfinished
  <2>14. t.step = "skip" /\ t.write = "FAILED" =>
            \A q \in Recipients \ t.todo : ~Unfinished(IF q = r THEN d ELSE Seen(s)[q])
    BY <1>6, <2>2, <2>5 DEF Unfinished, UnfinishedStatuses
  <2>15. d.status # "absent" /\ t.step \in {"send", "snapshot", "skip"}
    BY <2>2, <2>5
  <2> QED
    BY <1>1, <1>5, <2>1, <2>2, <2>4, <2>9, <2>10, <2>11, <2>12, <2>13, <2>14, <2>15, ChangeKeeps
<1>8. CASE ~StillUnfinished(s, r)
  <2> DEFINE t == [campaignTx[s] EXCEPT !.todo = @ \ {r}]
  <2>1. campaignTx' = [campaignTx EXCEPT ![s] = t] /\ UNCHANGED campaignLock
    BY <1>2, <1>8 DEF SkipRow, CampaignTransaction
  <2>2. t \in CampaignTransaction
    BY <1>2 DEF CampaignTransaction
  <2>3. /\ t.step = "skip" /\ t.write = campaignTx[s].write
        /\ t.todo = campaignTx[s].todo \ {r} /\ t.changes = campaignTx[s].changes
    BY <1>1, <1>2 DEF CampaignTransaction
  <2> HIDE DEF t
  <2>4. campaignTx'[s] = t
    BY <2>1, <2>2, CampaignTxEffect DEF CampaignInv
  <2>5. WriteFitsStep(s)'
    BY <1>4, <2>3, <2>4 DEF WriteFitsStep, BatchSteps
  <2>6. t.write = "FAILED" => \A q \in Recipients \ t.todo : ~Unfinished(Seen(s)[q])
    BY <1>6, <1>8, <2>3 DEF StillUnfinished
  <2>7. t.write # "CANCELLED" => Present
    BY <1>4, <1>6, <2>3
  <2> QED
    BY <1>1, <1>5, <2>1, <2>2, <2>3, <2>5, <2>6, <2>7, LocksStay, QuietStepKeeps
<1> QED
  BY <1>7, <1>8

LEMMA BatchSelectKeeps ==
    ASSUME CampaignInv, NEW s \in Sessions, NEW limit, NEW chosen \in SUBSET Recipients,
           BatchSelect(s, limit, chosen)
    PROVE  CampaignInv'
<1> DEFINE failed == [r \in LeftSending |-> Ended("FAILED")]
           taken == RowsOfBatch(chosen) \cup StartedRow(s)
           t == [campaignTx[s] EXCEPT !.step = "send", !.todo = chosen, !.changes = failed]
<1>1. /\ campaignTx[s].step = "select"
      /\ \A row \in taken : MayLock(campaignLock, row, s)
      /\ campaignTx' = [campaignTx EXCEPT ![s] = t]
      /\ campaignLock' = WithRows(campaignLock, taken, s)
      /\ UNCHANGED <<campaign, delivery, received, forgotten, troubles, lost>>
  BY DEF BatchSelect, messages
<1>2. \A r \in chosen : Processable(delivery[r])
  BY DEF BatchSelect
<1>3. campaignTx[s] \in CampaignTransaction /\ SessionSound(s)
  BY DEF CampaignInv, CampaignTypeOK
<1>4. taken \in SUBSET CampaignRows /\ \A r \in chosen \cup LeftSending : DeliveryRow(r) \in taken
  BY RowsDiffer DEF RowsOfBatch, StartedRow, LeftSending
<1> HIDE DEF taken
<1>5. /\ OthersKeepLocks(s)
      /\ \A r \in chosen \cup LeftSending : Holds(s, r)'
  BY <1>1, <1>4, LocksTaken DEF LeftSending
<1>6. Ended("FAILED") \in Delivery /\ Ended("FAILED").status = "FAILED" /\ Ended("FAILED").due
  BY EndedType DEF FinishedStatuses
<1>7. failed \in [LeftSending -> Delivery] /\ DOMAIN failed = LeftSending
  BY <1>6
<1>8. \A r \in LeftSending : failed[r].status = "FAILED" /\ failed[r].due
  BY <1>6
<1>9. LeftSending \subseteq Recipients
  BY DEF LeftSending
<1> HIDE DEF failed
<1>10. failed \in ChangeSets
  BY <1>7, <1>9 DEF ChangeSets
<1>11. t \in CampaignTransaction
  BY <1>3, <1>10 DEF CampaignTransaction, CampaignSteps, BatchSteps, ChangeSets
<1>12. t.step = "send" /\ t.write = campaignTx[s].write /\ t.todo = chosen /\ t.changes = failed
  BY <1>3 DEF CampaignTransaction
<1> HIDE DEF t
<1>13. campaignTx'[s] = t
  BY <1>1, <1>11, CampaignTxEffect DEF CampaignInv
<1>14. SentOnceUnlessForgotten'
  <2>1. \A r \in Recipients : ~SentIn(campaignTx[s], r)
    BY <1>1, <1>3 DEF SessionSound, StartsClean, SentIn
  <2>2. \A r \in Recipients : ~SentIn(t, r)
    BY <1>7, <1>8, <1>12 DEF SentIn
  <2> QED
    BY <1>1, <1>11, <2>1, <2>2, CountsStay
<1>15. OwnsItsChanges(s)'
  BY <1>1, <1>5, <1>7, <1>8, <1>12, <1>13
  DEF OwnsItsChanges, LeftSending, Unfinished, UnfinishedStatuses
<1>16. OwnsItsBatch(s)'
  BY <1>1, <1>2, <1>5, <1>7, <1>12, <1>13
  DEF OwnsItsBatch, LeftSending, Processable, Unfinished, UnfinishedStatuses
<1>17. campaignTx[s].write \in {"none", "SENDING"} /\ Present
  BY <1>1, <1>3 DEF SessionSound, WriteFitsStep, BatchSteps
<1>18. /\ WriteFitsStep(s)' /\ LeavesNothing(s)' /\ StartsClean(s)'
       /\ Present'
  BY <1>1, <1>12, <1>13, <1>17 DEF WriteFitsStep, BatchSteps, LeavesNothing, StartsClean, Present
<1>19. SessionSound(s)'
  BY <1>15, <1>16, <1>18 DEF SessionSound
<1>20. /\ received' \in [Recipients -> Nat] /\ forgotten' \in [Recipients -> Nat]
       /\ troubles' \in 0 .. MaxTroubles /\ lost' \in 0 .. MaxLost
  BY <1>1 DEF CampaignInv, CampaignTypeOK
<1> QED
  BY <1>1, <1>5, <1>11, <1>14, <1>19, <1>20, TxStepKeeps

-----------------------------------------------------------------------------
(***************************************************************************)
(* The end of a transaction.                                               *)
(***************************************************************************)
LEMMA EndedTx ==
    ASSUME CampaignInv, NEW s \in Sessions, EndCampaignTx(s)
    PROVE  /\ campaignTx' \in [Sessions -> CampaignTransaction]
           /\ campaignTx'[s] = IdleCampaignTx
           /\ \A q \in Sessions \ {s} : campaignTx'[q] = campaignTx[q]
           /\ campaignLock' \in [CampaignRows -> Sessions \cup {Nobody}]
           /\ \A q \in Sessions \ {s}, r \in Recipients :
                 campaignLock[DeliveryRow(r)] = q => campaignLock'[DeliveryRow(r)] = q
           /\ SessionSound(s)'
<1>1. campaignTx' = [campaignTx EXCEPT ![s] = IdleCampaignTx]
  BY DEF EndCampaignTx
<1>2. /\ campaignTx' \in [Sessions -> CampaignTransaction]
      /\ campaignTx'[s] = IdleCampaignTx
      /\ \A q \in Sessions \ {s} : campaignTx'[q] = campaignTx[q]
  BY <1>1, IdleCampaignType, CampaignTxEffect DEF CampaignInv
<1>3. /\ campaignLock' \in [CampaignRows -> Sessions \cup {Nobody}]
      /\ \A row \in CampaignRows :
            campaignLock'[row] = IF campaignLock[row] = s THEN Nobody ELSE campaignLock[row]
  BY DEF EndCampaignTx, WithoutSession, CampaignInv, CampaignTypeOK
<1>4. SessionSound(s)'
  BY <1>2, IdleCampaignType
  DEF SessionSound, StartsClean, OwnsItsChanges, OwnsItsBatch, WriteFitsStep, LeavesNothing, BatchSteps
<1> QED
  BY <1>2, <1>3, <1>4, RowsDiffer

LEMMA CommitKeeps ==
    ASSUME CampaignInv, NEW s \in Sessions, CampaignCommit(s) PROVE CampaignInv'
<1> DEFINE own == campaignTx[s].changes
           w == campaignTx[s].write
<1>1. /\ campaignTx[s].step = "commit" \/ (campaignTx[s].step = "skip" /\ campaignTx[s].todo = {})
      /\ campaign' = IF w = "none" THEN campaign ELSE [campaign EXCEPT !.status = w]
      /\ delivery' = Seen(s) /\ EndCampaignTx(s)
      /\ UNCHANGED <<received, forgotten, troubles, lost>>
  BY DEF CampaignCommit, messages
<1>2. /\ campaignTx[s] \in CampaignTransaction /\ SessionSound(s)
      /\ delivery \in [Recipients -> Delivery]
      /\ campaign \in [status : CampaignStatuses, due : BOOLEAN]
  BY DEF CampaignInv, CampaignTypeOK
<1>3. DOMAIN own \subseteq Recipients /\ \A r \in DOMAIN own : own[r] \in Delivery
  BY <1>2, ChangesType
<1>4. \A r \in Recipients : delivery'[r] = IF r \in DOMAIN own THEN own[r] ELSE delivery[r]
  BY <1>1, SeenIs
<1>5. delivery' \in [Recipients -> Delivery]
  BY <1>1, <1>2, <1>3 DEF Seen
<1>6. w \in CampaignStatuses \cup {"none"}
  BY <1>2 DEF CampaignTransaction
<1>7. /\ campaign' \in [status : CampaignStatuses, due : BOOLEAN]
      /\ campaign'.status = IF w = "none" THEN campaign.status ELSE w
  BY <1>1, <1>2, <1>6
<1>8. CampaignTypeOK'
  BY <1>1, <1>5, <1>7, EndedTx DEF CampaignInv, CampaignTypeOK
<1>9. \A r \in DOMAIN own :
         /\ Unfinished(delivery[r]) /\ own[r].status # "absent"
         /\ Finished(own[r]) => own[r].due
  BY <1>2 DEF SessionSound, OwnsItsChanges
<1>10. Present => Present'
  BY <1>3, <1>4, <1>9 DEF Present
<1>11. \A q \in Sessions : SessionSound(q)'
  <2>1. \A r \in Recipients : delivery'[r].status = delivery[r].status \/ r \in DOMAIN own
    BY <1>4
  <2> QED
    BY <1>1, <1>10, <2>1, EndedTx, OthersStaySound
<1>12. DeliveriesSound'
  BY <1>4, <1>9 DEF CampaignInv, DeliveriesSound, Finished
<1>13. SentOutHasDeliveries'
  <2>1. w \notin {"none", "CANCELLED"} => Present
    BY <1>1, <1>2 DEF SessionSound
  <2> QED
    BY <1>7, <1>10, <2>1 DEF CampaignInv, SentOutHasDeliveries
<1>14. SentOnceUnlessForgotten'
  <2>1. \A r \in Recipients : NotedAsSent(r)' <=> NotedAsSent(r)
    <3> SUFFICES ASSUME NEW r \in Recipients PROVE NotedAsSent(r)' <=> NotedAsSent(r)
      OBVIOUS
    <3>1. ~SentIn(campaignTx'[s], r)
      BY <1>1, EndedTx, IdleCampaignType DEF SentIn
    <3>2. \A q \in Sessions \ {s} : SentIn(campaignTx'[q], r) <=> SentIn(campaignTx[q], r)
      BY <1>1, EndedTx DEF SentIn
    <3>3. delivery'[r].status = "SENT" <=> (delivery[r].status = "SENT" \/ SentIn(campaignTx[s], r))
      BY <1>4, <1>9 DEF SentIn, Unfinished, UnfinishedStatuses
    <3>4. NotedAsSent(r) <=> (delivery[r].status = "SENT" \/ \E q \in Sessions : SentIn(campaignTx[q], r))
      BY DEF NotedAsSent, SentIn
    <3>5. NotedAsSent(r)' <=> (delivery'[r].status = "SENT" \/ \E q \in Sessions : SentIn(campaignTx'[q], r))
      BY DEF NotedAsSent, SentIn
    <3> QED
      BY <3>1, <3>2, <3>3, <3>4, <3>5
  <2>2. SentOnceUnlessForgotten
    BY DEF CampaignInv
  <2> HIDE DEF NotedAsSent
  <2> QED
    BY <1>1, <2>1, <2>2 DEF SentOnceUnlessForgotten
<1>15. ClosedMeansFinished'
  <2> SUFFICES ASSUME campaign'.status \in {"COMPLETED", "FAILED"}, NEW r \in Recipients
               PROVE  ~Unfinished(delivery'[r])
    BY DEF ClosedMeansFinished, Unfinished
  <2>1. CASE w = "none"
    <3>1. \A q \in Recipients : ~Unfinished(delivery[q])
      BY <1>7, <2>1 DEF CampaignInv, ClosedMeansFinished
    <3> QED
      BY <1>4, <1>9, <3>1
  <2>2. CASE w # "none"
    <3>1. w \in {"COMPLETED", "FAILED"}
      BY <1>7, <2>2
    <3>2. ~Unfinished(Seen(s)[r])
      BY <1>1, <1>2, <3>1 DEF SessionSound, WriteFitsStep, LeavesNothing
    <3> QED
      BY <1>1, <3>2
  <2> QED
    BY <2>1, <2>2
<1> QED
  BY <1>8, <1>11, <1>12, <1>13, <1>14, <1>15 DEF CampaignInv

LEMMA RollbackKeeps ==
    ASSUME CampaignInv, NEW s \in Sessions, CampaignRollback(s), lost' \in 0 .. MaxLost
    PROVE  CampaignInv'
<1> DEFINE own == campaignTx[s].changes
<1>1. /\ forgotten' = [r \in Recipients |->
                          IF SentIn(campaignTx[s], r) THEN forgotten[r] + 1 ELSE forgotten[r]]
      /\ EndCampaignTx(s)
      /\ UNCHANGED <<campaign, delivery, received, troubles>>
  BY DEF CampaignRollback, SentIn
<1>2. campaignTx[s] \in CampaignTransaction /\ SessionSound(s)
  BY DEF CampaignInv, CampaignTypeOK
<1>3. /\ received \in [Recipients -> Nat] /\ forgotten \in [Recipients -> Nat]
      /\ forgotten' \in [Recipients -> Nat]
  BY <1>1 DEF CampaignInv, CampaignTypeOK
<1>4. CampaignTypeOK'
  BY <1>1, <1>3, EndedTx DEF CampaignInv, CampaignTypeOK
<1>5. \A q \in Sessions : SessionSound(q)'
  <2>1. Present => Present'
    BY <1>1 DEF Present
  <2> QED
    BY <1>1, <2>1, EndedTx, OthersStaySound
<1>6. DeliveriesSound' /\ SentOutHasDeliveries' /\ ClosedMeansFinished'
  BY <1>1 DEF CampaignInv, DeliveriesSound, SentOutHasDeliveries, ClosedMeansFinished,
              Present, Finished, Unfinished
<1>7. SentOnceUnlessForgotten'
  <2> SUFFICES ASSUME NEW r \in Recipients
               PROVE  received'[r] = forgotten'[r] + IF NotedAsSent(r)' THEN 1 ELSE 0
    BY DEF SentOnceUnlessForgotten
  <2>1. ~SentIn(campaignTx'[s], r)
    BY <1>1, EndedTx, IdleCampaignType DEF SentIn
  <2>2. \A q \in Sessions \ {s} : SentIn(campaignTx'[q], r) <=> SentIn(campaignTx[q], r)
    BY <1>1, EndedTx DEF SentIn
  <2>3. SentIn(campaignTx[s], r) =>
           /\ delivery[r].status # "SENT"
           /\ \A q \in Sessions \ {s} : ~SentIn(campaignTx[q], r)
    BY <1>2, ChangesAreExclusive
    DEF SentIn, SessionSound, OwnsItsChanges, Unfinished, UnfinishedStatuses
  <2>4. NotedAsSent(r) <=> (delivery[r].status = "SENT" \/ \E q \in Sessions : SentIn(campaignTx[q], r))
    BY DEF NotedAsSent, SentIn
  <2>5. NotedAsSent(r)' <=> (delivery'[r].status = "SENT" \/ \E q \in Sessions : SentIn(campaignTx'[q], r))
    BY DEF NotedAsSent, SentIn
  <2> HIDE DEF NotedAsSent
  <2>6. received[r] = forgotten[r] + IF NotedAsSent(r) THEN 1 ELSE 0
    BY DEF CampaignInv, SentOnceUnlessForgotten
  <2>7. /\ received'[r] = received[r] /\ received[r] \in Nat /\ forgotten[r] \in Nat
        /\ forgotten'[r] = IF SentIn(campaignTx[s], r) THEN forgotten[r] + 1 ELSE forgotten[r]
        /\ delivery'[r] = delivery[r]
    BY <1>1, <1>3
  <2>8. CASE SentIn(campaignTx[s], r)
    <3>1. NotedAsSent(r) /\ ~NotedAsSent(r)'
      BY <2>1, <2>2, <2>3, <2>4, <2>5, <2>7, <2>8
    <3> QED
      BY <2>6, <2>7, <2>8, <3>1
  <2>9. CASE ~SentIn(campaignTx[s], r)
    <3>1. NotedAsSent(r)' <=> NotedAsSent(r)
      BY <2>1, <2>2, <2>4, <2>5, <2>7, <2>9
    <3> QED
      BY <2>6, <2>7, <2>9, <3>1
  <2> QED
    BY <2>8, <2>9
<1> QED
  BY <1>4, <1>5, <1>6, <1>7 DEF CampaignInv

-----------------------------------------------------------------------------
(***************************************************************************)
(* Steps outside of the transactions.                                      *)
(***************************************************************************)
LEMMA MaterializedIs ==
    ASSUME CampaignInv, NEW audience \in SUBSET Recipients
    PROVE  /\ Present => Materialized(audience) = delivery
           /\ Materialized(audience) \in [Recipients -> Delivery]
           /\ ~Present => \A r \in Recipients :
                 /\ Materialized(audience)[r].status \in {"absent", "PENDING"}
                 /\ r \in audience => Materialized(audience)[r].status = "PENDING"
<1>1. delivery \in [Recipients -> Delivery]
  BY DEF CampaignInv, CampaignTypeOK
<1>2. NoDelivery \in Delivery /\ [NoDelivery EXCEPT !.status = "PENDING"] \in Delivery
  <2>1. 0 \in 0 .. MaxAttempts /\ 0 < MaxAttempts
    BY CampaignAssumption
  <2> QED
    BY <2>1 DEF NoDelivery, Delivery, DeliveryRecord, UnfinishedStatuses
<1>3. /\ NoDelivery.status = "absent"
      /\ [NoDelivery EXCEPT !.status = "PENDING"].status = "PENDING"
  BY DEF NoDelivery
<1> DEFINE pending == [NoDelivery EXCEPT !.status = "PENDING"]
<1> HIDE DEF pending
<1>4. pending \in Delivery /\ pending.status = "PENDING"
  BY <1>2, <1>3 DEF pending
<1>5. Materialized(audience) = IF ~Present
                               THEN [r \in Recipients |-> IF r \in audience THEN pending ELSE NoDelivery]
                               ELSE delivery
  BY DEF Materialized, Present, pending
<1> QED
  BY <1>1, <1>2, <1>3, <1>4, <1>5

LEMMA ScheduleKeeps ==
    ASSUME CampaignInv, NEW audience \in SUBSET Recipients, NEW atOnce \in BOOLEAN,
           Schedule(audience, atOnce)
    PROVE  CampaignInv'
<1>1. /\ audience # {}
      /\ campaign' = [status |-> IF atOnce THEN "SENDING" ELSE "SCHEDULED", due |-> atOnce]
      /\ delivery' = Materialized(audience)
      /\ UNCHANGED <<campaignLock, campaignTx, received, forgotten, troubles, lost>>
  BY DEF Schedule, messages
<1>2. /\ campaign' \in [status : CampaignStatuses, due : BOOLEAN]
      /\ campaign'.status \in {"SENDING", "SCHEDULED"}
  BY <1>1 DEF CampaignStatuses
<1>3. CampaignTypeOK'
  BY <1>1, <1>2, MaterializedIs DEF CampaignInv, CampaignTypeOK
<1>4. ClosedMeansFinished'
  BY <1>2 DEF ClosedMeansFinished
<1>5. CASE Present
  <2>1. delivery' = delivery
    BY <1>1, <1>5, MaterializedIs
  <2>2. Present'
    BY <1>5, <2>1 DEF Present
  <2>3. \A q \in Sessions : SessionSound(q)'
    BY <1>1, <2>1, <2>2
    DEF CampaignInv, SessionSound, StartsClean, OwnsItsChanges, OwnsItsBatch, WriteFitsStep,
        LeavesNothing, Holds, Seen, Finished, Unfinished
  <2>4. DeliveriesSound' /\ SentOutHasDeliveries' /\ SentOnceUnlessForgotten'
    BY <1>1, <2>1, <2>2
    DEF CampaignInv, DeliveriesSound, SentOutHasDeliveries, SentOnceUnlessForgotten, NotedAsSent,
        Finished
  <2> QED
    BY <1>3, <1>4, <2>3, <2>4 DEF CampaignInv
<1>6. CASE ~Present
  <2>1. \A r \in Recipients : ~Unfinished(delivery[r]) /\ delivery[r].status = "absent"
    BY <1>6 DEF Present, Unfinished, UnfinishedStatuses
  <2>2. \A r \in Recipients :
           /\ delivery'[r].status \in {"absent", "PENDING"}
           /\ r \in audience => delivery'[r].status # "absent"
    BY <1>1, <1>6, MaterializedIs
  <2>3. Present'
    BY <1>1, <2>2 DEF Present
  <2>4. \A q \in Sessions : DOMAIN campaignTx[q].changes = {}
    <3> SUFFICES ASSUME NEW q \in Sessions PROVE DOMAIN campaignTx[q].changes = {}
      OBVIOUS
    <3>1. DOMAIN campaignTx[q].changes \subseteq Recipients
      BY ChangesType DEF CampaignInv, CampaignTypeOK
    <3> QED
      BY <2>1, <3>1 DEF CampaignInv, SessionSound, OwnsItsChanges
  <2>5. \A q \in Sessions : SessionSound(q)'
    <3> SUFFICES ASSUME NEW q \in Sessions PROVE SessionSound(q)'
      OBVIOUS
    <3>1. SessionSound(q) /\ campaignTx'[q] = campaignTx[q]
      BY <1>1 DEF CampaignInv
    <3>2. campaignTx[q].todo \subseteq Recipients
      BY DEF CampaignInv, CampaignTypeOK, CampaignTransaction
    <3>3. StartsClean(q)' /\ OwnsItsChanges(q)' /\ WriteFitsStep(q)'
      BY <2>4, <3>1 DEF SessionSound, StartsClean, OwnsItsChanges, WriteFitsStep
    <3>4. OwnsItsBatch(q)'
      BY <2>1, <3>1, <3>2 DEF SessionSound, OwnsItsBatch
    <3>5. LeavesNothing(q)'
      BY <1>6, <3>1 DEF SessionSound, LeavesNothing
    <3> QED
      BY <2>3, <3>1, <3>3, <3>4, <3>5 DEF SessionSound
  <2>6. DeliveriesSound' /\ SentOutHasDeliveries'
    BY <2>2, <2>3 DEF DeliveriesSound, SentOutHasDeliveries, Finished, FinishedStatuses
  <2>7. SentOnceUnlessForgotten'
    <3>1. \A r \in Recipients : ~NotedAsSent(r) /\ ~NotedAsSent(r)'
      BY <1>1, <2>1, <2>2, <2>4 DEF NotedAsSent
    <3> HIDE DEF NotedAsSent
    <3> QED
      BY <1>1, <3>1 DEF CampaignInv, SentOnceUnlessForgotten
  <2> QED
    BY <1>3, <1>4, <2>5, <2>6, <2>7 DEF CampaignInv
<1> QED
  BY <1>5, <1>6

LEMMA CampaignDueKeeps ==
    ASSUME CampaignInv, CampaignDue PROVE CampaignInv'
<1>1. /\ campaign' = [campaign EXCEPT !.due = TRUE]
      /\ UNCHANGED <<delivery, campaignLock, campaignTx, received, forgotten, troubles, lost>>
  BY DEF CampaignDue, messages
<1>2. CampaignTypeOK' /\ campaign'.status = campaign.status
  BY <1>1 DEF CampaignInv, CampaignTypeOK
<1>3. \A q \in Sessions : SessionSound(q)'
  BY <1>1
  DEF CampaignInv, SessionSound, StartsClean, OwnsItsChanges, OwnsItsBatch, WriteFitsStep,
      LeavesNothing, Holds, Seen, Finished, Unfinished, Present
<1>4. /\ DeliveriesSound' /\ SentOutHasDeliveries' /\ SentOnceUnlessForgotten'
      /\ ClosedMeansFinished'
  BY <1>1, <1>2
  DEF CampaignInv, DeliveriesSound, SentOutHasDeliveries, SentOnceUnlessForgotten, NotedAsSent,
      ClosedMeansFinished, Finished, Unfinished, Present
<1> QED
  BY <1>2, <1>3, <1>4 DEF CampaignInv

LEMMA DeliveryDueKeeps ==
    ASSUME CampaignInv, NEW r \in Recipients, DeliveryDue(r) PROVE CampaignInv'
<1>1. /\ delivery' = [delivery EXCEPT ![r].due = TRUE]
      /\ UNCHANGED <<campaign, campaignLock, campaignTx, received, forgotten, troubles, lost>>
  BY DEF DeliveryDue, messages
<1>2. delivery \in [Recipients -> Delivery]
  BY DEF CampaignInv, CampaignTypeOK
<1>3. delivery' \in [Recipients -> Delivery]
  BY <1>1, <1>2 DEF Delivery, DeliveryRecord
<1>4. \A q \in Recipients : /\ delivery'[q].status = delivery[q].status
                            /\ delivery[q].due => delivery'[q].due
  BY <1>1, <1>2 DEF Delivery, DeliveryRecord
<1>5. CampaignTypeOK'
  BY <1>1, <1>3 DEF CampaignInv, CampaignTypeOK
<1>6. Present' <=> Present
  BY <1>4 DEF Present
<1>7. \A q \in Sessions : SessionSound(q)'
  <2> SUFFICES ASSUME NEW q \in Sessions PROVE SessionSound(q)'
    OBVIOUS
  <2>1. SessionSound(q) /\ campaignTx'[q] = campaignTx[q] /\ campaignLock' = campaignLock
    BY <1>1 DEF CampaignInv
  <2>2. campaignTx[q].todo \subseteq Recipients /\ DOMAIN campaignTx[q].changes \subseteq Recipients
    BY ChangesType DEF CampaignInv, CampaignTypeOK, CampaignTransaction
  <2>3. StartsClean(q)' /\ WriteFitsStep(q)'
    BY <2>1 DEF SessionSound, StartsClean, WriteFitsStep
  <2>4. OwnsItsChanges(q)' /\ OwnsItsBatch(q)'
    BY <1>4, <2>1, <2>2 DEF SessionSound, OwnsItsChanges, OwnsItsBatch, Holds, Unfinished, Finished
  <2>5. \A p \in Recipients : Seen(q)'[p].status = Seen(q)[p].status
    BY <1>4, <2>1 DEF Seen
  <2>6. LeavesNothing(q)'
    BY <2>1, <2>5 DEF SessionSound, LeavesNothing, Unfinished
  <2> QED
    BY <1>6, <2>1, <2>3, <2>4, <2>6 DEF SessionSound
<1>8. DeliveriesSound' /\ SentOutHasDeliveries' /\ ClosedMeansFinished'
  BY <1>1, <1>4, <1>6
  DEF CampaignInv, DeliveriesSound, SentOutHasDeliveries, ClosedMeansFinished, Finished, Unfinished
<1>9. SentOnceUnlessForgotten'
  <2>1. \A q \in Recipients : NotedAsSent(q)' <=> NotedAsSent(q)
    BY <1>1, <1>4 DEF NotedAsSent
  <2> HIDE DEF NotedAsSent
  <2> QED
    BY <1>1, <2>1 DEF CampaignInv, SentOnceUnlessForgotten
<1> QED
  BY <1>5, <1>7, <1>8, <1>9 DEF CampaignInv

-----------------------------------------------------------------------------
LEMMA CampaignInvInit == CampaignInit => CampaignInv
<1> SUFFICES ASSUME CampaignInit PROVE CampaignInv
  OBVIOUS
<1>1. 0 \in 0 .. MaxAttempts /\ 0 \in 0 .. MaxTroubles /\ 0 \in 0 .. MaxLost
  BY CampaignAssumption
<1>2. NoDelivery \in Delivery /\ NoDelivery.status = "absent"
  BY <1>1 DEF NoDelivery, Delivery, DeliveryRecord
<1>3. CampaignTypeOK
  BY <1>1, <1>2, IdleCampaignType DEF CampaignInit, CampaignTypeOK, CampaignStatuses
<1>4. \A s \in Sessions : campaignTx[s] = IdleCampaignTx
  BY DEF CampaignInit
<1>5. \A s \in Sessions : SessionSound(s)
  BY <1>4, IdleCampaignType
  DEF SessionSound, StartsClean, OwnsItsChanges, OwnsItsBatch, WriteFitsStep, LeavesNothing, BatchSteps
<1>6. \A r \in Recipients : delivery[r].status = "absent"
  BY <1>2 DEF CampaignInit
<1>7. DeliveriesSound /\ SentOutHasDeliveries /\ ClosedMeansFinished
  BY <1>6 DEF CampaignInit, DeliveriesSound, SentOutHasDeliveries, ClosedMeansFinished,
              Finished, FinishedStatuses, Unfinished, UnfinishedStatuses
<1>8. SentOnceUnlessForgotten
  <2>1. \A r \in Recipients : ~NotedAsSent(r)
    BY <1>4, <1>6, IdleCampaignType DEF NotedAsSent
  <2> HIDE DEF NotedAsSent
  <2> QED
    BY <2>1 DEF CampaignInit, SentOnceUnlessForgotten
<1> QED
  BY <1>3, <1>5, <1>7, <1>8 DEF CampaignInv

LEMMA CampaignInvNext == CampaignInv /\ [CampaignNext]_campaignVars => CampaignInv'
<1> SUFFICES ASSUME CampaignInv, [CampaignNext]_campaignVars PROVE CampaignInv'
  OBVIOUS
<1>1. ASSUME NEW audience \in SUBSET Recipients, NEW atOnce \in BOOLEAN, Schedule(audience, atOnce)
      PROVE  CampaignInv'
  BY <1>1, ScheduleKeeps
<1>2. CASE CampaignDue
  BY <1>2, CampaignDueKeeps
<1>3. ASSUME NEW r \in Recipients, DeliveryDue(r) PROVE CampaignInv'
  BY <1>3, DeliveryDueKeeps
<1>4. ASSUME NEW s \in Sessions, PauseBegin(s) \/ CancelBegin(s) \/ BatchBegin(s)
      PROVE  CampaignInv'
  BY <1>4, AdministratorBegins
<1>5. ASSUME NEW s \in Sessions, NEW r \in Recipients, SkipRow(s, r) PROVE CampaignInv'
  BY <1>5, SkipRowKeeps
<1>6. ASSUME NEW s \in Sessions, NEW r \in Recipients, DeliveryStep(s, r) PROVE CampaignInv'
  BY <1>6, DeliveryStepKeeps, BadRequestKeeps DEF DeliveryStep
<1>7. ASSUME NEW s \in Sessions, SelectStep(s) PROVE CampaignInv'
  BY <1>7, BatchSelectKeeps DEF SelectStep
<1>8. ASSUME NEW s \in Sessions, SkipSnapshot(s) \/ PhotoUnreadable(s) \/ BatchCount(s)
      PROVE  CampaignInv'
  BY <1>8, SkipSnapshotKeeps, PhotoUnreadableKeeps, BatchCountKeeps
<1>9. ASSUME NEW s \in Sessions, CampaignCommit(s) PROVE CampaignInv'
  BY <1>9, CommitKeeps
<1>10. ASSUME NEW s \in Sessions, CampaignCrash(s) PROVE CampaignInv'
  <2>1. lost' \in 0 .. MaxLost /\ CampaignRollback(s)
    BY <1>10, CampaignAssumption DEF CampaignCrash, CampaignInv, CampaignTypeOK
  <2> QED
    BY <2>1, RollbackKeeps
<1>11. ASSUME NEW s \in Sessions, CampaignDeadlock(s) PROVE CampaignInv'
  <2>1. lost' \in 0 .. MaxLost /\ CampaignRollback(s)
    BY <1>11 DEF CampaignDeadlock, CampaignInv, CampaignTypeOK
  <2> QED
    BY <2>1, RollbackKeeps
<1>12. CASE UNCHANGED campaignVars
  <2>1. UNCHANGED <<campaign, delivery, campaignLock, campaignTx, received, forgotten, troubles, lost>>
    BY <1>12 DEF campaignVars, messages
  <2>2. CampaignTypeOK'
    BY <2>1 DEF CampaignInv, CampaignTypeOK
  <2>3. \A q \in Sessions : SessionSound(q)'
    BY <2>1
    DEF CampaignInv, SessionSound, StartsClean, OwnsItsChanges, OwnsItsBatch, WriteFitsStep,
        LeavesNothing, Holds, Seen, Finished, Unfinished, Present
  <2>4. /\ DeliveriesSound' /\ SentOutHasDeliveries' /\ SentOnceUnlessForgotten'
        /\ ClosedMeansFinished'
    BY <2>1
    DEF CampaignInv, DeliveriesSound, SentOutHasDeliveries, SentOnceUnlessForgotten, NotedAsSent,
        ClosedMeansFinished, Finished, Unfinished, Present
  <2> QED
    BY <2>2, <2>3, <2>4 DEF CampaignInv
<1>13. CASE CampaignNext
  BY <1>13, <1>1, <1>2, <1>3, <1>4, <1>5, <1>6, <1>7, <1>8, <1>9, <1>10, <1>11 DEF CampaignNext
<1> QED
  BY <1>12, <1>13

(***************************************************************************)
(* The inductive invariant holds; it has the type of the state in it.      *)
(***************************************************************************)
THEOREM Invariance == CampaignSpec => []CampaignInv
  BY CampaignInvInit, CampaignInvNext, PTL DEF CampaignSpec

(***************************************************************************)
(* No recipient is written to twice for one delivery, unless a lost        *)
(* transaction or a timeout made everyone forget (process_next_batch).     *)
(***************************************************************************)
THEOREM OneMessageForEachSent == CampaignSpec => []SentOnceUnlessForgotten
<1>1. CampaignInv => SentOnceUnlessForgotten
  BY DEF CampaignInv
<1> QED
  BY <1>1, Invariance, PTL

(***************************************************************************)
(* A campaign that is COMPLETED or FAILED has no unfinished delivery,      *)
(* whoever paused, cancelled or sent it meanwhile.                         *)
(***************************************************************************)
THEOREM ClosedIsFinished == CampaignSpec => []ClosedMeansFinished
<1>1. CampaignInv => ClosedMeansFinished
  BY DEF CampaignInv
<1> QED
  BY <1>1, Invariance, PTL

(***************************************************************************)
(* What became of a delivery is final: only unfinished rows are changed by *)
(* a transaction, and it has them locked.                                  *)
(***************************************************************************)
THEOREM FinishedIsFinal == CampaignSpec => FinishedDeliveryIsFinal
<1> DEFINE Final == \A r \in Recipients : Finished(delivery[r]) => delivery'[r] = delivery[r]
<1>1. CampaignInv /\ [CampaignNext]_campaignVars => [Final]_campaignVars
  <2> SUFFICES ASSUME CampaignInv, CampaignNext PROVE Final
    OBVIOUS
  <2>1. ASSUME NEW s \in Sessions, CampaignCommit(s) PROVE Final
    <3>1. delivery' = Seen(s) /\ OwnsItsChanges(s)
      BY <2>1 DEF CampaignCommit, CampaignInv, SessionSound
    <3> QED
      BY <3>1, SeenIs
      DEF OwnsItsChanges, Finished, FinishedStatuses, Unfinished, UnfinishedStatuses
  <2>2. ASSUME NEW audience \in SUBSET Recipients, NEW atOnce \in BOOLEAN,
               Schedule(audience, atOnce)
        PROVE  Final
    <3>1. delivery' = Materialized(audience)
      BY <2>2 DEF Schedule
    <3> QED
      BY <3>1, MaterializedIs DEF Present, Finished, FinishedStatuses
  <2>3. ASSUME NEW r \in Recipients, DeliveryDue(r) PROVE Final
    BY <2>3 DEF DeliveryDue, CampaignInv, CampaignTypeOK, DeliveriesSound
  <2>4. CASE delivery' = delivery
    BY <2>4
  <2>5. ASSUME NEW s \in Sessions, NEW r \in Recipients, SkipRow(s, r) \/ DeliveryStep(s, r)
        PROVE  delivery' = delivery
    BY <2>5
    DEF SkipRow, DeliveryStep, SkipDelivery, SendMessage, RateLimited, SendFails, BadRequest, Settle
  <2>6. ASSUME NEW s \in Sessions,
               \/ PauseBegin(s) \/ CancelBegin(s) \/ BatchBegin(s) \/ SkipSnapshot(s)
               \/ SelectStep(s) \/ PhotoUnreadable(s) \/ BatchCount(s)
               \/ CampaignCrash(s) \/ CampaignDeadlock(s)
        PROVE  delivery' = delivery
    BY <2>6
    DEF PauseBegin, CancelBegin, BatchBegin, Begin, SkipSnapshot, SelectStep, BatchSelect,
        PhotoUnreadable, BatchCount, CampaignCrash, CampaignDeadlock, CampaignRollback
  <2>7. CampaignDue => delivery' = delivery
    BY DEF CampaignDue
  <2> HIDE DEF Final
  <2> QED
    BY <2>1, <2>2, <2>3, <2>4, <2>5, <2>6, <2>7 DEF CampaignNext
<1> QED
  BY <1>1, Invariance, PTL DEF CampaignSpec, FinishedDeliveryIsFinal
=============================================================================
