---------------------------- MODULE SupportProofs ----------------------------
(***************************************************************************)
(* Proofs about the small components around the order flow, for any        *)
(* sessions, registrations, files, rows and customers and every bound:     *)
(* SellerRegistration, SeenMarks, EventDelivery, ReceiptFiles, PromoCodes; *)
(* and, with the campaigns, about all of them side by side.                *)
(***************************************************************************)
EXTENDS MCSupport, CampaignsProofs, FiniteSetTheorems

-----------------------------------------------------------------------------
(***************************************************************************)
(* Registrations.  Whoever is about to write VERIFIED read an approved     *)
(* registration, and an approval is never forgotten, whatever is written   *)
(* over it.                                                                *)
(***************************************************************************)
DecisionsAreKept ==
    /\ \A s \in Sessions :
          /\ registrationTx[s].registration = NoRegistration => IdleSeller(s)
          /\ registrationTx[s].write = "VERIFIED" => registrationTx[s].registration \in approved
    /\ \A r \in Registrations : registration[r].status = "APPROVED" => r \in approved

RegistrationInv == RegistrationTypeOK /\ DecisionsAreKept /\ VerifiedOwnsTheCredential

LEMMA IdleRegistrationType ==
    IdleRegistrationTx \in RegistrationTransaction /\ IdleRegistrationTx.write = "absent"
  BY DEF IdleRegistrationTx, RegistrationTransaction, RegistrationStatuses, ActiveStatuses

LEMMA RegistrationInvInit == RegistrationInit => RegistrationInv
<1> SUFFICES ASSUME RegistrationInit PROVE RegistrationInv
  OBVIOUS
<1> USE DEF RegistrationInit
<1>1. RegistrationTypeOK
  BY IdleRegistrationType
  DEF RegistrationTypeOK, Registration, NoSuchRegistration, RegistrationStatuses, ActiveStatuses
<1>2. DecisionsAreKept
  BY IdleRegistrationType DEF DecisionsAreKept, IdleSeller, NoSuchRegistration
<1>3. VerifiedOwnsTheCredential
  BY DEF VerifiedOwnsTheCredential, NoSuchRegistration
<1> QED
  BY <1>1, <1>2, <1>3 DEF RegistrationInv

LEMMA DecidesKeeps ==
    ASSUME RegistrationInv, NEW s \in Sessions, NEW r \in Registrations,
           NEW status \in RegistrationStatuses, status = "VERIFIED" => r \in approved,
           Decides(s, r, status)
    PROVE  RegistrationInv'
<1> DEFINE t == [registration |-> r, write |-> status]
<1>1. t \in RegistrationTransaction
  BY DEF RegistrationTransaction
<1>2. /\ registrationTx' = [registrationTx EXCEPT ![s] = t]
      /\ UNCHANGED <<registration, credential, approved>>
  BY DEF Decides
<1>3. \A q \in Sessions : registrationTx'[q] = IF q = s THEN t ELSE registrationTx[q]
  BY <1>2 DEF RegistrationInv, RegistrationTypeOK
<1>4. RegistrationTypeOK'
  BY <1>1, <1>2 DEF RegistrationInv, RegistrationTypeOK
<1>5. DecisionsAreKept'
  BY <1>2, <1>3, RegistrationsAssumption DEF RegistrationInv, DecisionsAreKept, IdleSeller
<1>6. VerifiedOwnsTheCredential'
  BY <1>2 DEF RegistrationInv, VerifiedOwnsTheCredential
<1> QED
  BY <1>4, <1>5, <1>6 DEF RegistrationInv

LEMMA RegistrationCommitKeeps ==
    ASSUME RegistrationInv, NEW s \in Sessions, RegistrationCommit(s)
    PROVE  RegistrationInv'
<1> DEFINE t == registrationTx[s]
<1>1. t \in RegistrationTransaction /\ t.registration \in Registrations
  BY DEF RegistrationInv, RegistrationTypeOK, DecisionsAreKept, RegistrationCommit,
         RegistrationTransaction
<1>2. /\ t.write = "VERIFIED" => credential = NoRegistration /\ t.registration \in approved
      /\ credential' = IF t.write = "VERIFIED" THEN t.registration ELSE credential
      /\ approved' = IF t.write = "APPROVED" THEN approved \cup {t.registration} ELSE approved
      /\ registrationTx' = [registrationTx EXCEPT ![s] = IdleRegistrationTx]
  BY DEF RegistrationCommit, UniqueEmail, EndRegistrationTx, RegistrationInv, DecisionsAreKept
<1>3. /\ registration' \in [Registrations -> Registration]
      /\ \A r \in Registrations : registration'[r].status =
            IF r = t.registration THEN t.write ELSE registration[r].status
  <2>1. t.write \in RegistrationStatuses /\ registration[t.registration] \in Registration
    BY <1>1 DEF RegistrationInv, RegistrationTypeOK, RegistrationTransaction
  <2> DEFINE row == [registration[t.registration] EXCEPT
                       !.status = t.write,
                       !.linked = @ \/ t.write = "AWAITING_APPROVAL",
                       !.undecided = @ /\ t.write # "AWAITING_APPROVAL"]
  <2>2. row \in Registration /\ row.status = t.write
    BY <2>1 DEF Registration
  <2>3. registration' = [registration EXCEPT ![t.registration] = row]
    BY <1>1, <2>1 DEF RegistrationCommit, RegistrationInv, RegistrationTypeOK, Registration
  <2> HIDE DEF row
  <2> QED
    BY <1>1, <2>2, <2>3 DEF RegistrationInv, RegistrationTypeOK
<1>4. \A q \in Sessions :
         registrationTx'[q] = IF q = s THEN IdleRegistrationTx ELSE registrationTx[q]
  BY <1>2 DEF RegistrationInv, RegistrationTypeOK
<1>5. RegistrationTypeOK'
  BY <1>1, <1>2, <1>3, IdleRegistrationType DEF RegistrationInv, RegistrationTypeOK
<1>6. DecisionsAreKept'
  BY <1>1, <1>2, <1>3, <1>4, IdleRegistrationType
  DEF RegistrationInv, DecisionsAreKept, IdleSeller
<1>7. VerifiedOwnsTheCredential'
  BY <1>1, <1>2, <1>3, RegistrationsAssumption DEF RegistrationInv, VerifiedOwnsTheCredential
<1> QED
  BY <1>5, <1>6, <1>7 DEF RegistrationInv

LEMMA RegistrationInvNext ==
    RegistrationInv /\ [RegistrationNext]_registrationVars => RegistrationInv'
<1> SUFFICES ASSUME RegistrationInv, [RegistrationNext]_registrationVars PROVE RegistrationInv'
  OBVIOUS
<1>1. ASSUME NEW s \in Sessions, NEW r \in Registrations,
             \/ StartRegistration(s, r) \/ TelegramStart(s, r)
             \/ ApproveRegistration(s, r) \/ RejectRegistration(s, r)
             \/ ConfirmRegistration(s, r) \/ ExpireRegistration(s, r)
      PROVE  RegistrationInv'
  <2>1. registration[r].status = "APPROVED" => r \in approved
    BY DEF RegistrationInv, DecisionsAreKept
  <2>2. PICK status \in RegistrationStatuses :
           (status = "VERIFIED" => r \in approved) /\ Decides(s, r, status)
    BY <1>1, <2>1
    DEF StartRegistration, TelegramStart, ApproveRegistration, RejectRegistration, Decision,
        ConfirmRegistration, ExpireRegistration, RegistrationStatuses, ActiveStatuses
  <2> QED
    BY <2>2, DecidesKeeps
<1>2. ASSUME NEW s \in Sessions, RegistrationRollback(s) PROVE RegistrationInv'
  <2>1. /\ registrationTx' = [registrationTx EXCEPT ![s] = IdleRegistrationTx]
        /\ UNCHANGED <<registration, credential, approved>>
    BY <1>2 DEF RegistrationRollback, EndRegistrationTx
  <2>2. RegistrationTypeOK'
    BY <2>1, IdleRegistrationType DEF RegistrationInv, RegistrationTypeOK
  <2>3. \A q \in Sessions :
           registrationTx'[q] = IF q = s THEN IdleRegistrationTx ELSE registrationTx[q]
    BY <2>1 DEF RegistrationInv, RegistrationTypeOK
  <2> QED
    BY <2>1, <2>2, <2>3, IdleRegistrationType
    DEF RegistrationInv, DecisionsAreKept, IdleSeller, VerifiedOwnsTheCredential
<1>3. ASSUME NEW r \in Registrations, RegistrationTime(r) PROVE RegistrationInv'
  <2>1. UNCHANGED <<credential, registrationTx, approved>>
    BY <1>3 DEF RegistrationTime
  <2>2. PICK over \in BOOLEAN :
           registration' = [registration EXCEPT ![r] =
              [registration[r] EXCEPT !.undecided = TRUE, !.over = over]]
    <3>1. registration \in [Registrations -> Registration] /\ registration[r].over \in BOOLEAN
      BY DEF RegistrationInv, RegistrationTypeOK, Registration
    <3>2. CASE registration' = [registration EXCEPT ![r].undecided = TRUE]
      <4>1. registration' = [registration EXCEPT ![r] =
               [registration[r] EXCEPT !.undecided = TRUE, !.over = registration[r].over]]
        BY <3>1, <3>2 DEF Registration
      <4> QED
        BY <3>1, <4>1
    <3>3. CASE registration' = [registration EXCEPT ![r].undecided = TRUE, ![r].over = TRUE]
      BY <3>1, <3>3
    <3> QED
      BY <1>3, <3>2, <3>3 DEF RegistrationTime
  <2> DEFINE row == [registration[r] EXCEPT !.undecided = TRUE, !.over = over]
  <2>3. row \in Registration /\ row.status = registration[r].status
    BY DEF RegistrationInv, RegistrationTypeOK, Registration
  <2>4. /\ registration' \in [Registrations -> Registration]
        /\ \A q \in Registrations : registration'[q].status = registration[q].status
    <3>1. registration' = [registration EXCEPT ![r] = row]
      BY <2>2
    <3> HIDE DEF row
    <3> QED
      BY <2>3, <3>1 DEF RegistrationInv, RegistrationTypeOK
  <2> QED
    BY <2>1, <2>4
    DEF RegistrationInv, RegistrationTypeOK, DecisionsAreKept, IdleSeller, VerifiedOwnsTheCredential
<1>4. CASE UNCHANGED registrationVars
  BY <1>4 DEF registrationVars, RegistrationInv, RegistrationTypeOK, DecisionsAreKept,
              IdleSeller, VerifiedOwnsTheCredential
<1> QED
  BY <1>1, <1>2, <1>3, <1>4, RegistrationCommitKeeps DEF RegistrationNext

(***************************************************************************)
(* Nobody gets a credential without an approval, and only the registration *)
(* it was made from is VERIFIED.                                           *)
(***************************************************************************)
THEOREM VerifiedWasApproved == RegistrationSpec => []VerifiedOwnsTheCredential
<1>1. RegistrationInv => VerifiedOwnsTheCredential
  BY DEF RegistrationInv
<1> QED
  BY <1>1, RegistrationInvInit, RegistrationInvNext, PTL DEF RegistrationSpec

-----------------------------------------------------------------------------
(***************************************************************************)
(* Seen marks.  A handler that has decided to write both marks, or only    *)
(* one, holds the row it started from, so that nobody changes that one;    *)
(* the insertion of a notification holds both.                             *)
(***************************************************************************)
HandlerHoldsItsRow(s) ==
    /\ seenTx[s] \in {"notice", "order too"} => seenLock["notice"] = s /\ notice = "unseen"
    /\ seenTx[s] \in {"banner", "notice too", "banner only"} => seenLock["order"] = s
    /\ seenTx[s] = "notice too" => notice # "absent"
    /\ seenTx[s] = "banner only" => notice # "unseen"
    /\ seenTx[s] = "made" /\ notice = "absent" => seenLock["order"] = s /\ seenLock["notice"] = s

SeenInv ==
    /\ SeenTypeOK
    /\ \A s \in Sessions : HandlerHoldsItsRow(s)
    /\ SeenTogether

LEMMA SeenInvInit == SeenInit => SeenInv
  BY DEF SeenInit, SeenInv, SeenTypeOK, SeenRows, SeenSteps, HandlerHoldsItsRow, SeenTogether

LEMMA EndSeenEffect ==
    ASSUME SeenInv, NEW s \in Sessions, EndSeenTx(s)
    PROVE  /\ seenLock' \in [SeenRows -> Sessions \cup {Nobody}]
           /\ \A row \in SeenRows : seenLock'[row] = IF seenLock[row] = s THEN Nobody ELSE seenLock[row]
           /\ seenTx' \in [Sessions -> SeenSteps]
           /\ seenTx'[s] = "idle"
           /\ \A t \in Sessions \ {s} : seenTx'[t] = seenTx[t]
  BY DEF EndSeenTx, SeenGoTo, WithoutSession, SeenInv, SeenTypeOK, SeenSteps

LEMMA SeenGoToEffect ==
    ASSUME SeenInv, NEW s \in Sessions, NEW step \in SeenSteps, SeenGoTo(s, step)
    PROVE  /\ seenTx' \in [Sessions -> SeenSteps]
           /\ seenTx'[s] = step
           /\ \A t \in Sessions \ {s} : seenTx'[t] = seenTx[t]
  BY DEF SeenGoTo, SeenInv, SeenTypeOK

LEMMA TakeSeenEffect ==
    ASSUME SeenInv, NEW s \in Sessions, NEW rows \in SUBSET SeenRows,
           seenLock' = WithRows(seenLock, rows, s)
    PROVE  /\ seenLock' \in [SeenRows -> Sessions \cup {Nobody}]
           /\ \A row \in SeenRows : seenLock'[row] = IF row \in rows THEN s ELSE seenLock[row]
  BY DEF WithRows, SeenInv, SeenTypeOK

(***************************************************************************)
(* The handlers of other sessions keep what they hold: a handler changes   *)
(* the notification only while nobody else holds it, and makes one only    *)
(* while it holds the order too.                                           *)
(***************************************************************************)
LEMMA OthersKeepTheirRows ==
    ASSUME SeenInv, NEW s \in Sessions,
           \A t \in Sessions \ {s} : seenTx'[t] = seenTx[t],
           \A t \in Sessions \ {s} : /\ seenLock["order"] = t => seenLock'["order"] = t
                                     /\ seenLock["notice"] = t => seenLock'["notice"] = t,
           \/ notice' = notice
           \/ /\ seenLock["notice"] \in {Nobody, s}
              /\ notice' = "seen" \/ (notice' = "unseen" /\ seenLock["order"] = s)
    PROVE  \A t \in Sessions \ {s} : HandlerHoldsItsRow(t)'
<1> SUFFICES ASSUME NEW t \in Sessions \ {s} PROVE HandlerHoldsItsRow(t)'
  OBVIOUS
<1>1. /\ HandlerHoldsItsRow(t) /\ seenTx'[t] = seenTx[t] /\ t # s /\ t # Nobody
      /\ seenLock["order"] = t => seenLock'["order"] = t
      /\ seenLock["notice"] = t => seenLock'["notice"] = t
  BY SessionsAssumption DEF SeenInv
<1>2. notice' = notice => HandlerHoldsItsRow(t)'
  BY <1>1 DEF HandlerHoldsItsRow
<1>3. CASE /\ seenLock["notice"] \in {Nobody, s}
           /\ notice' = "seen" \/ (notice' = "unseen" /\ seenLock["order"] = s)
  BY <1>1, <1>3 DEF HandlerHoldsItsRow
<1> QED
  BY <1>2, <1>3

(***************************************************************************)
(* A step that takes rows, and a step that ends the transaction.           *)
(***************************************************************************)
LEMMA SeenGoToKeeps ==
    ASSUME SeenInv, NEW s \in Sessions, NEW step \in SeenSteps, SeenGoTo(s, step),
           seenLock' \in [SeenRows -> Sessions \cup {Nobody}],
           \A row \in SeenRows : \/ seenLock'[row] = seenLock[row]
                                 \/ seenLock[row] \in {Nobody, s},
           UNCHANGED <<bannerSeen, notice, noticeIsLate>>,
           HandlerHoldsItsRow(s)'
    PROVE  SeenInv'
<1>1. /\ seenTx' \in [Sessions -> SeenSteps]
      /\ \A t \in Sessions \ {s} : seenTx'[t] = seenTx[t]
  BY SeenGoToEffect
<1>2. "order" \in SeenRows /\ "notice" \in SeenRows
  BY DEF SeenRows
<1>3. \A t \in Sessions \ {s} : /\ seenLock["order"] = t => seenLock'["order"] = t
                                /\ seenLock["notice"] = t => seenLock'["notice"] = t
  BY <1>2, SessionsAssumption
<1>4. \A t \in Sessions \ {s} : HandlerHoldsItsRow(t)'
  BY <1>1, <1>3, OthersKeepTheirRows
<1>5. SeenTypeOK' /\ SeenTogether'
  BY <1>1 DEF SeenInv, SeenTypeOK, SeenTogether
<1>6. \A t \in Sessions : HandlerHoldsItsRow(t)'
  BY <1>4
<1> QED
  BY <1>5, <1>6 DEF SeenInv

LEMMA EndSeenKeeps ==
    ASSUME SeenInv, NEW s \in Sessions, EndSeenTx(s),
           bannerSeen' \in BOOLEAN, noticeIsLate' \in BOOLEAN,
           \/ notice' = notice
           \/ /\ seenLock["notice"] \in {Nobody, s}
              /\ notice' = "seen" \/ (notice' = "unseen" /\ seenLock["order"] = s),
           SeenTogether'
    PROVE  SeenInv'
<1>1. /\ seenLock' \in [SeenRows -> Sessions \cup {Nobody}]
      /\ \A row \in SeenRows : seenLock'[row] = IF seenLock[row] = s THEN Nobody ELSE seenLock[row]
      /\ seenTx' \in [Sessions -> SeenSteps]
      /\ seenTx'[s] = "idle"
      /\ \A t \in Sessions \ {s} : seenTx'[t] = seenTx[t]
  BY EndSeenEffect
<1>2. "order" \in SeenRows /\ "notice" \in SeenRows
  BY DEF SeenRows
<1>3. \A t \in Sessions \ {s} : /\ seenLock["order"] = t => seenLock'["order"] = t
                                /\ seenLock["notice"] = t => seenLock'["notice"] = t
  BY <1>1, <1>2, SessionsAssumption
<1>4. \A t \in Sessions \ {s} : HandlerHoldsItsRow(t)'
  BY <1>1, <1>3, OthersKeepTheirRows
<1>5. HandlerHoldsItsRow(s)'
  BY <1>1 DEF HandlerHoldsItsRow
<1>6. SeenTypeOK'
  BY <1>1 DEF SeenInv, SeenTypeOK
<1>7. \A t \in Sessions : HandlerHoldsItsRow(t)'
  BY <1>4, <1>5
<1> QED
  BY <1>6, <1>7 DEF SeenInv

LEMMA SeenInvNext == SeenInv /\ [SeenNext]_seenVars => SeenInv'
<1> SUFFICES ASSUME SeenInv, [SeenNext]_seenVars PROVE SeenInv'
  OBVIOUS
<1>0. /\ "order" \in SeenRows /\ "notice" \in SeenRows
      /\ SeenRows = {"order", "notice"}
      /\ \A step \in {"idle", "notice", "order too", "banner", "notice too", "banner only",
                      "make", "made"} : step \in SeenSteps
      /\ seenLock \in [SeenRows -> Sessions \cup {Nobody}]
      /\ bannerSeen \in BOOLEAN /\ noticeIsLate \in BOOLEAN
      /\ notice \in {"absent", "unseen", "seen"}
      /\ \A s \in Sessions : HandlerHoldsItsRow(s)
      /\ SeenTogether
  BY DEF SeenRows, SeenSteps, SeenInv, SeenTypeOK
<1>1. ASSUME NEW s \in Sessions, NEW row \in SeenRows, NEW step \in SeenSteps,
             TakeSeenRow(s, row), SeenGoTo(s, step),
             UNCHANGED <<bannerSeen, notice, noticeIsLate>>,
             \/ step = "notice" /\ row = "notice" /\ notice = "unseen"
             \/ step = "banner" /\ row = "order"
      PROVE  SeenInv'
  <2>1. /\ seenLock' \in [SeenRows -> Sessions \cup {Nobody}]
        /\ \A r \in SeenRows : seenLock'[r] = IF r = row THEN s ELSE seenLock[r]
        /\ seenLock[row] \in {Nobody, s}
    BY <1>0, <1>1, TakeSeenEffect DEF TakeSeenRow, MayLock, WithRows
  <2>2. HandlerHoldsItsRow(s)'
    BY <1>0, <1>1, <2>1, SeenGoToEffect DEF HandlerHoldsItsRow
  <2> QED
    BY <1>1, <2>1, <2>2, SeenGoToKeeps
<1>2. ASSUME NEW s \in Sessions, LockNotice(s) PROVE SeenInv'
  BY <1>0, <1>1, <1>2 DEF LockNotice
<1>3. ASSUME NEW s \in Sessions, LockBanner(s) PROVE SeenInv'
  BY <1>0, <1>1, <1>3 DEF LockBanner
<1>4. ASSUME NEW s \in Sessions, ReadOrderOfNotice(s) PROVE SeenInv'
  <2>1. seenTx[s] = "notice" /\ seenLock["notice"] = s /\ notice = "unseen"
        /\ UNCHANGED <<bannerSeen, noticeIsLate>>
    BY <1>0, <1>4 DEF ReadOrderOfNotice, HandlerHoldsItsRow
  <2>2. CASE bannerSeen /\ notice' = "seen" /\ EndSeenTx(s)
    <3>1. SeenTogether'
      BY <1>0, <2>1, <2>2 DEF SeenTogether
    <3> QED
      BY <1>0, <2>1, <2>2, <3>1, EndSeenKeeps
  <2>3. CASE SeenGoTo(s, "order too") /\ UNCHANGED <<notice, seenLock>>
    <3>1. HandlerHoldsItsRow(s)'
      BY <1>0, <2>1, <2>3, SeenGoToEffect DEF HandlerHoldsItsRow
    <3> QED
      BY <1>0, <2>1, <2>3, <3>1, SeenGoToKeeps
  <2> QED
    BY <1>4, <2>2, <2>3 DEF ReadOrderOfNotice
<1>5. ASSUME NEW s \in Sessions, NoticeCommit(s) PROVE SeenInv'
  <2>1. /\ seenLock["notice"] = s /\ notice' = "seen" /\ bannerSeen' = TRUE
        /\ EndSeenTx(s) /\ UNCHANGED noticeIsLate
    BY <1>0, <1>5 DEF NoticeCommit, HandlerHoldsItsRow
  <2>2. SeenTogether'
    BY <2>1 DEF SeenTogether
  <2> QED
    BY <1>0, <2>1, <2>2, EndSeenKeeps
<1>6. ASSUME NEW s \in Sessions, ReadNoticeOfBanner(s) PROVE SeenInv'
  <2> DEFINE step == IF notice = "unseen" THEN "notice too" ELSE "banner only"
  <2>1. /\ seenLock["order"] = s
        /\ SeenGoTo(s, step)
        /\ UNCHANGED <<bannerSeen, notice, noticeIsLate, seenLock>>
    BY <1>0, <1>6 DEF ReadNoticeOfBanner, HandlerHoldsItsRow
  <2>2. step \in SeenSteps
    BY <1>0
  <2>3. seenTx'[s] = step
    BY <2>1, <2>2, SeenGoToEffect
  <2>4. HandlerHoldsItsRow(s)'
    BY <2>1, <2>3 DEF HandlerHoldsItsRow
  <2> HIDE DEF step
  <2> QED
    BY <1>0, <2>1, <2>2, <2>4, SeenGoToKeeps
<1>7. ASSUME NEW s \in Sessions, BannerCommit(s) PROVE SeenInv'
  <2>1. bannerSeen' = TRUE /\ EndSeenTx(s) /\ UNCHANGED noticeIsLate
    BY <1>7 DEF BannerCommit
  <2>2. \/ seenLock["notice"] \in {Nobody, s} /\ notice' = "seen"
        \/ notice # "unseen" /\ notice' = notice
    BY <1>0, <1>7 DEF BannerCommit, HandlerHoldsItsRow, MayLock
  <2>3. SeenTogether'
    BY <1>0, <2>1, <2>2 DEF SeenTogether
  <2>4. bannerSeen' \in BOOLEAN /\ noticeIsLate' \in BOOLEAN
    BY <1>0, <2>1
  <2>5. \/ notice' = notice
        \/ seenLock["notice"] \in {Nobody, s} /\ notice' = "seen"
    BY <2>2
  <2>6. SeenInv /\ EndSeenTx(s)
    BY <1>0, <2>1
  <2>7. CASE notice' = notice
    BY <2>3, <2>4, <2>6, <2>7, EndSeenKeeps
  <2>8. CASE seenLock["notice"] \in {Nobody, s} /\ notice' = "seen"
    BY <2>3, <2>4, <2>6, <2>8, EndSeenKeeps
  <2> QED
    BY <2>5, <2>7, <2>8
<1>8. ASSUME NEW s \in Sessions, ReadLegacyOrder(s) PROVE SeenInv'
  <2>1. SeenGoTo(s, "make") /\ UNCHANGED <<bannerSeen, notice, noticeIsLate, seenLock>>
    BY <1>8 DEF ReadLegacyOrder
  <2>2. "make" \in SeenSteps
    BY <1>0
  <2>3. seenTx'[s] = "make"
    BY <2>1, <2>2, SeenGoToEffect
  <2>4. HandlerHoldsItsRow(s)'
    BY <2>3 DEF HandlerHoldsItsRow
  <2> QED
    BY <1>0, <2>1, <2>4, SeenGoToKeeps
<1>9. ASSUME NEW s \in Sessions, InsertNotice(s) PROVE SeenInv'
  <2>1. SeenGoTo(s, "made") /\ UNCHANGED <<bannerSeen, notice, noticeIsLate>>
    BY <1>9 DEF InsertNotice
  <2>2. CASE /\ \A row \in SeenRows : seenLock[row] \in {Nobody, s}
             /\ seenLock' = WithRows(seenLock, SeenRows, s)
    <3>1. /\ seenLock' \in [SeenRows -> Sessions \cup {Nobody}]
          /\ \A row \in SeenRows : seenLock'[row] = s
      BY <1>0, <2>2 DEF WithRows
    <3>2. HandlerHoldsItsRow(s)'
      BY <1>0, <2>1, <3>1, SeenGoToEffect DEF HandlerHoldsItsRow
    <3> QED
      BY <1>0, <2>1, <2>2, <3>1, <3>2, SeenGoToKeeps
  <2>3. CASE notice # "absent" /\ seenLock' = seenLock
    <3>1. HandlerHoldsItsRow(s)'
      BY <1>0, <2>1, <2>3, SeenGoToEffect DEF HandlerHoldsItsRow
    <3> QED
      BY <1>0, <2>1, <2>3, <3>1, SeenGoToKeeps
  <2> QED
    BY <1>9, <2>2, <2>3 DEF InsertNotice, MayInsertNotice, MayLock
<1>10. ASSUME NEW s \in Sessions, PendingCommit(s) PROVE SeenInv'
  <2>1. /\ EndSeenTx(s) /\ UNCHANGED bannerSeen
        /\ notice' = IF notice = "absent" THEN "unseen" ELSE notice
        /\ noticeIsLate' = (noticeIsLate \/ (notice = "absent" /\ bannerSeen))
        /\ notice = "absent" => seenLock["order"] = s /\ seenLock["notice"] = s
    BY <1>0, <1>10 DEF PendingCommit, HandlerHoldsItsRow
  <2>2. SeenTogether'
    BY <1>0, <2>1 DEF SeenTogether
  <2> QED
    BY <1>0, <2>1, <2>2, EndSeenKeeps
<1>11. ASSUME NEW s \in Sessions, SeenRollback(s) PROVE SeenInv'
  <2>1. EndSeenTx(s) /\ UNCHANGED <<bannerSeen, notice, noticeIsLate>>
    BY <1>11 DEF SeenRollback
  <2>2. SeenTogether'
    BY <1>0, <2>1 DEF SeenTogether
  <2> QED
    BY <1>0, <2>1, <2>2, EndSeenKeeps
<1>12. CASE UNCHANGED seenVars
  BY <1>12 DEF seenVars, SeenInv, SeenTypeOK, HandlerHoldsItsRow, SeenTogether
<1> QED
  BY <1>2, <1>3, <1>4, <1>5, <1>6, <1>7, <1>8, <1>9, <1>10, <1>11, <1>12 DEF SeenNext

(***************************************************************************)
(* The order and its notification are marked as seen together, although    *)
(* the two handlers lock their rows in opposite order and read the other   *)
(* row without a lock.                                                     *)
(***************************************************************************)
THEOREM MarksAgree == SeenSpec => []SeenTogether
<1>1. SeenInv => SeenTogether
  BY DEF SeenInv
<1> QED
  BY <1>1, SeenInvInit, SeenInvNext, PTL DEF SeenSpec

-----------------------------------------------------------------------------
(***************************************************************************)
(* What the consumers of an event do with it.  A row says SENT only of a   *)
(* message that arrived, and SKIPPED or BLOCKED only of a customer who     *)
(* declined.  A dispatch that is about to write SENT or BLOCKED knows that *)
(* it is so; one that will write nothing, or has written and will read its *)
(* row again, finds the row decided, unless a retry by hand came between.  *)
(* A retry itself acknowledges nothing.                                    *)
(***************************************************************************)
RowsTellTheTruth ==
    /\ \A c \in Consumers : note[c] = "SENT" => reached[c] > 0
    /\ note["customer"] \in {"SKIPPED", "BLOCKED"} => declined

SellerDecided == note["seller"] \in {"SENT", "FAILED"} \/ misled

DispatchIsSound(s) ==
    /\ noteTx[s].step = "write" =>
          /\ noteTx[s].result \in {"SENT", "FAILED", "BLOCKED"}
          /\ noteTx[s].result = "SENT" => reached[noteTx[s].consumer] > 0
          /\ noteTx[s].result = "BLOCKED" => noteTx[s].consumer = "customer" /\ declined
    /\ noteTx[s].consumer = "seller" => noteTx[s].loaded # "SENT"
    /\ KnowsOfFailure(s) => SellerDecided
    /\ noteTx[s].step = "retry" => noteTx[s].byHand
    /\ noteTx[s].step = "refresh" => noteTx[s].consumer = "seller"

NoteInv ==
    /\ NoteTypeOK
    /\ RowsTellTheTruth
    /\ \A s \in Sessions : DispatchIsSound(s)
    /\ AcknowledgedMeansArrived

LEMMA IdleNoteType ==
    /\ IdleNoteTx \in NoteTransaction /\ IdleNoteTx.step = "idle"
    /\ IdleNoteTx.loaded = "absent" /\ ~IdleNoteTx.byHand
  BY DEF IdleNoteTx, NoteTransaction, NoteStatuses, Consumers

LEMMA IdleIsSound ==
    ASSUME NEW s \in Sessions, noteTx[s] = IdleNoteTx PROVE DispatchIsSound(s)
  BY IdleNoteType DEF DispatchIsSound, KnowsOfFailure

LEMMA NoteInvInit == NoteInit => NoteInv
<1> SUFFICES ASSUME NoteInit PROVE NoteInv
  OBVIOUS
<1>1. NoteTypeOK
  <2>1. mishaps \in 0 .. MaxMishaps
    BY MaxMishapsAssumption DEF NoteInit
  <2>2. /\ note \in [Consumers -> NoteStatuses] /\ reached \in [Consumers -> Nat]
        /\ noteEvent \in NoteEvents
    BY DEF NoteInit, NoteStatuses
  <2>3. declined \in BOOLEAN /\ misled \in BOOLEAN
    BY Zenon DEF NoteInit
  <2>4. acknowledged \subseteq Consumers /\ noteTx \in [Sessions -> NoteTransaction]
    BY IdleNoteType DEF NoteInit
  <2> QED
    BY <2>1, <2>2, <2>3, <2>4 DEF NoteTypeOK
<1>2. RowsTellTheTruth
  BY DEF NoteInit, RowsTellTheTruth, Consumers
<1>3. \A s \in Sessions : noteTx[s] = IdleNoteTx
  BY DEF NoteInit
<1>4. AcknowledgedMeansArrived
  BY DEF NoteInit, AcknowledgedMeansArrived
<1> QED
  BY <1>1, <1>2, <1>3, <1>4, IdleIsSound DEF NoteInv

(***************************************************************************)
(* A step of one session leaves the other dispatches sound, if it undoes   *)
(* none of what they rely on.                                              *)
(***************************************************************************)
LEMMA DispatchesStaySound ==
    ASSUME NoteInv, NEW s \in Sessions, NEW t \in NoteTransaction,
           noteTx' = [noteTx EXCEPT ![s] = t],
           reached' \in [Consumers -> Nat],
           \A c \in Consumers : reached'[c] >= reached[c],
           declined => declined', misled => misled',
           \/ note'["seller"] = note["seller"]
           \/ note'["seller"] \in {"SENT", "FAILED"}
           \/ note["seller"] = "absent"
           \/ \A q \in Sessions : KnowsOfFailure(q) => misled',
           DispatchIsSound(s)'
    PROVE  \A q \in Sessions : DispatchIsSound(q)'
<1> SUFFICES ASSUME NEW q \in Sessions, q # s PROVE DispatchIsSound(q)'
  OBVIOUS
<1>1. noteTx'[q] = noteTx[q] /\ noteTx[q].consumer \in Consumers /\ DispatchIsSound(q)
  BY DEF NoteInv, NoteTypeOK, NoteTransaction
<1>2. KnowsOfFailure(q) /\ SellerDecided => SellerDecided'
  BY DEF SellerDecided
<1>4. KnowsOfFailure(q)' <=> KnowsOfFailure(q)
  BY <1>1 DEF KnowsOfFailure
<1>3. reached[noteTx[q].consumer] > 0 => reached'[noteTx[q].consumer] > 0
  BY <1>1 DEF NoteInv, NoteTypeOK
<1> QED
  BY <1>1, <1>2, <1>3, <1>4 DEF DispatchIsSound

LEMMA EndIsSound ==
    ASSUME NoteInv, NEW s \in Sessions, noteTx' = [noteTx EXCEPT ![s] = IdleNoteTx]
    PROVE  DispatchIsSound(s)'
<1>1. noteTx'[s] = IdleNoteTx
  BY DEF NoteInv, NoteTypeOK
<1> QED
  BY <1>1, IdleNoteType DEF DispatchIsSound, KnowsOfFailure

LEMMA NoteTxEffect ==
    ASSUME NoteInv, NEW s \in Sessions, NEW t \in NoteTransaction,
           noteTx' = [noteTx EXCEPT ![s] = t]
    PROVE  noteTx' \in [Sessions -> NoteTransaction] /\ noteTx'[s] = t
  BY DEF NoteInv, NoteTypeOK

AnsweredTx(s, step, result) == [noteTx[s] EXCEPT !.step = step, !.result = result]

LEMMA AnsweredType ==
    ASSUME NoteInv, NEW s \in Sessions,
           NEW step \in {"send", "write"}, NEW result \in NoteStatuses
    PROVE  /\ AnsweredTx(s, step, result) \in NoteTransaction
           /\ AnsweredTx(s, step, result).step = step
           /\ AnsweredTx(s, step, result).result = result
           /\ AnsweredTx(s, step, result).consumer = noteTx[s].consumer
           /\ AnsweredTx(s, step, result).loaded = noteTx[s].loaded
           /\ AnsweredTx(s, step, result).byHand = noteTx[s].byHand
<1> DEFINE u == [noteTx[s] EXCEPT !.step = step]
           t == [u EXCEPT !.result = result]
<1>1. noteTx \in [Sessions -> NoteTransaction] /\ noteTx[s] \in NoteTransaction
  BY DEF NoteInv, NoteTypeOK
<1>3. /\ u \in NoteTransaction /\ u.step = step
      /\ u.consumer = noteTx[s].consumer /\ u.loaded = noteTx[s].loaded
      /\ u.byHand = noteTx[s].byHand
  BY <1>1 DEF NoteTransaction
<1>5. AnsweredTx(s, step, result) = t
  BY DEF AnsweredTx
<1> HIDE DEF u
<1>4. /\ t \in NoteTransaction /\ t.step = u.step /\ t.result = result
      /\ t.consumer = u.consumer /\ t.loaded = u.loaded /\ t.byHand = u.byHand
  BY <1>3 DEF NoteTransaction
<1> HIDE DEF t
<1> QED
  BY <1>3, <1>4, <1>5

(***************************************************************************)
(* A step that only moves the dispatch, sends, or counts a mishap.         *)
(***************************************************************************)
LEMMA QuietNoteStepKeeps ==
    ASSUME NoteInv, NEW s \in Sessions, NEW t \in NoteTransaction,
           noteTx' = [noteTx EXCEPT ![s] = t],
           UNCHANGED <<noteEvent, note, acknowledged, misled>>,
           reached' \in [Consumers -> Nat],
           \A c \in Consumers : reached'[c] >= reached[c],
           declined' \in BOOLEAN, declined => declined',
           mishaps' \in 0 .. MaxMishaps,
           DispatchIsSound(s)'
    PROVE  NoteInv'
<1>1. NoteTypeOK'
  BY NoteTxEffect DEF NoteInv, NoteTypeOK
<1>2. RowsTellTheTruth'
  BY DEF NoteInv, NoteTypeOK, RowsTellTheTruth, Consumers
<1>3. AcknowledgedMeansArrived'
  BY DEF NoteInv, NoteTypeOK, AcknowledgedMeansArrived, Consumers
<1>4. \A q \in Sessions : DispatchIsSound(q)'
  BY DispatchesStaySound
<1> QED
  BY <1>1, <1>2, <1>3, <1>4 DEF NoteInv

(***************************************************************************)
(* A step that changes rows or acknowledges, and sends nothing.            *)
(***************************************************************************)
LEMMA RowStepKeeps ==
    ASSUME NoteInv, NEW s \in Sessions, NEW t \in NoteTransaction,
           noteTx' = [noteTx EXCEPT ![s] = t],
           note' \in [Consumers -> NoteStatuses],
           acknowledged' \subseteq Consumers,
           UNCHANGED <<noteEvent, reached, mishaps>>,
           declined' \in BOOLEAN, declined => declined',
           misled' \in BOOLEAN, misled => misled',
           \/ note'["seller"] = note["seller"]
           \/ note'["seller"] \in {"SENT", "FAILED"}
           \/ note["seller"] = "absent"
           \/ \A q \in Sessions : KnowsOfFailure(q) => misled',
           RowsTellTheTruth', AcknowledgedMeansArrived', DispatchIsSound(s)'
    PROVE  NoteInv'
<1>1. NoteTypeOK'
  BY NoteTxEffect DEF NoteInv, NoteTypeOK
<1>2. /\ reached' \in [Consumers -> Nat]
      /\ \A c \in Consumers : reached'[c] >= reached[c]
  BY DEF NoteInv, NoteTypeOK
<1>3. \A q \in Sessions : DispatchIsSound(q)'
  BY <1>2, DispatchesStaySound
<1> QED
  BY <1>1, <1>3 DEF NoteInv

LEMMA NoteInvNext == NoteInv /\ [NoteNext]_noteVars => NoteInv'
<1> SUFFICES ASSUME NoteInv, [NoteNext]_noteVars PROVE NoteInv'
  OBVIOUS
<1>0. /\ note \in [Consumers -> NoteStatuses] /\ acknowledged \subseteq Consumers
      /\ noteTx \in [Sessions -> NoteTransaction] /\ reached \in [Consumers -> Nat]
      /\ declined \in BOOLEAN /\ misled \in BOOLEAN /\ mishaps \in 0 .. MaxMishaps
      /\ noteEvent \in NoteEvents
      /\ RowsTellTheTruth /\ AcknowledgedMeansArrived
      /\ \A s \in Sessions : DispatchIsSound(s) /\ noteTx[s] \in NoteTransaction
      /\ Consumers = {"seller", "customer"}
      /\ \A e \in NoteEvents : ConsumersOf(e) \subseteq Consumers
      /\ \A status \in {"absent", "PENDING", "SENT", "FAILED", "SKIPPED", "BLOCKED"} :
            status \in NoteStatuses
      /\ \A c \in Consumers : reached[c] \in Nat /\ reached[c] >= reached[c]
  BY DEF NoteInv, NoteTypeOK, Consumers, ConsumersOf, NoteStatuses
<1>1. ASSUME NEW s \in Sessions, NEW c \in Consumers, Dispatch(s, c) PROVE NoteInv'
  <2>1. CASE note[c] \in NothingToSend(c) /\ Acknowledge(c) /\ UNCHANGED noteTx
    <3>1. /\ acknowledged' = acknowledged \cup {c}
          /\ UNCHANGED <<noteEvent, note, noteTx, reached, declined, misled, mishaps>>
      BY <1>1, <2>1 DEF Dispatch, Acknowledge
    <3>2. c = "seller" => reached["seller"] > 0
      BY <1>0, <2>1 DEF NothingToSend, RowsTellTheTruth
    <3>3. c = "customer" => reached["customer"] > 0 \/ declined
      BY <1>0, <2>1 DEF NothingToSend, RowsTellTheTruth
    <3>4. AcknowledgedMeansArrived'
      BY <1>0, <3>1, <3>2, <3>3 DEF AcknowledgedMeansArrived
    <3>5. NoteTypeOK' /\ RowsTellTheTruth' /\ \A q \in Sessions : DispatchIsSound(q)'
      BY <1>0, <3>1
      DEF NoteTypeOK, RowsTellTheTruth, DispatchIsSound, SellerDecided, KnowsOfFailure
    <3> QED
      BY <3>4, <3>5 DEF NoteInv
  <2>2. CASE noteTx' = [noteTx EXCEPT ![s] = [IdleNoteTx EXCEPT !.step = "found",
                                               !.consumer = c, !.loaded = note[c]]]
    <3> DEFINE t == [IdleNoteTx EXCEPT !.step = "found", !.consumer = c, !.loaded = note[c]]
    <3>1. /\ t \in NoteTransaction /\ t.step = "found" /\ t.consumer = c
          /\ t.loaded = note[c] /\ ~t.byHand
      BY <1>0 DEF IdleNoteTx, NoteTransaction
    <3>2. noteTx' = [noteTx EXCEPT ![s] = t]
      BY <2>2
    <3> HIDE DEF t
    <3>3. noteTx'[s] = t
      BY <3>1, <3>2, NoteTxEffect
    <3>4. CASE note[c] \notin NothingToSend(c) /\ UNCHANGED acknowledged
      <4>1. UNCHANGED <<noteEvent, note, acknowledged, reached, declined, misled, mishaps>>
        BY <1>1, <3>4 DEF Dispatch
      <4>3. c = "seller" => note[c] # "SENT"
        BY <3>4 DEF NothingToSend
      <4>2. DispatchIsSound(s)'
        BY <3>1, <3>3, <4>1, <4>3 DEF DispatchIsSound, SellerDecided, KnowsOfFailure
      <4> QED
        BY <1>0, <3>1, <3>2, <4>1, <4>2, QuietNoteStepKeeps
    <3> QED
      BY <1>1, <2>1, <3>4 DEF Dispatch
  <2> QED
    BY <1>1, <2>1, <2>2 DEF Dispatch
<1>2. ASSUME NEW s \in Sessions, EndNoteTx(s),
             UNCHANGED <<noteEvent, note, acknowledged, reached, declined, misled>>,
             mishaps' \in 0 .. MaxMishaps
      PROVE  NoteInv'
  <2>1. noteTx' = [noteTx EXCEPT ![s] = IdleNoteTx]
    BY <1>2 DEF EndNoteTx
  <2>2. DispatchIsSound(s)'
    BY <2>1, EndIsSound
  <2> QED
    BY <1>0, <1>2, <2>1, <2>2, IdleNoteType, QuietNoteStepKeeps
<1>3. ASSUME NEW s \in Sessions, InsertConflict(s) PROVE NoteInv'
  BY <1>0, <1>2, <1>3 DEF InsertConflict
<1>4. ASSUME NEW s \in Sessions, NoteCrash(s) PROVE NoteInv'
  <2>1. mishaps' \in 0 .. MaxMishaps
    BY <1>0, <1>4, MaxMishapsAssumption DEF NoteCrash, Mishap
  <2> QED
    BY <1>2, <1>4, <2>1 DEF NoteCrash
<1>5. ASSUME NEW s \in Sessions, PrepareToSend(s) PROVE NoteInv'
  <2> DEFINE c == noteTx[s].consumer
             creates == KeepsRow(c) /\ noteTx[s].loaded = "absent"
             t == [noteTx[s] EXCEPT !.step = "send", !.loaded = IF creates THEN "PENDING" ELSE @]
  <2>1. /\ t \in NoteTransaction /\ t.step = "send" /\ t.consumer = c
        /\ t.byHand = noteTx[s].byHand
        /\ t.loaded = "PENDING" \/ t.loaded = noteTx[s].loaded
    BY <1>0 DEF NoteTransaction
  <2>2. noteTx' = [noteTx EXCEPT ![s] = t]
    BY <1>0, <1>5 DEF PrepareToSend, NoteTransaction
  <2>3. /\ c \in Consumers /\ noteTx[s].step = "found"
        /\ creates => note[c] = "absent"
        /\ note' = IF creates THEN [note EXCEPT ![c] = "PENDING"] ELSE note
        /\ UNCHANGED <<noteEvent, acknowledged, reached, declined, misled, mishaps>>
    BY <1>0, <1>5 DEF PrepareToSend, SomebodyInserted, NoteTransaction
  <2> HIDE DEF t, c, creates
  <2>4. noteTx'[s] = t
    BY <2>1, <2>2, NoteTxEffect
  <2>5. note' \in [Consumers -> NoteStatuses]
        /\ \A d \in Consumers : note'[d] = note[d] \/ (note[d] = "absent" /\ note'[d] = "PENDING")
    BY <1>0, <2>3
  <2>6. RowsTellTheTruth'
    BY <1>0, <2>3, <2>5 DEF RowsTellTheTruth
  <2>7. AcknowledgedMeansArrived'
    BY <1>0, <2>3 DEF AcknowledgedMeansArrived
  <2>8. DispatchIsSound(s)'
    <3>1. DispatchIsSound(s)
      BY <1>0
    <3>2. SellerDecided => SellerDecided'
      BY <1>0, <2>3, <2>5 DEF SellerDecided
    <3> QED
      BY <1>0, <2>1, <2>3, <2>4, <3>1, <3>2 DEF DispatchIsSound, KnowsOfFailure, c
  <2> QED
    BY <1>0, <2>1, <2>2, <2>3, <2>5, <2>6, <2>7, <2>8, RowStepKeeps
<1>6. ASSUME NEW s \in Sessions, SkipCustomer(s) PROVE NoteInv'
  <2>1. /\ note' = [note EXCEPT !["customer"] = "SKIPPED"]
        /\ declined' = TRUE
        /\ acknowledged' = acknowledged \cup {"customer"}
        /\ noteTx' = [noteTx EXCEPT ![s] = IdleNoteTx]
        /\ UNCHANGED <<noteEvent, reached, misled, mishaps>>
    BY <1>6 DEF SkipCustomer, Acknowledge, EndNoteTx
  <2>2. RowsTellTheTruth' /\ AcknowledgedMeansArrived'
    BY <1>0, <2>1 DEF RowsTellTheTruth, AcknowledgedMeansArrived
  <2>3. DispatchIsSound(s)'
    BY <2>1, EndIsSound
  <2>4. note' \in [Consumers -> NoteStatuses] /\ note'["seller"] = note["seller"]
    BY <1>0, <2>1
  <2> QED
    BY <1>0, <2>1, <2>2, <2>3, <2>4, IdleNoteType, RowStepKeeps
<1>7. ASSUME NEW s \in Sessions, NEW result \in {"SENT", "FAILED", "BLOCKED"},
             Answered(s, result),
             reached' = reached \/ Arrives(s),
             result = "SENT" => Arrives(s),
             result = "BLOCKED" => noteTx[s].consumer = "customer" /\ declined' = TRUE,
             result # "BLOCKED" => declined' = declined,
             mishaps' \in 0 .. MaxMishaps
      PROVE  NoteInv'
  <2> DEFINE c == noteTx[s].consumer
             t == AnsweredTx(s, "write", result)
  <2>1. /\ t \in NoteTransaction /\ t.step = "write" /\ t.result = result
        /\ t.consumer = c /\ t.loaded = noteTx[s].loaded /\ t.byHand = noteTx[s].byHand
    <3>1. result \in NoteStatuses
      BY <1>0
    <3> QED
      BY <3>1, AnsweredType
  <2>2. noteTx' = [noteTx EXCEPT ![s] = t]
    <3>1. noteTx' = [noteTx EXCEPT ![s].step = "write", ![s].result = result]
      BY <1>7 DEF Answered
    <3>2. noteTx \in [Sessions -> NoteTransaction]
      BY <1>0
    <3> QED
      BY <3>1, <3>2 DEF AnsweredTx
  <2>3. /\ c \in Consumers /\ noteTx[s].step = "send"
        /\ UNCHANGED <<noteEvent, note, acknowledged, misled>>
    BY <1>0, <1>7 DEF Answered, NoteTransaction
  <2>4. /\ reached' \in [Consumers -> Nat]
        /\ \A d \in Consumers : reached'[d] >= reached[d]
        /\ result = "SENT" => reached'[c] > 0
    BY <1>0, <1>7, <2>3 DEF Arrives
  <2>5. declined' \in BOOLEAN /\ (declined => declined')
    <3>1. declined' = declined \/ declined' = TRUE
      BY <1>7
    <3> QED
      BY <1>0, <2>3, <3>1, Zenon
  <2>6. DispatchIsSound(s)
    BY <1>0
  <2> HIDE DEF t, c
  <2>7. noteTx'[s] = t
    BY <2>1, <2>2, NoteTxEffect
  <2>8. DispatchIsSound(s)'
    BY <1>7, <2>1, <2>3, <2>4, <2>6, <2>7
    DEF DispatchIsSound, SellerDecided, KnowsOfFailure, c
  <2> QED
    BY <1>7, <2>1, <2>2, <2>3, <2>4, <2>5, <2>8, QuietNoteStepKeeps
<1>8. ASSUME NEW s \in Sessions,
             MessageSent(s) \/ MessageFailed(s) \/ CustomerHasBlocked(s)
      PROVE  NoteInv'
  <2>1. CASE MessageSent(s)
    BY <1>0, <1>7, <2>1 DEF MessageSent
  <2>2. CASE MessageFailed(s)
    <3>1. mishaps' \in 0 .. MaxMishaps
      BY <1>0, <2>2, MaxMishapsAssumption DEF MessageFailed, Mishap
    <3> QED
      BY <1>7, <2>2, <3>1 DEF MessageFailed
  <2>3. CASE CustomerHasBlocked(s)
    BY <1>0, <1>7, <2>3 DEF CustomerHasBlocked
  <2> QED
    BY <1>8, <2>1, <2>2, <2>3
<1>9. ASSUME NEW s \in Sessions, WriteResult(s) PROVE NoteInv'
  <2> DEFINE c == noteTx[s].consumer
             result == noteTx[s].result
  <2>1. /\ c \in Consumers /\ result \in NoteStatuses /\ noteTx[s].step = "write"
        /\ DispatchIsSound(s)
        /\ note' = IF result # noteTx[s].loaded THEN [note EXCEPT ![c] = result] ELSE note
        /\ UNCHANGED <<noteEvent, reached, declined, misled, mishaps>>
    BY <1>0, <1>9 DEF WriteResult, NoteTransaction
  <2>2. /\ result \in {"SENT", "FAILED", "BLOCKED"}
        /\ result = "SENT" => reached[c] > 0
        /\ result = "BLOCKED" => c = "customer" /\ declined
        /\ c = "seller" => noteTx[s].loaded # "SENT"
        /\ c = "seller" /\ noteTx[s].loaded = "FAILED" /\ ~noteTx[s].byHand => SellerDecided
    BY <2>1 DEF DispatchIsSound, KnowsOfFailure
  <2> HIDE DEF c, result
  <2>3. /\ note' \in [Consumers -> NoteStatuses]
        /\ \A d \in Consumers : note'[d] = note[d] \/ (d = c /\ note'[d] = result)
    BY <1>0, <2>1
  <2>4. RowsTellTheTruth'
    BY <1>0, <2>1, <2>2, <2>3 DEF RowsTellTheTruth
  <2>5. note'["seller"] = note["seller"] \/ note'["seller"] \in {"SENT", "FAILED"}
    BY <1>0, <2>2, <2>3
  <2>6. CASE c = "seller" /\ noteTx' = [noteTx EXCEPT ![s].step = "refresh"] /\ UNCHANGED acknowledged
    <3> DEFINE t == [noteTx[s] EXCEPT !.step = "refresh"]
    <3>1. /\ t \in NoteTransaction /\ t.step = "refresh" /\ t.consumer = c
          /\ t.loaded = noteTx[s].loaded /\ t.byHand = noteTx[s].byHand
      BY <1>0 DEF NoteTransaction, c
    <3>2. noteTx' = [noteTx EXCEPT ![s] = t]
      BY <1>0, <2>6 DEF NoteTransaction
    <3> HIDE DEF t
    <3>3. ~noteTx[s].byHand => SellerDecided'
      BY <1>0, <2>1, <2>2, <2>6 DEF SellerDecided
    <3>4. noteTx'[s] = t
      BY <3>1, <3>2, NoteTxEffect
    <3>5. DispatchIsSound(s)'
      BY <2>2, <2>6, <3>1, <3>3, <3>4 DEF DispatchIsSound, KnowsOfFailure
    <3>6. AcknowledgedMeansArrived'
      BY <1>0, <2>1, <2>6 DEF AcknowledgedMeansArrived
    <3> QED
      BY <1>0, <2>1, <2>3, <2>4, <2>5, <2>6, <3>1, <3>2, <3>5, <3>6, RowStepKeeps
  <2>7. CASE /\ c = "customer"
             /\ IF result = "FAILED" THEN UNCHANGED acknowledged ELSE Acknowledge("customer")
             /\ EndNoteTx(s)
    <3>1. noteTx' = [noteTx EXCEPT ![s] = IdleNoteTx]
      BY <2>7 DEF EndNoteTx
    <3>2. DispatchIsSound(s)'
      BY <3>1, EndIsSound
    <3>3. acknowledged' = acknowledged \/
             (acknowledged' = acknowledged \cup {"customer"} /\ (reached["customer"] > 0 \/ declined))
      BY <2>2, <2>7 DEF Acknowledge
    <3>4. AcknowledgedMeansArrived'
      BY <1>0, <2>1, <3>3 DEF AcknowledgedMeansArrived
    <3>5. acknowledged' \subseteq Consumers
      BY <1>0, <3>3
    <3> QED
      BY <1>0, <2>1, <2>3, <2>4, <2>5, <3>1, <3>2, <3>4, <3>5, IdleNoteType, RowStepKeeps
  <2> QED
    BY <1>9, <2>6, <2>7 DEF WriteResult, c, result
<1>10. ASSUME NEW s \in Sessions, RefreshSeller(s) PROVE NoteInv'
  <2>1. /\ noteTx' = [noteTx EXCEPT ![s] = IdleNoteTx]
        /\ UNCHANGED <<noteEvent, note, reached, declined, misled, mishaps>>
    BY <1>10 DEF RefreshSeller, EndNoteTx
  <2>2. noteTx[s].byHand \/ SellerDecided
    BY <1>0, <1>10 DEF RefreshSeller, DispatchIsSound, KnowsOfFailure
  <2>3. acknowledged' = acknowledged \/
           (acknowledged' = acknowledged \cup {"seller"} /\ (reached["seller"] > 0 \/ misled))
    BY <1>0, <1>10, <2>2 DEF RefreshSeller, Acknowledge, SellerDecided, RowsTellTheTruth
  <2>4. AcknowledgedMeansArrived' /\ acknowledged' \subseteq Consumers
    BY <1>0, <2>1, <2>3 DEF AcknowledgedMeansArrived
  <2>5. RowsTellTheTruth'
    BY <1>0, <2>1 DEF RowsTellTheTruth
  <2>6. DispatchIsSound(s)'
    BY <2>1, EndIsSound
  <2> QED
    BY <1>0, <2>1, <2>4, <2>5, <2>6, IdleNoteType, RowStepKeeps
<1>11. ASSUME NEW s \in Sessions, RetryBegin(s) PROVE NoteInv'
  <2> DEFINE t == [noteTx[s] EXCEPT !.step = "retry", !.byHand = TRUE]
  <2>1. /\ t \in NoteTransaction /\ t.step = "retry" /\ t.byHand
        /\ t.consumer = noteTx[s].consumer /\ t.loaded = noteTx[s].loaded
    BY <1>0 DEF NoteTransaction
  <2>2. noteTx' = [noteTx EXCEPT ![s] = t]
    BY <1>0, <1>11 DEF RetryBegin, NoteTransaction
  <2> HIDE DEF t
  <2>3. noteTx'[s] = t
    BY <2>1, <2>2, NoteTxEffect
  <2>4. UNCHANGED <<noteEvent, note, acknowledged, reached, declined, misled, mishaps>>
    BY <1>11 DEF RetryBegin
  <2>5. DispatchIsSound(s)'
    BY <1>0, <2>1, <2>3 DEF DispatchIsSound, KnowsOfFailure
  <2> QED
    BY <1>0, <2>1, <2>2, <2>4, <2>5, QuietNoteStepKeeps
<1>12. ASSUME NEW s \in Sessions, RetryCommit(s) PROVE NoteInv'
  <2> DEFINE t == [noteTx[s] EXCEPT !.step = "send", !.loaded = "PENDING"]
  <2>1. /\ t \in NoteTransaction /\ t.step = "send" /\ t.loaded = "PENDING"
        /\ t.consumer = noteTx[s].consumer /\ t.byHand = noteTx[s].byHand
    BY <1>0 DEF NoteTransaction
  <2>2. noteTx' = [noteTx EXCEPT ![s] = t]
    BY <1>0, <1>12 DEF RetryCommit, NoteTransaction
  <2> HIDE DEF t
  <2>3. noteTx'[s] = t
    BY <2>1, <2>2, NoteTxEffect
  <2>4. DispatchIsSound(s)'
    BY <2>1, <2>3 DEF DispatchIsSound, KnowsOfFailure
  <2>5. /\ note' = [note EXCEPT !["seller"] = "PENDING"]
        /\ misled' = (misled \/ \E other \in Sessions : KnowsOfFailure(other))
        /\ UNCHANGED <<noteEvent, acknowledged, reached, declined, mishaps>>
    BY <1>12 DEF RetryCommit
  <2>6. /\ misled' \in BOOLEAN /\ (misled => misled')
        /\ \A q \in Sessions : KnowsOfFailure(q) => misled'
    BY <2>5, Zenon
  <2>7. RowsTellTheTruth' /\ AcknowledgedMeansArrived'
    BY <1>0, <2>5, <2>6 DEF RowsTellTheTruth, AcknowledgedMeansArrived
  <2>8. note' \in [Consumers -> NoteStatuses]
    BY <1>0, <2>5
  <2> QED
    BY <1>0, <2>1, <2>2, <2>4, <2>5, <2>6, <2>7, <2>8, RowStepKeeps
<1>14. ASSUME NEW s \in Sessions, EditMessage(s) \/ EditFails(s) PROVE NoteInv'
  <2>0. PICK step \in {"send", "write"}, result \in NoteStatuses :
         /\ noteTx' = [noteTx EXCEPT ![s] = AnsweredTx(s, step, result)]
         /\ step = "write" => result = "SENT" /\ reached'["seller"] > 0
    <3>1. CASE EditMessage(s)
      <4>1. reached'["seller"] > 0
        BY <1>0, <3>1 DEF EditMessage, Editing, Arrives
      <4>2. noteTx' = [noteTx EXCEPT ![s] = AnsweredTx(s, "write", "SENT")]
        <5>1. noteTx' = [noteTx EXCEPT ![s].step = "write", ![s].result = "SENT"]
          BY <3>1 DEF EditMessage
        <5>2. noteTx \in [Sessions -> NoteTransaction]
          BY <1>0
        <5> QED
          BY <5>1, <5>2 DEF AnsweredTx
      <4> QED
        BY <1>0, <4>1, <4>2
    <3>2. CASE EditFails(s)
      <4>1. noteTx' = [noteTx EXCEPT ![s] = AnsweredTx(s, "send", noteTx[s].result)]
        BY <1>0, <3>2 DEF EditFails, AnsweredTx, NoteTransaction
      <4>2. noteTx[s].result \in NoteStatuses
        BY <1>0 DEF NoteTransaction
      <4> QED
        BY <4>1, <4>2
    <3> QED
      BY <1>14, <3>1, <3>2
  <2> DEFINE t == AnsweredTx(s, step, result)
  <2>1. /\ noteTx' = [noteTx EXCEPT ![s] = t]
        /\ t \in NoteTransaction /\ t.step = step /\ t.result = result
        /\ t.consumer = noteTx[s].consumer
        /\ t.loaded = noteTx[s].loaded /\ t.byHand = noteTx[s].byHand
    BY <2>0, AnsweredType
  <2> HIDE DEF t
  <2>3. /\ UNCHANGED <<noteEvent, note, acknowledged, declined, misled>>
        /\ noteTx[s].consumer = "seller" /\ noteTx[s].step = "found"
        /\ reached' \in [Consumers -> Nat]
        /\ \A c \in Consumers : reached'[c] >= reached[c]
        /\ mishaps' \in 0 .. MaxMishaps
    BY <1>0, <1>14, MaxMishapsAssumption DEF EditMessage, EditFails, Editing, Arrives, Mishap
  <2>4. noteTx'[s] = t
    BY <2>1, NoteTxEffect
  <2>5. DispatchIsSound(s)
    BY <1>0
  <2>6. DispatchIsSound(s)'
    BY <2>0, <2>1, <2>3, <2>4, <2>5 DEF DispatchIsSound, SellerDecided, KnowsOfFailure
  <2> QED
    BY <1>0, <2>1, <2>3, <2>6, QuietNoteStepKeeps
<1>15. CASE BotShowsDecision
  <2>1. /\ UNCHANGED <<noteEvent, note, acknowledged, noteTx, declined, misled, mishaps>>
        /\ reached' \in [Consumers -> Nat]
        /\ \A c \in Consumers : reached'[c] >= reached[c]
    BY <1>0, <1>15 DEF BotShowsDecision
  <2>2. RowsTellTheTruth' /\ AcknowledgedMeansArrived'
    BY <1>0, <2>1 DEF RowsTellTheTruth, AcknowledgedMeansArrived
  <2>3. \A s \in Sessions : DispatchIsSound(s)'
    <3> SUFFICES ASSUME NEW s \in Sessions PROVE DispatchIsSound(s)'
      OBVIOUS
    <3>1. reached'[noteTx[s].consumer] >= reached[noteTx[s].consumer]
          /\ reached[noteTx[s].consumer] \in Nat /\ reached'[noteTx[s].consumer] \in Nat
      BY <1>0, <2>1 DEF NoteTransaction
    <3> QED
      BY <1>0, <2>1, <3>1 DEF DispatchIsSound, SellerDecided, KnowsOfFailure
  <2> QED
    BY <1>0, <2>1, <2>2, <2>3 DEF NoteInv, NoteTypeOK
<1>16. ASSUME NEW s \in Sessions, FinishPayment(s) PROVE NoteInv'
  <2>1. /\ noteTx' = [noteTx EXCEPT ![s] = IdleNoteTx]
        /\ UNCHANGED <<noteEvent, reached, declined, misled, mishaps>>
        /\ noteTx[s].step = "write" /\ noteTx[s].consumer = "seller"
    BY <1>0, <1>16 DEF FinishPayment, EndNoteTx, KeepsRow, NoteTransaction
  <2>2. \/ UNCHANGED <<note, acknowledged>>
        \/ /\ reached["seller"] > 0
           /\ acknowledged' = acknowledged \cup {"seller"}
           /\ note' = note \/ note' = [note EXCEPT !["seller"] = "SENT"]
    BY <1>0, <1>16, <2>1 DEF FinishPayment, Acknowledge, DispatchIsSound
  <2>7. note' = note \/ note' = [note EXCEPT !["seller"] = "SENT"]
    BY <2>2
  <2>3. /\ note' \in [Consumers -> NoteStatuses] /\ acknowledged' \subseteq Consumers
        /\ note'["seller"] = note["seller"] \/ note'["seller"] = "SENT"
    <3>1. "SENT" \in NoteStatuses /\ "seller" \in Consumers
      BY <1>0
    <3>2. acknowledged' \subseteq Consumers
      BY <1>0, <2>2, <3>1
    <3> QED
      BY <1>0, <2>7, <3>1, <3>2
  <2>4. RowsTellTheTruth'
    BY <1>0, <2>1, <2>2 DEF RowsTellTheTruth
  <2>6. AcknowledgedMeansArrived'
    BY <1>0, <2>1, <2>2 DEF AcknowledgedMeansArrived
  <2>5. DispatchIsSound(s)'
    BY <2>1, EndIsSound
  <2> QED
    BY <1>0, <2>1, <2>3, <2>4, <2>5, <2>6, IdleNoteType, RowStepKeeps
<1>13. CASE UNCHANGED noteVars
  BY <1>0, <1>13
  DEF noteVars, NoteInv, NoteTypeOK, RowsTellTheTruth, DispatchIsSound, SellerDecided,
      KnowsOfFailure, AcknowledgedMeansArrived
<1> QED
  BY <1>1, <1>3, <1>4, <1>5, <1>6, <1>8, <1>9, <1>10, <1>11, <1>12, <1>13, <1>14, <1>15, <1>16
  DEF NoteNext

(***************************************************************************)
(* An event is acknowledged only when its message arrived or the customer  *)
(* cannot be written to, whatever two dispatches of it do to each other.   *)
(***************************************************************************)
THEOREM AcknowledgedArrived == NoteSpec => []AcknowledgedMeansArrived
<1>1. NoteInv => AcknowledgedMeansArrived
  BY DEF NoteInv
<1> QED
  BY <1>1, NoteInvInit, NoteInvNext, PTL DEF NoteSpec

-----------------------------------------------------------------------------
(***************************************************************************)
(* Receipt files.  Until its commit an upload holds the payment, so that   *)
(* the path it replaces is the one it read, and its new file is its own;   *)
(* afterwards the file it replaced is not the payment's.  Owed is what an  *)
(* upload at work will delete or hand over.                                *)
(***************************************************************************)
Owed(t) ==
    IF t.step = "update" THEN {t.new}
    ELSE IF t.step \in {"confirm", "clean"} THEN {t.old}
    ELSE {}

UploadIsSound(s) ==
    /\ receiptTx[s].step \in {"save", "update"} =>
          receiptHolder = s /\ receiptTx[s].old = receiptPath
    /\ receiptTx[s].step = "update" =>
          /\ receiptTx[s].new \in receipts
          /\ receiptTx[s].new # receiptPath
          /\ receiptTx[s].new # NoFile
          /\ \A q \in Sessions \ {s} :
                receiptTx[s].new # receiptTx[q].old /\ receiptTx[s].new # receiptTx[q].new
    /\ receiptTx[s].step \in {"confirm", "clean"} =>
          receiptTx[s].old # receiptPath \/ receiptPath = NoFile

PathHasFile == receiptPath # NoFile => receiptPath \in receipts \cup misjudged

FilesAreOwed ==
    \A f \in receipts : \/ f = receiptPath
                        \/ f \in leftovers
                        \/ \E s \in Sessions : f \in Owed(receiptTx[s])

ReceiptInv ==
    /\ ReceiptTypeOK
    /\ \A s \in Sessions : UploadIsSound(s)
    /\ PathHasFile
    /\ FilesAreOwed

LEMMA IdleReceiptType ==
    /\ IdleReceiptTx \in ReceiptTransaction /\ IdleReceiptTx.step = "idle"
    /\ IdleReceiptTx.old = NoFile /\ IdleReceiptTx.new = NoFile
    /\ Owed(IdleReceiptTx) = {}
  BY DEF IdleReceiptTx, ReceiptTransaction, Owed

LEMMA ReceiptInvInit == ReceiptInit => ReceiptInv
<1> SUFFICES ASSUME ReceiptInit PROVE ReceiptInv
  OBVIOUS
<1>1. ReceiptTypeOK
  BY IdleReceiptType, ReceiptAssumption DEF ReceiptInit, ReceiptTypeOK
<1>2. \A s \in Sessions : UploadIsSound(s)
  BY IdleReceiptType DEF ReceiptInit, UploadIsSound
<1>3. PathHasFile /\ FilesAreOwed
  BY DEF ReceiptInit, PathHasFile, FilesAreOwed
<1> QED
  BY <1>1, <1>2, <1>3 DEF ReceiptInv

LEMMA ReceiptTxEffect ==
    ASSUME ReceiptInv, NEW s \in Sessions, NEW t \in ReceiptTransaction,
           receiptTx' = [receiptTx EXCEPT ![s] = t]
    PROVE  /\ receiptTx' \in [Sessions -> ReceiptTransaction]
           /\ receiptTx'[s] = t
           /\ \A q \in Sessions \ {s} : receiptTx'[q] = receiptTx[q]
  BY DEF ReceiptInv, ReceiptTypeOK

(***************************************************************************)
(* The uploads of other sessions stay sound.  Whoever is not idle in the   *)
(* transaction of an upload holds the payment, so that the other uploads   *)
(* are beyond their commit.                                                *)
(***************************************************************************)
LEMMA HolderIsAlone ==
    ASSUME ReceiptInv, NEW s \in Sessions, receiptHolder \in {s, Nobody}
    PROVE  \A q \in Sessions \ {s} : receiptTx[q].step \notin {"save", "update"}
  BY SessionsAssumption DEF ReceiptInv, UploadIsSound

(***************************************************************************)
(* A step that changes the path: its own new file becomes the payment's.   *)
(***************************************************************************)
LEMMA NewPathIsNobodysOld ==
    ASSUME ReceiptInv, NEW s \in Sessions, receiptTx[s].step = "update"
    PROVE  \A q \in Sessions \ {s} : receiptTx[q].old # receiptTx[s].new
  BY DEF ReceiptInv, UploadIsSound

(***************************************************************************)
(* Ending an upload: the session is idle, and what it owed has been        *)
(* deleted or left behind.                                                 *)
(***************************************************************************)
LEMMA EndReceiptKeeps ==
    ASSUME ReceiptInv, NEW s \in Sessions, EndReceiptTx(s),
           receiptPath' \in ReceiptFile \cup {NoFile},
           uploadsOpen' = uploadsOpen,
           receipts' \subseteq ReceiptFile,
           leftovers' \subseteq ReceiptFile, leftovers \subseteq leftovers',
           misjudged' \subseteq ReceiptFile,
           fileFaults' \in 0 .. MaxFileFaults,
           PathHasFile',
           receiptPath' = receiptPath
             \/ (receiptTx[s].step = "update" /\ receiptPath' = receiptTx[s].new),
           \A q \in Sessions \ {s} : receiptTx[q].step = "update" =>
                                        receiptTx[q].new \in receipts',
           \A f \in receipts' : \/ f \in receipts /\ f # receiptPath /\ f \notin Owed(receiptTx[s])
                                \/ f = receiptPath'
                                \/ f \in leftovers'
    PROVE  ReceiptInv'
<1>1. /\ receiptTx' \in [Sessions -> ReceiptTransaction]
      /\ receiptTx'[s] = IdleReceiptTx
      /\ \A q \in Sessions \ {s} : receiptTx'[q] = receiptTx[q]
  BY IdleReceiptType, ReceiptTxEffect DEF EndReceiptTx
<1>2. /\ receiptHolder' = IF receiptHolder = s THEN Nobody ELSE receiptHolder
      /\ receiptHolder' \in Sessions \cup {Nobody}
  BY DEF EndReceiptTx, ReceiptInv, ReceiptTypeOK
<1>3. ReceiptTypeOK'
  BY <1>1, <1>2 DEF ReceiptInv, ReceiptTypeOK
<1>4. UploadIsSound(s)'
  BY <1>1, IdleReceiptType DEF UploadIsSound
<1>5. ASSUME NEW q \in Sessions \ {s} PROVE UploadIsSound(q)'
  <2>1. UploadIsSound(q) /\ receiptTx'[q] = receiptTx[q]
    BY <1>1, <1>5 DEF ReceiptInv
  <2>2. CASE receiptTx[q].step \in {"save", "update"}
    <3>1. receiptHolder = q /\ receiptHolder' = q /\ receiptTx[s].step # "update"
      BY <1>2, <1>5, <2>1, <2>2 DEF ReceiptInv, UploadIsSound
    <3>2. receiptPath' = receiptPath
      BY <3>1
    <3>3. receiptTx[q].step = "update" =>
             \A x \in Sessions \ {q} : /\ receiptTx[q].new # receiptTx'[x].old
                                       /\ receiptTx[q].new # receiptTx'[x].new
      BY <1>1, <2>1, IdleReceiptType DEF UploadIsSound
    <3> QED
      BY <2>1, <2>2, <3>1, <3>2, <3>3 DEF UploadIsSound
  <2>3. CASE receiptTx[q].step \in {"confirm", "clean"}
    <3>1. receiptPath' # receiptPath => receiptTx[q].old # receiptPath'
      BY <1>5, NewPathIsNobodysOld
    <3> QED
      BY <2>1, <2>3, <3>1 DEF UploadIsSound
  <2>4. CASE receiptTx[q].step \notin {"save", "update", "confirm", "clean"}
    BY <2>1, <2>4 DEF UploadIsSound
  <2> QED
    BY <2>2, <2>3, <2>4
<1>6. FilesAreOwed'
  <2> SUFFICES ASSUME NEW f \in receipts', f # receiptPath', f \notin leftovers'
               PROVE  \E q \in Sessions : f \in Owed(receiptTx'[q])
    BY DEF FilesAreOwed
  <2>1. f \in receipts /\ f # receiptPath /\ f \notin Owed(receiptTx[s]) /\ f \notin leftovers
    OBVIOUS
  <2>2. PICK q \in Sessions : f \in Owed(receiptTx[q])
    BY <2>1 DEF ReceiptInv, FilesAreOwed
  <2>3. receiptTx'[q] = receiptTx[q]
    BY <1>1, <2>1, <2>2
  <2> QED
    BY <2>2, <2>3
<1>7. \A q \in Sessions : UploadIsSound(q)'
  BY <1>4, <1>5
<1> QED
  BY <1>3, <1>6, <1>7 DEF ReceiptInv

LEMMA ReceiptInvNext == ReceiptInv /\ [ReceiptNext]_receiptVars => ReceiptInv'
<1> SUFFICES ASSUME ReceiptInv, [ReceiptNext]_receiptVars PROVE ReceiptInv'
  OBVIOUS
<1>0. /\ receiptPath \in ReceiptFile \cup {NoFile} /\ uploadsOpen \in BOOLEAN
      /\ receiptHolder \in Sessions \cup {Nobody}
      /\ receiptTx \in [Sessions -> ReceiptTransaction]
      /\ receipts \subseteq ReceiptFile /\ leftovers \subseteq ReceiptFile
      /\ misjudged \subseteq ReceiptFile /\ fileFaults \in 0 .. MaxFileFaults
      /\ \A s \in Sessions : receiptTx[s] \in ReceiptTransaction /\ UploadIsSound(s)
      /\ PathHasFile /\ FilesAreOwed /\ NoFile \notin ReceiptFile
  BY ReceiptAssumption DEF ReceiptInv, ReceiptTypeOK
<1>1. ASSUME FileFault PROVE fileFaults' \in 0 .. MaxFileFaults
  BY <1>0, <1>1, ReceiptAssumption DEF FileFault
<1>2. ASSUME NEW s \in Sessions, UploadBegin(s) PROVE ReceiptInv'
  <2> DEFINE t == [step |-> "save", old |-> receiptPath, new |-> NoFile]
  <2>1. t \in ReceiptTransaction /\ t.step = "save" /\ t.old = receiptPath /\ t.new = NoFile
    BY <1>0 DEF ReceiptTransaction
  <2>2. /\ receiptTx' = [receiptTx EXCEPT ![s] = t]
        /\ receiptTx[s].step = "idle" /\ receiptHolder = Nobody /\ receiptHolder' = s
        /\ UNCHANGED <<receiptPath, uploadsOpen, receipts, leftovers, misjudged, fileFaults>>
    BY <1>2 DEF UploadBegin, TakePayment
  <2> HIDE DEF t
  <2>3. /\ receiptTx' \in [Sessions -> ReceiptTransaction] /\ receiptTx'[s] = t
        /\ \A q \in Sessions \ {s} : receiptTx'[q] = receiptTx[q]
    BY <2>1, <2>2, ReceiptTxEffect
  <2>4. \A q \in Sessions \ {s} : UploadIsSound(q) /\ receiptTx[q].step \notin {"save", "update"}
    BY <1>0, <2>2, HolderIsAlone
  <2>5. \A q \in Sessions : UploadIsSound(q)'
    BY <2>1, <2>2, <2>3, <2>4 DEF UploadIsSound
  <2>6. ReceiptTypeOK'
    BY <1>0, <2>2, <2>3 DEF ReceiptTypeOK
  <2>7. Owed(receiptTx[s]) = {}
    BY <2>2 DEF Owed
  <2>8. FilesAreOwed'
    BY <1>0, <2>2, <2>3, <2>7 DEF FilesAreOwed
  <2> QED
    BY <1>0, <2>2, <2>5, <2>6, <2>8 DEF ReceiptInv, PathHasFile
<1>3. ASSUME NEW s \in Sessions, NEW f \in ReceiptFile, SaveReceipt(s, f) PROVE ReceiptInv'
  <2>1. /\ receiptTx[s].step = "save" /\ receiptHolder = s /\ receiptTx[s].old = receiptPath
        /\ receipts' = receipts \cup {f} /\ UNCHANGED <<receiptPath, uploadsOpen, misjudged>>
        /\ Owed(receiptTx[s]) = {}
    BY <1>0, <1>3 DEF SaveReceipt, UploadIsSound, Owed
  <2>2. /\ f \notin receipts /\ f # receiptPath /\ f # NoFile
        /\ \A q \in Sessions : f # receiptTx[q].old /\ f # receiptTx[q].new
    BY <1>0, <1>3 DEF SaveReceipt, InUse
  <2>3. \A q \in Sessions \ {s} : UploadIsSound(q) /\ receiptTx[q].step \notin {"save", "update"}
    BY <1>0, <2>1, HolderIsAlone
  <2>4. CASE /\ receiptTx' = [receiptTx EXCEPT ![s].step = "update", ![s].new = f]
             /\ UNCHANGED <<receiptHolder, leftovers, fileFaults>>
    <3> DEFINE t == [receiptTx[s] EXCEPT !.step = "update", !.new = f]
    <3>1. /\ t \in ReceiptTransaction /\ t.step = "update" /\ t.new = f
          /\ t.old = receiptTx[s].old
      BY <1>0 DEF ReceiptTransaction
    <3>2. receiptTx' = [receiptTx EXCEPT ![s] = t]
      BY <1>0, <2>4 DEF ReceiptTransaction
    <3> HIDE DEF t
    <3>3. /\ receiptTx' \in [Sessions -> ReceiptTransaction] /\ receiptTx'[s] = t
          /\ \A q \in Sessions \ {s} : receiptTx'[q] = receiptTx[q]
      BY <3>1, <3>2, ReceiptTxEffect
    <3>4. UploadIsSound(s)'
      BY <2>1, <2>2, <2>4, <3>1, <3>3 DEF UploadIsSound
    <3>5. \A q \in Sessions \ {s} : UploadIsSound(q)'
      BY <2>1, <2>3, <2>4, <3>3 DEF UploadIsSound
    <3>6. ReceiptTypeOK'
      BY <1>0, <2>1, <2>4, <3>3 DEF ReceiptTypeOK
    <3>7. f \in Owed(receiptTx'[s])
      BY <3>1, <3>3 DEF Owed
    <3>8. FilesAreOwed'
      BY <1>0, <2>1, <2>4, <3>3, <3>7 DEF FilesAreOwed
    <3>9. PathHasFile'
      BY <1>0, <2>1 DEF PathHasFile
    <3>10. \A q \in Sessions : UploadIsSound(q)'
      BY <3>4, <3>5
    <3> QED
      BY <3>6, <3>8, <3>9, <3>10 DEF ReceiptInv
  <2>5. CASE FileFault /\ EndReceiptTx(s) /\ LeaveBehind({f})
    <3>1. leftovers' = leftovers \cup {f}
      BY <2>2, <2>5 DEF LeaveBehind
    <3>2. PathHasFile'
      BY <1>0, <2>1 DEF PathHasFile
    <3>3. \A q \in Sessions \ {s} : receiptTx[q].step # "update"
      BY <2>3
    <3>4. \A g \in receipts' : \/ g \in receipts /\ g # receiptPath /\ g \notin Owed(receiptTx[s])
                               \/ g = receiptPath'
                               \/ g \in leftovers'
      BY <2>1, <3>1
    <3>5. receipts' \subseteq ReceiptFile /\ leftovers' \subseteq ReceiptFile
          /\ leftovers \subseteq leftovers' /\ fileFaults' \in 0 .. MaxFileFaults
      BY <1>0, <1>1, <2>1, <2>5, <3>1
    <3> QED
      BY <1>0, <2>1, <2>5, <3>2, <3>3, <3>4, <3>5, EndReceiptKeeps
  <2> QED
    BY <1>3, <2>4, <2>5 DEF SaveReceipt
<1>4. ASSUME NEW s \in Sessions, ReceiptCommit(s) PROVE ReceiptInv'
  <2> DEFINE t == [receiptTx[s] EXCEPT !.step = "confirm"]
             new == receiptTx[s].new
  <2>1. /\ t \in ReceiptTransaction /\ t.step = "confirm"
        /\ t.old = receiptTx[s].old /\ t.new = new
    BY <1>0 DEF ReceiptTransaction
  <2>2. /\ receiptTx' = [receiptTx EXCEPT ![s] = t]
        /\ receiptTx[s].step = "update" /\ receiptPath' = new /\ receiptHolder' = Nobody
        /\ UNCHANGED <<uploadsOpen, receipts, leftovers, misjudged, fileFaults>>
    BY <1>0, <1>4 DEF ReceiptCommit, ReceiptTransaction
  <2>3. /\ receiptHolder = s /\ receiptTx[s].old = receiptPath
        /\ new \in receipts /\ new # receiptPath /\ new # NoFile
        /\ \A q \in Sessions \ {s} : new # receiptTx[q].old /\ new # receiptTx[q].new
    BY <1>0, <2>2 DEF UploadIsSound
  <2> HIDE DEF t, new
  <2>4. /\ receiptTx' \in [Sessions -> ReceiptTransaction] /\ receiptTx'[s] = t
        /\ \A q \in Sessions \ {s} : receiptTx'[q] = receiptTx[q]
    BY <2>1, <2>2, ReceiptTxEffect
  <2>5. \A q \in Sessions \ {s} : UploadIsSound(q) /\ receiptTx[q].step \notin {"save", "update"}
    BY <1>0, <2>3, HolderIsAlone
  <2>6. UploadIsSound(s)'
    BY <2>1, <2>2, <2>3, <2>4 DEF UploadIsSound
  <2>7. \A q \in Sessions \ {s} : UploadIsSound(q)'
    BY <2>2, <2>3, <2>4, <2>5 DEF UploadIsSound
  <2>8. ReceiptTypeOK'
    BY <1>0, <2>2, <2>3, <2>4 DEF ReceiptTypeOK
  <2>9. PathHasFile'
    BY <2>2, <2>3 DEF PathHasFile
  <2>10. Owed(receiptTx[s]) = {new} /\ receiptPath \in Owed(receiptTx'[s])
    BY <2>1, <2>2, <2>3, <2>4 DEF Owed, new
  <2>11. FilesAreOwed'
    BY <1>0, <2>2, <2>4, <2>10 DEF FilesAreOwed
  <2>12. \A q \in Sessions : UploadIsSound(q)'
    BY <2>6, <2>7
  <2> QED
    BY <2>8, <2>9, <2>11, <2>12 DEF ReceiptInv
<1>5. ASSUME NEW s \in Sessions, NEW applied \in BOOLEAN, ReceiptCommitFails(s, applied)
      PROVE  ReceiptInv'
  <2> DEFINE new == receiptTx[s].new
             old == receiptTx[s].old
  <2>1. /\ receiptTx[s].step = "update" /\ FileFault /\ EndReceiptTx(s)
        /\ receiptPath' = IF applied THEN new ELSE receiptPath
        /\ receipts' = receipts \ {new}
        /\ misjudged' = IF applied THEN misjudged \cup {new} ELSE misjudged
        /\ leftovers' = leftovers \cup ((IF applied THEN {old} ELSE {}) \ {NoFile})
        /\ UNCHANGED uploadsOpen
    BY <1>5 DEF ReceiptCommitFails, LeaveBehind
  <2>2. /\ receiptHolder = s /\ old = receiptPath
        /\ new \in receipts /\ new # receiptPath /\ new # NoFile
        /\ Owed(receiptTx[s]) = {new}
        /\ old \in ReceiptFile \cup {NoFile}
    BY <1>0, <2>1 DEF UploadIsSound, Owed
  <2> HIDE DEF new, old
  <2>3. \A q \in Sessions \ {s} : receiptTx[q].step # "update"
    BY <2>2, HolderIsAlone
  <2>4. PathHasFile'
    BY <1>0, <2>1, <2>2 DEF PathHasFile
  <2>5. /\ receipts' \subseteq ReceiptFile /\ leftovers' \subseteq ReceiptFile
        /\ leftovers \subseteq leftovers' /\ misjudged' \subseteq ReceiptFile
        /\ receiptPath' \in ReceiptFile \cup {NoFile} /\ fileFaults' \in 0 .. MaxFileFaults
    BY <1>0, <1>1, <2>1, <2>2
  <2>6. \A g \in receipts' : \/ g \in receipts /\ g # receiptPath /\ g \notin Owed(receiptTx[s])
                             \/ g = receiptPath'
                             \/ g \in leftovers'
    BY <1>0, <2>1, <2>2
  <2>7. receiptPath' = receiptPath
          \/ (receiptTx[s].step = "update" /\ receiptPath' = receiptTx[s].new)
    BY <2>1 DEF new
  <2> QED
    BY <2>1, <2>3, <2>4, <2>5, <2>6, <2>7, EndReceiptKeeps
<1>6. ASSUME NEW s \in Sessions, ConfirmReceipt(s) PROVE ReceiptInv'
  <2>1. /\ receiptTx[s].step = "confirm"
        /\ UNCHANGED <<receiptPath, uploadsOpen, misjudged, fileFaults>>
        /\ receiptTx[s].old # receiptPath \/ receiptPath = NoFile
        /\ Owed(receiptTx[s]) = {receiptTx[s].old}
    BY <1>0, <1>6 DEF ConfirmReceipt, UploadIsSound, Owed
  <2>2. CASE /\ receiptTx' = [receiptTx EXCEPT ![s].step = "clean"]
             /\ UNCHANGED <<receiptHolder, receipts, leftovers>>
    <3> DEFINE t == [receiptTx[s] EXCEPT !.step = "clean"]
    <3>1. /\ t \in ReceiptTransaction /\ t.step = "clean"
          /\ t.old = receiptTx[s].old /\ t.new = receiptTx[s].new
      BY <1>0 DEF ReceiptTransaction
    <3>2. receiptTx' = [receiptTx EXCEPT ![s] = t]
      BY <1>0, <2>2 DEF ReceiptTransaction
    <3> HIDE DEF t
    <3>3. /\ receiptTx' \in [Sessions -> ReceiptTransaction] /\ receiptTx'[s] = t
          /\ \A q \in Sessions \ {s} : receiptTx'[q] = receiptTx[q]
      BY <3>1, <3>2, ReceiptTxEffect
    <3>4. \A q \in Sessions : /\ receiptTx'[q].old = receiptTx[q].old
                              /\ receiptTx'[q].new = receiptTx[q].new
                              /\ Owed(receiptTx'[q]) = Owed(receiptTx[q])
      BY <2>1, <3>1, <3>3 DEF Owed
    <3>5. UploadIsSound(s)'
      BY <2>1, <2>2, <3>1, <3>3 DEF UploadIsSound
    <3>6. \A q \in Sessions \ {s} : UploadIsSound(q)'
      BY <1>0, <2>1, <2>2, <3>3, <3>4 DEF UploadIsSound
    <3>7. ReceiptTypeOK' /\ PathHasFile'
      BY <1>0, <2>1, <2>2, <3>3 DEF ReceiptTypeOK, PathHasFile
    <3>8. FilesAreOwed'
      BY <1>0, <2>1, <2>2, <3>4 DEF FilesAreOwed
    <3>9. \A q \in Sessions : UploadIsSound(q)'
      BY <3>5, <3>6
    <3> QED
      BY <3>7, <3>8, <3>9 DEF ReceiptInv
  <2>3. CASE /\ receiptPath # receiptTx[s].new
             /\ receipts' = receipts \ {receiptTx[s].new}
             /\ LeaveBehind({receiptTx[s].old})
             /\ EndReceiptTx(s)
    <3> DEFINE new == receiptTx[s].new
               old == receiptTx[s].old
    <3>1. /\ leftovers' = leftovers \cup ({old} \ {NoFile})
          /\ old \in ReceiptFile \cup {NoFile} /\ receipts' = receipts \ {new}
          /\ receiptPath # new
      BY <1>0, <2>3 DEF LeaveBehind, ReceiptTransaction
    <3>2. \A q \in Sessions \ {s} : receiptTx[q].step = "update" => receiptTx[q].new \in receipts'
      BY <1>0, <3>1 DEF UploadIsSound
    <3> HIDE DEF new, old
    <3>3. PathHasFile'
      BY <1>0, <2>1, <3>1 DEF PathHasFile
    <3>4. /\ receipts' \subseteq ReceiptFile /\ leftovers' \subseteq ReceiptFile
          /\ leftovers \subseteq leftovers'
      BY <1>0, <3>1
    <3>5. \A g \in receipts' : \/ g \in receipts /\ g # receiptPath /\ g \notin Owed(receiptTx[s])
                               \/ g = receiptPath'
                               \/ g \in leftovers'
      BY <1>0, <2>1, <3>1 DEF old
    <3> QED
      BY <1>0, <2>1, <2>3, <3>2, <3>3, <3>4, <3>5, EndReceiptKeeps
  <2> QED
    BY <1>6, <2>2, <2>3 DEF ConfirmReceipt
<1>7. ASSUME NEW s \in Sessions, DeleteReplaced(s) PROVE ReceiptInv'
  <2>1. /\ receiptTx[s].step = "clean" /\ EndReceiptTx(s)
        /\ receipts' = receipts \ {receiptTx[s].old}
        /\ UNCHANGED <<receiptPath, uploadsOpen, leftovers, misjudged, fileFaults>>
        /\ receiptTx[s].old # receiptPath \/ receiptPath = NoFile
        /\ Owed(receiptTx[s]) = {receiptTx[s].old}
    BY <1>0, <1>7 DEF DeleteReplaced, UploadIsSound, Owed
  <2>2. \A q \in Sessions \ {s} : receiptTx[q].step = "update" => receiptTx[q].new \in receipts'
    BY <1>0, <2>1 DEF UploadIsSound
  <2>3. PathHasFile'
    BY <1>0, <2>1 DEF PathHasFile
  <2>4. receipts' \subseteq ReceiptFile
    BY <1>0, <2>1
  <2>5. \A g \in receipts' : \/ g \in receipts /\ g # receiptPath /\ g \notin Owed(receiptTx[s])
                             \/ g = receiptPath'
                             \/ g \in leftovers'
    BY <2>1
  <2> QED
    BY <1>0, <2>1, <2>2, <2>3, <2>4, <2>5, EndReceiptKeeps
<1>8. ASSUME NEW s \in Sessions, UploadCrash(s) PROVE ReceiptInv'
  <2> DEFINE t == receiptTx[s]
             left == CASE t.step = "save" -> {}
                       [] t.step = "update" -> {t.new}
                       [] OTHER -> {t.old}
  <2>1. /\ t.step # "idle" /\ FileFault /\ EndReceiptTx(s) /\ LeaveBehind(left)
        /\ UNCHANGED <<receiptPath, uploadsOpen, receipts, misjudged>>
    BY <1>8 DEF UploadCrash
  <2>2. left = Owed(t)
    BY <1>0, <2>1 DEF Owed, ReceiptTransaction
  <2>3. Owed(t) \subseteq ReceiptFile \cup {NoFile}
    BY <1>0 DEF Owed, ReceiptTransaction
  <2> HIDE DEF left
  <2>4. /\ leftovers' = leftovers \cup (Owed(t) \ {NoFile})
        /\ leftovers' \subseteq ReceiptFile /\ leftovers \subseteq leftovers'
    BY <1>0, <2>1, <2>2, <2>3 DEF LeaveBehind
  <2>5. \A q \in Sessions \ {s} : receiptTx[q].step = "update" => receiptTx[q].new \in receipts'
    BY <1>0, <2>1 DEF UploadIsSound
  <2>6. PathHasFile'
    BY <1>0, <2>1 DEF PathHasFile
  <2>7. \A g \in receipts' : \/ g \in receipts /\ g # receiptPath /\ g \notin Owed(receiptTx[s])
                             \/ g = receiptPath'
                             \/ g \in leftovers'
    BY <1>0, <2>1, <2>4
  <2>8. fileFaults' \in 0 .. MaxFileFaults
    BY <1>1, <2>1
  <2> QED
    BY <1>0, <2>1, <2>4, <2>5, <2>6, <2>7, <2>8, EndReceiptKeeps
<1>9. CASE CloseUploads
  <2>1. /\ uploadsOpen' = FALSE
        /\ UNCHANGED <<receiptPath, receiptHolder, receiptTx, receipts, leftovers, misjudged, fileFaults>>
    BY <1>9 DEF CloseUploads
  <2> QED
    BY <1>0, <2>1 DEF ReceiptInv, ReceiptTypeOK, UploadIsSound, PathHasFile, FilesAreOwed
<1>10. CASE UNCHANGED receiptVars
  BY <1>0, <1>10
  DEF receiptVars, ReceiptInv, ReceiptTypeOK, UploadIsSound, PathHasFile, FilesAreOwed
<1> QED
  BY <1>2, <1>3, <1>4, <1>5, <1>6, <1>7, <1>8, <1>9, <1>10 DEF ReceiptNext

(***************************************************************************)
(* The file of the receipt is there, unless a commit was reported lost and *)
(* had been applied, and every other file has somebody to delete it or is  *)
(* a leftover of a fault.                                                  *)
(***************************************************************************)
THEOREM ReceiptStays == ReceiptSpec => []ReceiptIsKept
<1>1. ReceiptInv => ReceiptIsKept
  <2> SUFFICES ASSUME ReceiptInv PROVE ReceiptIsKept
    OBVIOUS
  <2>1. \A s \in Sessions : Owed(receiptTx[s]) \subseteq {receiptTx[s].old, receiptTx[s].new}
    BY DEF Owed
  <2> QED
    BY <2>1 DEF ReceiptInv, PathHasFile, FilesAreOwed, ReceiptIsKept
<1> QED
  BY <1>1, ReceiptInvInit, ReceiptInvNext, PTL DEF ReceiptSpec

-----------------------------------------------------------------------------
(***************************************************************************)
(* Promo codes.  A checkout that has counted the usages holds the row of   *)
(* the code, so that neither the usages nor the limits nor the discount    *)
(* change until it commits.  What an edit enters is valid, or leaves the   *)
(* type and the value as it saw them.                                      *)
(***************************************************************************)
CheckoutsOwnTheRow ==
    \A s \in Sessions : promoTx[s].step \in {"locked", "priced"} => promoHolder = s

CheckedIsWithinLimits ==
    \A s \in Sessions : promoTx[s].step = "priced" => LimitsAllow(promoTx[s].customer)

BillIsRight(b) ==
    /\ b.discount = Discount(promo, b.subtotal)
    /\ b.discount \in 0 .. b.subtotal
    /\ b.total = b.subtotal - b.discount

BillsAreRight ==
    \A s \in Sessions : promoTx[s].step = "priced" => BillIsRight(promoTx[s].bill)

EditIsValid(t) ==
    ValidDiscount(t.row) \/ (t.row.percent = t.seen.percent /\ t.row.value = t.seen.value)

EditsAreValid ==
    \A s \in Sessions : promoTx[s].step = "edit" => EditIsValid(promoTx[s])

PromoInv ==
    /\ PromoTypeOK
    /\ IsFiniteSet(usages)
    /\ CheckoutsOwnTheRow
    /\ CheckedIsWithinLimits
    /\ BillsAreRight
    /\ EditsAreValid

-----------------------------------------------------------------------------
(***************************************************************************)
(* A discount is a natural number not above the price.                     *)
(***************************************************************************)
LEMMA ProductType == ASSUME NEW a \in Nat, NEW b \in Nat PROVE a * b \in Nat
  OBVIOUS

LEMMA RoundedType == ASSUME NEW a \in Nat PROVE (a + 50) \div 100 \in Nat
  OBVIOUS

LEMMA DiscountRange ==
    ASSUME NEW row \in PromoRow, NEW subtotal \in Nat
    PROVE  Discount(row, subtotal) \in 0 .. subtotal
<1>1. row.value \in Nat
  BY DEF PromoRow
<1>2. RawDiscount(row, subtotal) \in Nat
  <2>1. subtotal * row.value \in Nat
    BY <1>1, ProductType
  <2> QED
    BY <1>1, <2>1, RoundedType DEF RawDiscount
<1> QED
  BY <1>2 DEF Discount

LEMMA BillType ==
    ASSUME promo \in PromoRow, NEW subtotal \in Nat
    PROVE  /\ Bill(subtotal, Discount(promo, subtotal)) \in Bills
           /\ BillIsRight(Bill(subtotal, Discount(promo, subtotal)))
  BY DiscountRange DEF Bill, Bills, BillIsRight

LEMMA IdlePromoType == IdlePromoTx \in PromoTransaction
  BY DEF IdlePromoTx, PromoTransaction

(***************************************************************************)
(* The shapes of a transaction.                                            *)
(***************************************************************************)
LEMMA PromoTxShapes ==
    ASSUME NEW t \in PromoTransaction
    PROVE  /\ t.step \in {"checkout", "locked"} => t.customer \in Customers /\ t.subtotal \in Subtotals
           /\ t.step = "checkout" => [t EXCEPT !.step = "locked"] \in PromoTransaction
           /\ t.step = "priced" => t.customer \in Customers /\ t.bill \in Bills
           /\ t.step = "edit" => t.seen \in PromoRow /\ t.row \in PromoRow
<1>1. CASE t \in [step : {"idle"}]
  BY <1>1
<1>2. CASE t \in [step : {"checkout", "locked"}, customer : Customers, subtotal : Subtotals]
  BY <1>2 DEF PromoTransaction
<1>3. CASE t \in [step : {"priced"}, customer : Customers, bill : Bills]
  BY <1>3
<1>4. CASE t \in [step : {"edit"}, seen : PromoRow, row : PromoRow]
  BY <1>4
<1> QED
  BY <1>1, <1>2, <1>3, <1>4 DEF PromoTransaction

LEMMA EditedRow ==
    ASSUME NEW old \in PromoRow, NEW seen \in PromoRow, NEW row \in PromoRow
    PROVE  [column \in DOMAIN old |->
              IF row[column] # seen[column] THEN row[column] ELSE old[column]] \in PromoRow
  BY DEF PromoRow

LEMMA PromoInvInit == PromoInit => PromoInv
<1> SUFFICES ASSUME PromoInit PROVE PromoInv
  OBVIOUS
<1> USE DEF PromoInit
<1>1. PromoTypeOK
  <2>1. promo \in PromoRow
    BY PromoAssumption
  <2>2. bill \in Bills
    BY DEF Bill, Bills
  <2>3. promoTx \in [Sessions -> PromoTransaction]
    BY IdlePromoType
  <2> QED
    BY <2>1, <2>2, <2>3, PromoAssumption DEF PromoTypeOK
<1>2. IsFiniteSet(usages)
  BY FS_EmptySet
<1>3. CheckoutsOwnTheRow /\ CheckedIsWithinLimits
  BY DEF CheckoutsOwnTheRow, CheckedIsWithinLimits, IdlePromoTx
<1>4. BillsAreRight /\ EditsAreValid
  BY DEF BillsAreRight, EditsAreValid, IdlePromoTx
<1> QED
  BY <1>1, <1>2, <1>3, <1>4 DEF PromoInv

-----------------------------------------------------------------------------
(***************************************************************************)
(* A step of session s that changes neither the row nor the usages nor the *)
(* bill, and takes at most a row that nobody holds, keeps the invariant if *)
(* what it leaves in its own transaction is right.                         *)
(***************************************************************************)
LEMMA OwnPromoStep ==
    ASSUME PromoInv, NEW s \in Sessions, NEW t \in PromoTransaction,
           UNCHANGED <<promo, usages, bill>>,
           promoTx' = [promoTx EXCEPT ![s] = t],
           promoHolder' \in Sessions \cup {Nobody},
           promoEdits' \in 0 .. MaxPromoEdits,
           \A r \in Sessions \ {s} : promoHolder = r => promoHolder' = r,
           t.step \in {"locked", "priced"} => promoHolder' = s,
           t.step = "priced" => LimitsAllow(t.customer) /\ BillIsRight(t.bill),
           t.step = "edit" => EditIsValid(t)
    PROVE  PromoInv'
<1>1. PromoTypeOK'
  BY DEF PromoInv, PromoTypeOK
<1>2. IsFiniteSet(usages)'
  BY DEF PromoInv
<1>3. \A r \in Sessions : promoTx'[r] = IF r = s THEN t ELSE promoTx[r]
  BY DEF PromoInv, PromoTypeOK
<1>4. CheckoutsOwnTheRow'
  BY <1>3 DEF PromoInv, CheckoutsOwnTheRow
<1>5. \A c : LimitsAllow(c)' <=> LimitsAllow(c)
  BY DEF LimitsAllow, UsagesOf
<1>6. CheckedIsWithinLimits'
  <2> SUFFICES ASSUME NEW r \in Sessions, promoTx'[r].step = "priced"
               PROVE  LimitsAllow(promoTx[r].customer)'
    BY DEF CheckedIsWithinLimits
  <2>1. LimitsAllow(promoTx'[r].customer)
    BY <1>3 DEF PromoInv, CheckedIsWithinLimits
  <2> QED
    BY <2>1 DEF LimitsAllow, UsagesOf
<1>7. BillsAreRight'
  BY <1>3 DEF PromoInv, BillsAreRight, BillIsRight
<1>8. EditsAreValid'
  BY <1>3 DEF PromoInv, EditsAreValid, EditIsValid
<1> QED
  BY <1>1, <1>2, <1>4, <1>6, <1>7, <1>8 DEF PromoInv

LEMMA EndedPromoHolder ==
    ASSUME PromoInv, NEW s \in Sessions, EndPromoTx(s)
    PROVE  /\ promoHolder' \in Sessions \cup {Nobody}
           /\ \A r \in Sessions \ {s} : promoHolder = r => promoHolder' = r
           /\ promoTx' = [promoTx EXCEPT ![s] = IdlePromoTx]
           /\ \A r \in Sessions : promoTx'[r] = IF r = s THEN IdlePromoTx ELSE promoTx[r]
  BY DEF EndPromoTx, PromoInv, PromoTypeOK

(***************************************************************************)
(* While a session holds the row, no other one has counted the usages.     *)
(***************************************************************************)
LEMMA NobodyElseChecked ==
    ASSUME PromoInv, NEW s \in Sessions, promoHolder \in {s, Nobody}
    PROVE  \A r \in Sessions \ {s} : promoTx[r].step \notin {"locked", "priced"}
  BY SessionsAssumption DEF PromoInv, CheckoutsOwnTheRow

LEMMA OneMore ==
    ASSUME NEW S, NEW x, IsFiniteSet(S)
    PROVE  IsFiniteSet(S \cup {x}) /\ Cardinality(S \cup {x}) <= Cardinality(S) + 1
<1>1. Cardinality(S) \in Nat
  BY FS_CardinalityType
<1>2. /\ IsFiniteSet(S \cup {x})
      /\ Cardinality(S \cup {x}) = IF x \in S THEN Cardinality(S) ELSE Cardinality(S) + 1
  BY FS_AddElement
<1> QED
  BY <1>1, <1>2

LEMMA CommitEffect ==
    ASSUME PromoInv, NEW s \in Sessions, PromoCommit(s)
    PROVE  /\ IsFiniteSet(usages')
           /\ usages' \subseteq Usage
           /\ \A u \in usages' \ usages :
                 /\ promo.limit # 0 => Cardinality(usages') <= promo.limit
                 /\ promo.perUser # 0 => Cardinality(UsagesOf(u.customer)') <= promo.perUser
<1>1. promoTx[s].step = "priced" /\ promoTx[s] \in PromoTransaction
  BY DEF PromoCommit, PromoInv, PromoTypeOK
<1>2. PICK customer \in Customers : customer = promoTx[s].customer /\ LimitsAllow(customer)
  BY <1>1, PromoTxShapes DEF PromoInv, CheckedIsWithinLimits
<1>3. IsFiniteSet(usages) /\ Cardinality(usages) \in Nat
  BY FS_CardinalityType DEF PromoInv
<1>4. [order |-> Cardinality(usages) + 1, customer |-> customer] \in Usage
  BY <1>2, <1>3, PromoAssumption DEF Usage, PromoCommit
<1>5. PICK new \in Usage : new.customer = customer /\ usages' = usages \cup {new}
  BY <1>2, <1>4 DEF PromoCommit
<1>6. IsFiniteSet(usages') /\ Cardinality(usages') <= Cardinality(usages) + 1
  BY <1>3, <1>5, OneMore
<1>7. Cardinality(usages') \in Nat
  BY <1>6, FS_CardinalityType
<1>8. UsagesOf(customer)' = UsagesOf(customer) \cup {new}
  BY <1>5 DEF UsagesOf
<1>9. IsFiniteSet(UsagesOf(customer))
  BY <1>3, FS_Subset DEF UsagesOf
<1>10. /\ Cardinality(UsagesOf(customer)) \in Nat
       /\ Cardinality(UsagesOf(customer) \cup {new}) <= Cardinality(UsagesOf(customer)) + 1
  BY <1>9, FS_CardinalityType, OneMore
<1>11. Cardinality(UsagesOf(customer) \cup {new}) \in Nat
  BY <1>9, FS_AddElement, FS_CardinalityType
<1>12. promo.limit \in Nat /\ promo.perUser \in Nat
  BY DEF PromoInv, PromoTypeOK, PromoRow
<1>13. promo.limit # 0 => Cardinality(usages') <= promo.limit
  BY <1>2, <1>3, <1>6, <1>7, <1>12 DEF LimitsAllow
<1>14. promo.perUser # 0 => Cardinality(UsagesOf(customer) \cup {new}) <= promo.perUser
  BY <1>2, <1>10, <1>11, <1>12 DEF LimitsAllow
<1>15. usages' \subseteq Usage
  BY <1>5 DEF PromoInv, PromoTypeOK
<1>16. ASSUME NEW u \in usages' \ usages
       PROVE  UsagesOf(u.customer)' = UsagesOf(customer) \cup {new}
  <2>1. u = new
    BY <1>5
  <2>2. u.customer = customer
    BY <2>1, <1>5
  <2> QED
    BY <2>2, <1>8
<1> QED
  BY <1>6, <1>13, <1>14, <1>15, <1>16

-----------------------------------------------------------------------------
LEMMA PromoInvNext == PromoInv /\ [PromoNext]_promoVars => PromoInv'
<1> SUFFICES ASSUME PromoInv, [PromoNext]_promoVars PROVE PromoInv'
  OBVIOUS
<1>0. /\ PromoTypeOK /\ promo \in PromoRow /\ promoEdits \in Nat
      /\ promoHolder \in Sessions \cup {Nobody}
      /\ \A s \in Sessions : promoTx[s] \in PromoTransaction
  BY PromoAssumption DEF PromoInv, PromoTypeOK
<1>1. ASSUME NEW s \in Sessions, NEW customer \in Customers, NEW subtotal \in Subtotals,
             PromoCheckoutBegin(s, customer, subtotal)
      PROVE  PromoInv'
  <2> DEFINE t == [step |-> "checkout", customer |-> customer, subtotal |-> subtotal]
  <2>1. t \in PromoTransaction
    BY DEF PromoTransaction
  <2>2. promoTx' = [promoTx EXCEPT ![s] = t] /\ UNCHANGED <<promo, usages, bill, promoHolder, promoEdits>>
    BY <1>1 DEF PromoCheckoutBegin
  <2>3. promoEdits' \in 0 .. MaxPromoEdits
    BY <2>2 DEF PromoInv, PromoTypeOK
  <2> QED
    BY <1>0, <2>1, <2>2, <2>3, OwnPromoStep
<1>2. ASSUME NEW s \in Sessions, LockPromo(s) PROVE PromoInv'
  <2> DEFINE t == [promoTx[s] EXCEPT !.step = "locked"]
  <2>1. t \in PromoTransaction /\ t.step = "locked"
    BY <1>0, <1>2, PromoTxShapes DEF LockPromo
  <2>2. /\ promoTx' = [promoTx EXCEPT ![s] = t]
        /\ promoHolder = Nobody /\ promoHolder' = s
        /\ UNCHANGED <<promo, usages, bill, promoEdits>>
    BY <1>2 DEF LockPromo, TakePromoRow
  <2>3. promoEdits' \in 0 .. MaxPromoEdits
    BY <2>2 DEF PromoInv, PromoTypeOK
  <2>4. \A r \in Sessions \ {s} : promoHolder = r => promoHolder' = r
    BY <2>2, SessionsAssumption
  <2> HIDE DEF t
  <2> QED
    BY <1>0, <2>1, <2>2, <2>3, <2>4, OwnPromoStep
<1>3. ASSUME NEW s \in Sessions, PromoChecked(s) PROVE PromoInv'
  <2> DEFINE b == Bill(promoTx[s].subtotal, Discount(promo, promoTx[s].subtotal))
             t == [step |-> "priced", customer |-> promoTx[s].customer, bill |-> b]
  <2>1. promoTx[s].step = "locked" /\ LimitsAllow(promoTx[s].customer)
    BY <1>3 DEF PromoChecked
  <2>2. promoTx[s].customer \in Customers /\ promoTx[s].subtotal \in Nat
    BY <1>0, <2>1, PromoTxShapes, PromoAssumption
  <2>3. b \in Bills /\ BillIsRight(b)
    BY <1>0, <2>2, BillType
  <2>4. /\ promoTx' = [promoTx EXCEPT ![s] = t]
        /\ UNCHANGED <<promo, usages, bill, promoHolder, promoEdits>>
    BY <1>3 DEF PromoChecked
  <2> HIDE DEF b
  <2>5. t \in PromoTransaction
    BY <2>2, <2>3 DEF PromoTransaction
  <2>6. promoEdits' \in 0 .. MaxPromoEdits /\ promoHolder' = s
    BY <2>1, <2>4 DEF PromoInv, PromoTypeOK, CheckoutsOwnTheRow
  <2> QED
    BY <1>0, <2>1, <2>3, <2>4, <2>5, <2>6, OwnPromoStep
<1>4. ASSUME NEW s \in Sessions, PromoCommit(s) PROVE PromoInv'
  <2>1. /\ promoTx[s].step = "priced" /\ EndPromoTx(s)
        /\ bill' = promoTx[s].bill /\ UNCHANGED <<promo, promoEdits>>
    BY <1>4 DEF PromoCommit
  <2>2. promoHolder = s /\ promoTx[s].bill \in Bills
    BY <1>0, <2>1, PromoTxShapes DEF PromoInv, CheckoutsOwnTheRow
  <2>3. \A r \in Sessions : promoTx'[r].step \notin {"locked", "priced"}
    BY <2>1, <2>2, EndedPromoHolder, NobodyElseChecked DEF IdlePromoTx
  <2>4. PromoTypeOK'
    BY <2>1, <2>2, <1>4, CommitEffect, EndedPromoHolder, IdlePromoType DEF PromoInv, PromoTypeOK
  <2>5. EditsAreValid'
    BY <2>1, EndedPromoHolder DEF PromoInv, EditsAreValid, EditIsValid, IdlePromoTx
  <2> QED
    BY <2>1, <2>2, <2>3, <2>4, <2>5, <1>4, CommitEffect
    DEF PromoInv, CheckoutsOwnTheRow, CheckedIsWithinLimits, BillsAreRight
<1>5. ASSUME NEW s \in Sessions, PromoRollback(s) PROVE PromoInv'
  <2>1. EndPromoTx(s) /\ UNCHANGED <<promo, usages, bill, promoEdits>>
    BY <1>5 DEF PromoRollback
  <2>2. promoEdits' \in 0 .. MaxPromoEdits
    BY <2>1 DEF PromoInv, PromoTypeOK
  <2>3. IdlePromoTx.step = "idle"
    BY DEF IdlePromoTx
  <2> QED
    BY <2>1, <2>2, <2>3, IdlePromoType, EndedPromoHolder, OwnPromoStep
<1>6. ASSUME NEW s \in Sessions, NEW row \in PromoRow, EditPromo(s, row),
             ValidDiscount(row) \/ (row.percent = promo.percent /\ row.value = promo.value)
      PROVE  PromoInv'
  <2> DEFINE t == [step |-> "edit", seen |-> promo, row |-> row]
  <2>1. t \in PromoTransaction
    BY <1>0 DEF PromoTransaction
  <2>2. /\ promoTx' = [promoTx EXCEPT ![s] = t]
        /\ promoEdits < MaxPromoEdits /\ promoEdits' = promoEdits + 1
        /\ UNCHANGED <<promo, usages, bill, promoHolder>>
    BY <1>6 DEF EditPromo
  <2>3. promoEdits' \in 0 .. MaxPromoEdits
    BY <1>0, <2>2, PromoAssumption
  <2>4. EditIsValid(t)
    BY <1>6 DEF EditIsValid
  <2> QED
    BY <1>0, <2>1, <2>2, <2>3, <2>4, OwnPromoStep
<1>7. ASSUME NEW s \in Sessions, PromoEditCommit(s) PROVE PromoInv'
  <2>1. /\ promoTx[s].step = "edit" /\ promoHolder = Nobody /\ EndPromoTx(s)
        /\ UNCHANGED <<usages, bill, promoEdits>>
    BY <1>7 DEF PromoEditCommit
  <2>2. promo' \in PromoRow
    BY <1>0, <1>7, <2>1, PromoTxShapes, EditedRow DEF PromoEditCommit
  <2>3. \A r \in Sessions : promoTx'[r].step \notin {"locked", "priced"}
    BY <2>1, EndedPromoHolder, NobodyElseChecked DEF IdlePromoTx
  <2>4. PromoTypeOK'
    BY <2>1, <2>2, EndedPromoHolder, IdlePromoType DEF PromoInv, PromoTypeOK
  <2>5. EditsAreValid'
    BY <2>1, EndedPromoHolder DEF PromoInv, EditsAreValid, EditIsValid, IdlePromoTx
  <2> QED
    BY <2>1, <2>3, <2>4, <2>5
    DEF PromoInv, CheckoutsOwnTheRow, CheckedIsWithinLimits, BillsAreRight
<1>8. CASE UNCHANGED promoVars
  <2>1. PromoTypeOK' /\ IsFiniteSet(usages)' /\ CheckoutsOwnTheRow' /\ BillsAreRight'
    BY <1>8 DEF promoVars, PromoInv, PromoTypeOK, CheckoutsOwnTheRow, BillsAreRight, BillIsRight
  <2>2. CheckedIsWithinLimits'
    BY <1>8 DEF promoVars, PromoInv, CheckedIsWithinLimits, LimitsAllow, UsagesOf
  <2>3. EditsAreValid'
    BY <1>8 DEF promoVars, PromoInv, EditsAreValid, EditIsValid
  <2> QED
    BY <2>1, <2>2, <2>3 DEF PromoInv
<1>9. /\ [promo EXCEPT !.active = FALSE] \in PromoRow
      /\ [promo EXCEPT !.active = FALSE].percent = promo.percent
      /\ [promo EXCEPT !.active = FALSE].value = promo.value
  BY <1>0 DEF PromoRow
<1> QED
  BY <1>1, <1>2, <1>3, <1>4, <1>5, <1>6, <1>7, <1>8, <1>9, PromoAssumption
  DEF PromoNext, PromoEditBegin, PromoDeactivateBegin

(***************************************************************************)
(* The inductive invariant holds.                                          *)
(***************************************************************************)
THEOREM PromoInvariance == PromoSpec => []PromoInv
  BY PromoInvInit, PromoInvNext, PTL DEF PromoSpec

(***************************************************************************)
(* The state of the promo code has its type.                               *)
(***************************************************************************)
THEOREM PromoTypeCorrect == PromoSpec => []PromoTypeOK
<1>1. PromoInv => PromoTypeOK
  BY DEF PromoInv
<1> QED
  BY <1>1, PromoInvariance, PTL

(***************************************************************************)
(* An order is given what the row says at its commit, and never more than  *)
(* it costs (calculate_discount), because the row is locked; and only an   *)
(* edit that another one has overtaken makes a percentage above 100        *)
(* (update_promo_code validates what it read).                             *)
(***************************************************************************)
THEOREM BillsAreByTheRow == PromoSpec => BillsFollowTheRow
<1> DEFINE Billed == usages' # usages =>
                       /\ bill'.discount = Discount(promo, bill'.subtotal)
                       /\ bill'.discount <= bill'.subtotal
                       /\ bill'.total = bill'.subtotal - bill'.discount
           Overtaken == ~Excessive(promo) /\ Excessive(promo') =>
                          \E s \in Sessions :
                             /\ promoTx[s].step = "edit" /\ promoTx'[s].step = "idle"
                             /\ Outdated(promoTx[s].seen)
<1>1. PromoInv /\ [PromoNext]_promoVars => [Billed /\ Overtaken]_promoVars
  <2> SUFFICES ASSUME PromoInv, PromoNext PROVE Billed /\ Overtaken
    OBVIOUS
  <2>1. ASSUME NEW s \in Sessions, PromoCommit(s) PROVE Billed /\ Overtaken
    <3>1. /\ promoTx[s].step = "priced" /\ promoTx[s] \in PromoTransaction
          /\ bill' = promoTx[s].bill /\ promo' = promo
      BY <2>1 DEF PromoCommit, PromoInv, PromoTypeOK
    <3>2. BillIsRight(bill') /\ bill' \in Bills
      BY <3>1, PromoTxShapes DEF PromoInv, BillsAreRight
    <3> QED
      BY <3>1, <3>2 DEF BillIsRight, Bills, Excessive
  <2>2. ASSUME NEW s \in Sessions, PromoEditCommit(s) PROVE Billed /\ Overtaken
    <3> DEFINE t == promoTx[s]
    <3>1. /\ t.step = "edit" /\ t \in PromoTransaction /\ usages' = usages
          /\ promo \in PromoRow /\ EditIsValid(t)
      BY <2>2 DEF PromoEditCommit, PromoInv, PromoTypeOK, EditsAreValid
    <3>2. t.seen \in PromoRow /\ t.row \in PromoRow
      BY <3>1, PromoTxShapes
    <3>3. promoTx'[s].step = "idle"
      BY <2>2, EndedPromoHolder DEF PromoEditCommit, IdlePromoTx
    <3>4. promo' = [column \in DOMAIN promo |->
                      IF t.row[column] # t.seen[column] THEN t.row[column] ELSE promo[column]]
      BY <2>2 DEF PromoEditCommit
    <3> HIDE DEF t
    <3>5. /\ promo'.percent = IF t.row.percent # t.seen.percent THEN t.row.percent ELSE promo.percent
          /\ promo'.value = IF t.row.value # t.seen.value THEN t.row.value ELSE promo.value
      <4>1. "percent" \in DOMAIN promo /\ "value" \in DOMAIN promo
        BY <3>1 DEF PromoRow
      <4> QED
        BY <3>4, <4>1
    <3>6. ~Outdated(t.seen) => promo'.percent = t.row.percent /\ promo'.value = t.row.value
      BY <3>5 DEF Outdated
    <3>7. ~Outdated(t.seen) /\ ~ValidDiscount(t.row)
             => promo'.percent = promo.percent /\ promo'.value = promo.value
      BY <3>1, <3>6 DEF Outdated, EditIsValid
    <3>8. ~Excessive(promo) /\ Excessive(promo') => Outdated(t.seen)
      <4> SUFFICES ASSUME ~Excessive(promo), Excessive(promo'), ~Outdated(t.seen) PROVE FALSE
        OBVIOUS
      <4>1. CASE ValidDiscount(t.row)
        <5>1. t.row.percent /\ t.row.value > 100
          BY <3>6, Zenon DEF Excessive
        <5>2. t.row.value <= 100
          BY <4>1, <5>1, Zenon DEF ValidDiscount
        <5>3. t.row.value \in Nat
          BY <3>2 DEF PromoRow
        <5> QED
          BY <5>1, <5>2, <5>3
      <4>2. CASE ~ValidDiscount(t.row)
        BY <3>7, <4>2, Zenon DEF Excessive
      <4> QED
        BY <4>1, <4>2
    <3> QED
      BY <3>1, <3>3, <3>8 DEF t
  <2>3. CASE UNCHANGED <<usages, promo>>
    BY <2>3 DEF Excessive
  <2> QED
    BY <2>1, <2>2, <2>3
    DEF PromoNext, PromoCheckoutBegin, LockPromo, PromoChecked, PromoRollback,
        PromoEditBegin, PromoDeactivateBegin, EditPromo
<1> QED
  BY <1>1, PromoInvariance, PTL DEF PromoSpec, BillsFollowTheRow

(***************************************************************************)
(* No checkout commits a usage beyond the limits of the row, because the   *)
(* row is locked from the count to the commit (get_by_code, for_update).   *)
(***************************************************************************)
THEOREM LimitsHold == PromoSpec => UsagesWithinLimits
<1> DEFINE Within == \A u \in usages' \ usages :
                       /\ promo.limit # 0 => Cardinality(usages') <= promo.limit
                       /\ promo.perUser # 0 => Cardinality(UsagesOf(u.customer)') <= promo.perUser
<1>1. PromoInv /\ [PromoNext]_promoVars => [Within]_promoVars
  <2> SUFFICES ASSUME PromoInv, PromoNext PROVE Within
    OBVIOUS
  <2>1. ASSUME NEW s \in Sessions, PromoCommit(s) PROVE Within
    BY <2>1, CommitEffect
  <2>2. CASE usages' = usages
    BY <2>2
  <2> QED
    BY <2>1, <2>2
    DEF PromoNext, PromoCheckoutBegin, LockPromo, PromoChecked, PromoRollback,
        PromoEditBegin, PromoDeactivateBegin, EditPromo, PromoEditCommit
<1> QED
  BY <1>1, PromoInvariance, PTL DEF PromoSpec, UsagesWithinLimits

-----------------------------------------------------------------------------
(***************************************************************************)
(* All of them, and the campaigns, as MCSupport puts them side by side.    *)
(***************************************************************************)
AllInv ==
    /\ CampaignInv
    /\ PromoInv
    /\ RegistrationInv
    /\ SeenInv
    /\ NoteInv
    /\ ReceiptInv

LEMMA AllInvInit == SupportInit => AllInv
  BY CampaignInvInit, PromoInvInit, RegistrationInvInit, SeenInvInit, NoteInvInit, ReceiptInvInit
     DEF SupportInit, AllInv

LEMMA AllInvNext == AllInv /\ [SupportNext]_supportVars => AllInv'
<1> SUFFICES ASSUME AllInv, [SupportNext]_supportVars PROVE AllInv'
  OBVIOUS
<1>1. /\ [CampaignNext]_campaignVars /\ [PromoNext]_promoVars
      /\ [RegistrationNext]_registrationVars /\ [SeenNext]_seenVars
      /\ [NoteNext]_noteVars /\ [ReceiptNext]_receiptVars
  BY DEF SupportNext, supportVars
<1> QED
  BY <1>1, CampaignInvNext, PromoInvNext, RegistrationInvNext, SeenInvNext, NoteInvNext,
     ReceiptInvNext DEF AllInv

(***************************************************************************)
(* The state of every component around the order flow keeps its type, in   *)
(* particular every counter stays within its bound and no file, row or     *)
(* recipient that does not exist is ever named.                            *)
(***************************************************************************)
THEOREM SupportTypesCorrect == SupportSpec => []TypesOK
<1>1. AllInv => TypesOK
  BY DEF AllInv, CampaignInv, PromoInv, RegistrationInv, SeenInv, NoteInv, ReceiptInv, TypesOK
<1> QED
  BY <1>1, AllInvInit, AllInvNext, PTL DEF SupportSpec
=============================================================================
