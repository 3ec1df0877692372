------------------------------ MODULE SeenMarks ------------------------------
(***************************************************************************)
(* An approved payment is shown to the customer once, by the in-app        *)
(* notification or by the older banner of the order: each marks the other  *)
(* as seen.  An order from before the notifications has none until the     *)
(* list of pending notifications is asked for.                             *)
(*                                                                         *)
(* One order with its notification.  The notification's handler locks the  *)
(* notification and then writes the order, the banner's handler locks the  *)
(* order and then writes the notification.                                 *)
(***************************************************************************)
EXTENDS DbSessions

VARIABLES
    bannerSeen,     \* the order's payment_success_banner_seen_at is set
    notice,         \* the notification: "absent", "unseen" or "seen"
    noticeIsLate,   \* history: made for a banner that had been seen meanwhile
    seenLock,
    seenTx

seenVars == <<bannerSeen, notice, noticeIsLate, seenLock, seenTx>>

SeenRows == {"order", "notice"}
SeenSteps == {"idle",
              "notice", "order too",           \* mark_seen
              "banner", "notice too", "banner only",   \* mark_payment_success_banner_seen
              "make", "made"}                  \* pending

SeenTypeOK ==
    /\ bannerSeen \in BOOLEAN
    /\ notice \in {"absent", "unseen", "seen"}
    /\ noticeIsLate \in BOOLEAN
    /\ seenLock \in [SeenRows -> Sessions \cup {Nobody}]
    /\ seenTx \in [Sessions -> SeenSteps]

SeenInit ==
    /\ bannerSeen = FALSE
    /\ notice \in {"absent", "unseen"}
    /\ noticeIsLate = FALSE
    /\ seenLock = [row \in SeenRows |-> Nobody]
    /\ seenTx = [s \in Sessions |-> "idle"]

-----------------------------------------------------------------------------
SeenGoTo(s, step) == seenTx' = [seenTx EXCEPT ![s] = step]

EndSeenTx(s) ==
    /\ SeenGoTo(s, "idle")
    /\ seenLock' = WithoutSession(seenLock, s)

TakeSeenRow(s, row) ==
    /\ MayLock(seenLock, row, s)
    /\ seenLock' = WithRows(seenLock, {row}, s)

(***************************************************************************)
(* mark_seen locks the notification.  If it has not been seen, the order   *)
(* is read without a lock, and the two are written at the commit.          *)
(***************************************************************************)
LockNotice(s) ==
    /\ seenTx[s] = "idle"
    /\ notice = "unseen"
    /\ TakeSeenRow(s, "notice")
    /\ SeenGoTo(s, "notice")
    /\ UNCHANGED <<bannerSeen, notice, noticeIsLate>>

ReadOrderOfNotice(s) ==
    /\ seenTx[s] = "notice"
    /\ \/ /\ bannerSeen
          /\ notice' = "seen"
          /\ EndSeenTx(s)
       \/ /\ ~bannerSeen
          /\ SeenGoTo(s, "order too")
          /\ UNCHANGED <<notice, seenLock>>
    /\ UNCHANGED <<bannerSeen, noticeIsLate>>

NoticeCommit(s) ==
    /\ seenTx[s] = "order too"
    /\ MayLock(seenLock, "order", s)
    /\ notice' = "seen"
    /\ bannerSeen' = TRUE
    /\ EndSeenTx(s)
    /\ UNCHANGED noticeIsLate

(***************************************************************************)
(* The banner's handler locks the order.  If the banner has not been seen, *)
(* it looks for the notification and marks it too, if there is one.        *)
(***************************************************************************)
LockBanner(s) ==
    /\ seenTx[s] = "idle"
    /\ ~bannerSeen
    /\ TakeSeenRow(s, "order")
    /\ SeenGoTo(s, "banner")
    /\ UNCHANGED <<bannerSeen, notice, noticeIsLate>>

ReadNoticeOfBanner(s) ==
    /\ seenTx[s] = "banner"
    /\ SeenGoTo(s, IF notice = "unseen" THEN "notice too" ELSE "banner only")
    /\ UNCHANGED <<bannerSeen, notice, noticeIsLate, seenLock>>

BannerCommit(s) ==
    /\ \/ /\ seenTx[s] = "notice too"
          /\ MayLock(seenLock, "notice", s)
          /\ notice' = "seen"
       \/ /\ seenTx[s] = "banner only"
          /\ notice' = notice
    /\ bannerSeen' = TRUE
    /\ EndSeenTx(s)
    /\ UNCHANGED noticeIsLate

(* Mutant: the insertion does not wait for the order. *)
NoticeIsFree(s) == MayLock(seenLock, "notice", s)

MayInsertNotice(s) == \A row \in SeenRows : MayLock(seenLock, row, s)

(***************************************************************************)
(* pending finds an order whose banner was not seen and that has no        *)
(* notification, and inserts one unless somebody else has.  The foreign    *)
(* key makes the insertion wait for who has locked the order.              *)
(***************************************************************************)
ReadLegacyOrder(s) ==
    /\ seenTx[s] = "idle"
    /\ ~bannerSeen
    /\ notice = "absent"
    /\ SeenGoTo(s, "make")
    /\ UNCHANGED <<bannerSeen, notice, noticeIsLate, seenLock>>

InsertNotice(s) ==
    /\ seenTx[s] = "make"
    /\ \/ /\ notice = "absent"
          /\ MayInsertNotice(s)
          /\ seenLock' = WithRows(seenLock, SeenRows, s)
       \/ /\ notice # "absent"
          /\ UNCHANGED seenLock
    /\ SeenGoTo(s, "made")
    /\ UNCHANGED <<bannerSeen, notice, noticeIsLate>>

PendingCommit(s) ==
    /\ seenTx[s] = "made"
    /\ notice' = IF notice = "absent" THEN "unseen" ELSE notice
    /\ noticeIsLate' = (noticeIsLate \/ (notice = "absent" /\ bannerSeen))
    /\ EndSeenTx(s)
    /\ UNCHANGED bannerSeen

-----------------------------------------------------------------------------
SeenRollback(s) ==
    /\ seenTx[s] # "idle"
    /\ EndSeenTx(s)
    /\ UNCHANGED <<bannerSeen, notice, noticeIsLate>>

SeenNext ==
    \E s \in Sessions :
       \/ LockNotice(s) \/ ReadOrderOfNotice(s) \/ NoticeCommit(s)
       \/ LockBanner(s) \/ ReadNoticeOfBanner(s) \/ BannerCommit(s)
       \/ ReadLegacyOrder(s) \/ InsertNotice(s) \/ PendingCommit(s)
       \/ SeenRollback(s)

SeenSpec == SeenInit /\ [][SeenNext]_seenVars

-----------------------------------------------------------------------------
(***************************************************************************)
(* The customer sees an approved payment once: the order and its           *)
(* notification are both marked as seen or both not, except a notification *)
(* that pending made from an order it read before the banner was seen.     *)
(***************************************************************************)
SeenTogether ==
    notice # "absent" => (notice = "seen" <=> bannerSeen) \/ noticeIsLate
=============================================================================
