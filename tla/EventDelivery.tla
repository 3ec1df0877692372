---------------------------- MODULE EventDelivery ----------------------------
(***************************************************************************)
(* What the consumers of one outbox event do with it: each keeps a row for *)
(* the event, sends a Telegram message and notes how that went.  The       *)
(* seller consumer writes a notification for the orders chat, the customer *)
(* consumer a delivery for Bot 1.  Of a payment the seller consumer keeps  *)
(* no row: the first message about it is noted in the payment, a decision  *)
(* is written into that message.                                           *)
(*                                                                         *)
(* The worker dispatches an event until the consumer acknowledges it; a    *)
(* lease that was lost leaves two dispatches of one event at work.  No row *)
(* is locked: what a dispatch read before it sent may be stale when it     *)
(* writes.                                                                 *)
(***************************************************************************)
EXTENDS DbSessions

CONSTANT MaxMishaps     \* bound: Telegram errors and crashes

ASSUME MaxMishapsAssumption == MaxMishaps \in Nat

VARIABLES
    noteEvent,      \* what the event is about
    note,           \* the status of the row of each consumer
    acknowledged,   \* consumers whose dispatch ended without an error
    noteTx,
    reached,        \* history: messages that arrived
    declined,       \* history: the customer had no chat, or had blocked the bot
    misled,         \* history: a retry by hand met a dispatch that knew of the failure
    mishaps

noteVars == <<noteEvent, note, acknowledged, noteTx, reached, declined, misled, mishaps>>

(***************************************************************************)
(* An order; a payment to look at; its decision, where the number of the   *)
(* seller's message about the payment is known; and where it is not.       *)
(***************************************************************************)
NoteEvents == {"order", "submitted", "decided", "unnumbered"}
Consumers == {"seller", "customer"}
ConsumersOf(e) == IF e = "submitted" THEN {"seller"} ELSE Consumers
NoteStatuses == {"absent", "PENDING", "SENT", "FAILED", "SKIPPED", "BLOCKED"}
NoteTransaction ==
    [step : {"idle", "found", "send", "write", "refresh", "retry"},
     consumer : Consumers,
     loaded : NoteStatuses,      \* the status the session knows
     result : NoteStatuses,      \* the status it writes
     byHand : BOOLEAN]           \* a retry, which acknowledges nothing
IdleNoteTx == [step |-> "idle", consumer |-> "seller", loaded |-> "absent",
               result |-> "absent", byHand |-> FALSE]

NoteTypeOK ==
    /\ noteEvent \in NoteEvents
    /\ note \in [Consumers -> NoteStatuses]
    /\ acknowledged \subseteq Consumers
    /\ noteTx \in [Sessions -> NoteTransaction]
    /\ reached \in [Consumers -> Nat]
    /\ declined \in BOOLEAN
    /\ misled \in BOOLEAN
    /\ mishaps \in 0 .. MaxMishaps

NoteInit ==
    /\ noteEvent \in NoteEvents
    /\ note = [c \in Consumers |-> "absent"]
    /\ acknowledged = {}
    /\ noteTx = [s \in Sessions |-> IdleNoteTx]
    /\ reached = [c \in Consumers |-> 0]
    /\ declined = FALSE
    /\ misled = FALSE
    /\ mishaps = 0

-----------------------------------------------------------------------------
EndNoteTx(s) == noteTx' = [noteTx EXCEPT ![s] = IdleNoteTx]

Acknowledge(c) == acknowledged' = acknowledged \cup {c}

Mishap == mishaps < MaxMishaps /\ mishaps' = mishaps + 1

(* Mutant: an event whose row exists has been dealt with. *)
RowExists(c) == NoteStatuses \ {"absent"}

KeepsRow(c) == c = "customer" \/ noteEvent = "order"

(***************************************************************************)
(* The statuses with which a consumer has nothing left to send.  SENT of a *)
(* payment is the number of the seller's message in its row.               *)
(***************************************************************************)
NothingToSend(c) ==
    IF c = "seller" THEN {"SENT"} ELSE {"SENT", "SKIPPED", "BLOCKED"}

Dispatch(s, c) ==
    /\ noteTx[s].step = "idle"
    /\ c \in ConsumersOf(noteEvent) \ acknowledged
    /\ \/ /\ note[c] \in NothingToSend(c)
          /\ Acknowledge(c)
          /\ UNCHANGED noteTx
       \/ /\ note[c] \notin NothingToSend(c)
          /\ noteTx' = [noteTx EXCEPT
               ![s] = [IdleNoteTx EXCEPT !.step = "found", !.consumer = c, !.loaded = note[c]]]
          /\ UNCHANGED acknowledged
    /\ UNCHANGED <<noteEvent, note, reached, declined, misled, mishaps>>

(***************************************************************************)
(* A new row is committed before the message is sent.  If a second         *)
(* dispatch has inserted one meanwhile, the first is refused, which counts *)
(* as a failure.                                                           *)
(***************************************************************************)
SomebodyInserted(s) ==
    LET c == noteTx[s].consumer
    IN  KeepsRow(c) /\ noteTx[s].loaded = "absent" /\ note[c] # "absent"

InsertConflict(s) ==
    /\ noteTx[s].step = "found"
    /\ SomebodyInserted(s)
    /\ EndNoteTx(s)
    /\ UNCHANGED <<noteEvent, note, acknowledged, reached, declined, misled, mishaps>>

Editing(s) ==
    noteEvent = "decided" /\ noteTx[s].step = "found" /\ noteTx[s].consumer = "seller"

PrepareToSend(s) ==
    LET t == noteTx[s]
        creates == KeepsRow(t.consumer) /\ t.loaded = "absent"
    IN  /\ t.step = "found"
        /\ ~SomebodyInserted(s) /\ ~Editing(s)
        /\ note' = IF creates THEN [note EXCEPT ![t.consumer] = "PENDING"] ELSE note
        /\ noteTx' = [noteTx EXCEPT
             ![s].step = "send",
             ![s].loaded = IF creates THEN "PENDING" ELSE @]
        /\ UNCHANGED <<noteEvent, acknowledged, reached, declined, misled, mishaps>>

(***************************************************************************)
(* The customer has no chat with Bot 1, or wants no messages.              *)
(***************************************************************************)
SkipCustomer(s) ==
    /\ noteTx[s].step = "found"
    /\ noteTx[s].consumer = "customer"
    /\ ~SomebodyInserted(s)
    /\ note' = [note EXCEPT !["customer"] = "SKIPPED"]
    /\ declined' = TRUE
    /\ Acknowledge("customer")
    /\ EndNoteTx(s)
    /\ UNCHANGED <<noteEvent, reached, misled, mishaps>>

Arrives(s) == reached' = [reached EXCEPT ![noteTx[s].consumer] = @ + 1]

(***************************************************************************)
(* A decision is first written into the message about the payment.  That   *)
(* it says so already counts as success; an error, after which it may say  *)
(* so all the same, leads to a new message.                                *)
(***************************************************************************)
EditMessage(s) ==
    /\ Editing(s)
    /\ Arrives(s) \/ (reached["seller"] > 0 /\ reached' = reached)
    /\ noteTx' = [noteTx EXCEPT ![s].step = "write", ![s].result = "SENT"]
    /\ UNCHANGED <<noteEvent, note, acknowledged, declined, misled, mishaps>>

EditFails(s) ==
    /\ Editing(s)
    /\ Mishap
    /\ Arrives(s) \/ reached' = reached
    /\ noteTx' = [noteTx EXCEPT ![s].step = "send"]
    /\ UNCHANGED <<noteEvent, note, acknowledged, declined, misled>>

(***************************************************************************)
(* The seller bot edits the message itself when its button was pressed.    *)
(***************************************************************************)
BotShowsDecision ==
    /\ noteEvent = "decided"
    /\ reached["seller"] = 0
    /\ reached' = [reached EXCEPT !["seller"] = 1]
    /\ UNCHANGED <<noteEvent, note, acknowledged, noteTx, declined, misled, mishaps>>

Answered(s, result) ==
    /\ noteTx[s].step = "send"
    /\ noteTx' = [noteTx EXCEPT ![s].step = "write", ![s].result = result]
    /\ UNCHANGED <<noteEvent, note, acknowledged, misled>>

MessageSent(s) ==
    /\ Answered(s, "SENT")
    /\ Arrives(s)
    /\ UNCHANGED <<declined, mishaps>>

(***************************************************************************)
(* Telegram answers with an error, or not at all: then the message may     *)
(* have arrived.                                                           *)
(***************************************************************************)
MessageFailed(s) ==
    /\ Answered(s, "FAILED")
    /\ Mishap
    /\ Arrives(s) \/ reached' = reached
    /\ UNCHANGED declined

CustomerHasBlocked(s) ==
    /\ noteTx[s].consumer = "customer"
    /\ Answered(s, "BLOCKED")
    /\ declined' = TRUE
    /\ UNCHANGED <<reached, mishaps>>

(***************************************************************************)
(* The status is written if it differs from the one that was loaded.  The  *)
(* customer consumer goes by its own result, the seller consumer by the    *)
(* row, which it reads again.                                              *)
(***************************************************************************)
WriteResult(s) ==
    LET t == noteTx[s]
    IN  /\ t.step = "write"
        /\ KeepsRow(t.consumer)
        /\ note' = IF t.result # t.loaded THEN [note EXCEPT ![t.consumer] = t.result] ELSE note
        /\ \/ /\ t.consumer = "seller"
              /\ noteTx' = [noteTx EXCEPT ![s].step = "refresh"]
              /\ UNCHANGED acknowledged
           \/ /\ t.consumer = "customer"
              /\ IF t.result = "FAILED" THEN UNCHANGED acknowledged ELSE Acknowledge("customer")
              /\ EndNoteTx(s)
        /\ UNCHANGED <<noteEvent, reached, declined, misled, mishaps>>

(***************************************************************************)
(* A message about a payment: its number is stored, unless Telegram gave   *)
(* none, and an error is raised.                                           *)
(***************************************************************************)
FinishPayment(s) ==
    /\ noteTx[s].step = "write"
    /\ ~KeepsRow(noteTx[s].consumer)
    /\ \/ /\ noteTx[s].result = "SENT"
          /\ Acknowledge("seller")
          /\ \/ noteEvent = "submitted" /\ note' = [note EXCEPT !["seller"] = "SENT"]
             \/ note' = note
       \/ /\ noteTx[s].result = "FAILED"
          /\ UNCHANGED <<note, acknowledged>>
    /\ EndNoteTx(s)
    /\ UNCHANGED <<noteEvent, reached, declined, misled, mishaps>>

RefreshSeller(s) ==
    /\ noteTx[s].step = "refresh"
    /\ IF noteTx[s].byHand \/ note["seller"] = "FAILED"
       THEN UNCHANGED acknowledged
       ELSE Acknowledge("seller")
    /\ EndNoteTx(s)
    /\ UNCHANGED <<noteEvent, note, reached, declined, misled, mishaps>>

(***************************************************************************)
(* An administrator retries a notification that has failed.  A dispatch    *)
(* that loaded the failure will not write it again, and one that is about  *)
(* to read its row again will find PENDING.                                *)
(***************************************************************************)
KnowsOfFailure(s) ==
    /\ noteTx[s].consumer = "seller"
    /\ ~noteTx[s].byHand
    /\ noteTx[s].step = "refresh" \/ noteTx[s].loaded = "FAILED"

RetryBegin(s) ==
    /\ noteTx[s].step = "idle"
    /\ note["seller"] = "FAILED"
    /\ noteTx' = [noteTx EXCEPT ![s].step = "retry", ![s].byHand = TRUE]
    /\ UNCHANGED <<noteEvent, note, acknowledged, reached, declined, misled, mishaps>>

RetryCommit(s) ==
    /\ noteTx[s].step = "retry"
    /\ note' = [note EXCEPT !["seller"] = "PENDING"]
    /\ noteTx' = [noteTx EXCEPT ![s].step = "send", ![s].loaded = "PENDING"]
    /\ misled' = (misled \/ \E other \in Sessions : KnowsOfFailure(other))
    /\ UNCHANGED <<noteEvent, acknowledged, reached, declined, mishaps>>

NoteCrash(s) ==
    /\ noteTx[s].step # "idle"
    /\ Mishap
    /\ EndNoteTx(s)
    /\ UNCHANGED <<noteEvent, note, acknowledged, reached, declined, misled>>

-----------------------------------------------------------------------------
NoteNext ==
    \/ BotShowsDecision
    \/ \E s \in Sessions :
          \/ \E c \in Consumers : Dispatch(s, c)
          \/ InsertConflict(s) \/ PrepareToSend(s) \/ SkipCustomer(s)
          \/ EditMessage(s) \/ EditFails(s)
          \/ MessageSent(s) \/ MessageFailed(s) \/ CustomerHasBlocked(s)
          \/ WriteResult(s) \/ RefreshSeller(s) \/ FinishPayment(s)
          \/ RetryBegin(s) \/ RetryCommit(s)
          \/ NoteCrash(s)

NoteSpec == NoteInit /\ [][NoteNext]_noteVars

-----------------------------------------------------------------------------
(***************************************************************************)
(* An event is acknowledged only when its message arrived or the customer  *)
(* cannot be written to: a dispatch that read a stale row, or whose own    *)
(* message failed, does not end the retries of the outbox, and neither     *)
(* does an administrator's retry that fails or dies.  The one exception is *)
(* a retry that commits while a dispatch of the seller's notification      *)
(* knows of the failure already: that dispatch takes PENDING for success.  *)
(***************************************************************************)
AcknowledgedMeansArrived ==
    /\ "customer" \in acknowledged => reached["customer"] > 0 \/ declined
    /\ "seller" \in acknowledged => reached["seller"] > 0 \/ misled
=============================================================================
