---------------------------- MODULE ReceiptFiles ----------------------------
(***************************************************************************)
(* The receipt image of a manual payment.  An upload saves a new file,     *)
(* commits its path to the row of the payment, which it has locked, reads  *)
(* the row again and deletes the file it replaced.  No transaction covers  *)
(* the upload volume.                                                      *)
(***************************************************************************)
EXTENDS DbSessions

CONSTANTS
    ReceiptFile,      \* file names, uuid4 in the code
    NoFile,
    MaxFileFaults     \* bound: crashes, failed writes and lost connections

ASSUME ReceiptAssumption == NoFile \notin ReceiptFile /\ MaxFileFaults \in Nat

VARIABLES
    receiptPath,      \* receipt_image_path of the payment
    uploadsOpen,      \* the payment is PENDING or SUBMITTED
    receiptHolder,    \* the session that has the payment locked
    receiptTx,
    receipts,         \* files on the volume
    leftovers,        \* history: files that nobody will delete
    misjudged,        \* history: files deleted though the commit had been applied
    fileFaults

receiptVars == <<receiptPath, uploadsOpen, receiptHolder, receiptTx,
                 receipts, leftovers, misjudged, fileFaults>>

ReceiptTransaction == [step : {"idle", "save", "update", "confirm", "clean"},
                       old : ReceiptFile \cup {NoFile},
                       new : ReceiptFile \cup {NoFile}]
IdleReceiptTx == [step |-> "idle", old |-> NoFile, new |-> NoFile]

ReceiptTypeOK ==
    /\ receiptPath \in ReceiptFile \cup {NoFile}
    /\ uploadsOpen \in BOOLEAN
    /\ receiptHolder \in Sessions \cup {Nobody}
    /\ receiptTx \in [Sessions -> ReceiptTransaction]
    /\ receipts \subseteq ReceiptFile
    /\ leftovers \subseteq ReceiptFile
    /\ misjudged \subseteq ReceiptFile
    /\ fileFaults \in 0 .. MaxFileFaults

ReceiptInit ==
    /\ receiptPath = NoFile
    /\ uploadsOpen = TRUE
    /\ receiptHolder = Nobody
    /\ receiptTx = [s \in Sessions |-> IdleReceiptTx]
    /\ receipts = {}
    /\ leftovers = {}
    /\ misjudged = {}
    /\ fileFaults = 0

-----------------------------------------------------------------------------
EndReceiptTx(s) ==
    /\ receiptTx' = [receiptTx EXCEPT ![s] = IdleReceiptTx]
    /\ receiptHolder' = IF receiptHolder = s THEN Nobody ELSE receiptHolder

FileFault == fileFaults < MaxFileFaults /\ fileFaults' = fileFaults + 1

LeaveBehind(fs) == leftovers' = leftovers \cup (fs \ {NoFile})

(* Mutant: the payment is read without a lock. *)
ReadPayment(s) == receiptHolder' = receiptHolder

TakePayment(s) == receiptHolder = Nobody /\ receiptHolder' = s

UploadBegin(s) ==
    /\ receiptTx[s].step = "idle"
    /\ TakePayment(s)
    /\ uploadsOpen
    /\ receiptTx' = [receiptTx EXCEPT ![s] = [step |-> "save", old |-> receiptPath, new |-> NoFile]]
    /\ UNCHANGED <<receiptPath, uploadsOpen, receipts, leftovers, misjudged, fileFaults>>

InUse == receipts \cup leftovers \cup misjudged \cup {receiptPath}
           \cup UNION {{receiptTx[s].old, receiptTx[s].new} : s \in Sessions}

SaveReceipt(s, f) ==
    /\ receiptTx[s].step = "save"
    /\ f \notin InUse
    /\ receipts' = receipts \cup {f}
    /\ \/ /\ receiptTx' = [receiptTx EXCEPT ![s].step = "update", ![s].new = f]
          /\ UNCHANGED <<receiptHolder, leftovers, fileFaults>>
       \/ /\ FileFault                                 \* a part of the file is written
          /\ EndReceiptTx(s)
          /\ LeaveBehind({f})
    /\ UNCHANGED <<receiptPath, uploadsOpen, misjudged>>

ReceiptCommit(s) ==
    /\ receiptTx[s].step = "update"
    /\ receiptPath' = receiptTx[s].new
    /\ receiptTx' = [receiptTx EXCEPT ![s].step = "confirm"]
    /\ receiptHolder' = Nobody
    /\ UNCHANGED <<uploadsOpen, receipts, leftovers, misjudged, fileFaults>>

(***************************************************************************)
(* The commit raises: the new file is deleted.  When the connection was    *)
(* lost the commit may have been applied.                                  *)
(***************************************************************************)
ReceiptCommitFails(s, applied) ==
    LET new == receiptTx[s].new
    IN  /\ receiptTx[s].step = "update"
        /\ FileFault
        /\ receiptPath' = IF applied THEN new ELSE receiptPath
        /\ receipts' = receipts \ {new}
        /\ misjudged' = IF applied THEN misjudged \cup {new} ELSE misjudged
        /\ LeaveBehind(IF applied THEN {receiptTx[s].old} ELSE {})
        /\ EndReceiptTx(s)
        /\ UNCHANGED uploadsOpen

(***************************************************************************)
(* The row is read again, no longer locked.  If another upload has         *)
(* replaced the path, this one deletes its own file and leaves the one it  *)
(* replaced.                                                               *)
(***************************************************************************)
ConfirmReceipt(s) ==
    LET t == receiptTx[s]
    IN  /\ t.step = "confirm"
        /\ \/ /\ receiptPath = t.new
              /\ receiptTx' = [receiptTx EXCEPT ![s].step = "clean"]
              /\ UNCHANGED <<receiptHolder, receipts, leftovers>>
           \/ /\ receiptPath # t.new
              /\ receipts' = receipts \ {t.new}
              /\ LeaveBehind({t.old})
              /\ EndReceiptTx(s)
        /\ UNCHANGED <<receiptPath, uploadsOpen, misjudged, fileFaults>>

DeleteReplaced(s) ==
    /\ receiptTx[s].step = "clean"
    /\ receipts' = receipts \ {receiptTx[s].old}
    /\ EndReceiptTx(s)
    /\ UNCHANGED <<receiptPath, uploadsOpen, leftovers, misjudged, fileFaults>>

(***************************************************************************)
(* The process dies, or the last steps fail: a file that was saved and not *)
(* committed stays, and so does one that was to be deleted.                *)
(***************************************************************************)
UploadCrash(s) ==
    LET t == receiptTx[s]
    IN  /\ t.step # "idle"
        /\ FileFault
        /\ LeaveBehind(CASE t.step = "save" -> {}
                         [] t.step = "update" -> {t.new}
                         [] OTHER -> {t.old})
        /\ EndReceiptTx(s)
        /\ UNCHANGED <<receiptPath, uploadsOpen, receipts, misjudged>>

(***************************************************************************)
(* The payment is approved, rejected or expires.                           *)
(***************************************************************************)
CloseUploads ==
    /\ uploadsOpen
    /\ receiptHolder = Nobody
    /\ uploadsOpen' = FALSE
    /\ UNCHANGED <<receiptPath, receiptHolder, receiptTx, receipts, leftovers, misjudged, fileFaults>>

-----------------------------------------------------------------------------
ReceiptNext ==
    \/ CloseUploads
    \/ \E s \in Sessions :
          \/ UploadBegin(s)
          \/ \E f \in ReceiptFile : SaveReceipt(s, f)
          \/ ReceiptCommit(s)
          \/ \E applied \in BOOLEAN : ReceiptCommitFails(s, applied)
          \/ ConfirmReceipt(s)
          \/ DeleteReplaced(s)
          \/ UploadCrash(s)

ReceiptSpec == ReceiptInit /\ [][ReceiptNext]_receiptVars

-----------------------------------------------------------------------------
(***************************************************************************)
(* The path in the payment names a file that is there, unless a lost       *)
(* connection made the upload take back a commit that had been applied:    *)
(* whatever crashes, the file of the receipt is not deleted by the upload  *)
(* that it replaces or by one that replaces it.  And every other file is   *)
(* one that an upload at work will delete, or a leftover.                  *)
(***************************************************************************)
ReceiptIsKept ==
    /\ receiptPath # NoFile => receiptPath \in receipts \cup misjudged
    /\ receipts \subseteq {receiptPath} \cup leftovers
                            \cup UNION {{receiptTx[s].old, receiptTx[s].new} : s \in Sessions}
=============================================================================
