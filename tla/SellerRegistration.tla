------------------------- MODULE SellerRegistration -------------------------
(***************************************************************************)
(* The registrations that are started with one email: a seller starts one  *)
(* in the panel and links a Telegram account to it, an administrator       *)
(* approves or rejects it, and the seller confirms it with the code that   *)
(* the approval sent, which makes the credential.                          *)
(*                                                                         *)
(* No handler locks anything: each reads the registration, decides, and    *)
(* writes its new status over whatever is there by then.  The emails of    *)
(* credentials are unique, those of registrations are not.                 *)
(***************************************************************************)
EXTENDS DbSessions

CONSTANTS
    Registrations,
    NoRegistration

ASSUME RegistrationsAssumption == NoRegistration \notin Registrations

VARIABLES
    registration,
    credential,       \* the registration that the credential of the email was made from
    registrationTx,
    approved          \* history: registrations that an administrator has approved

registrationVars == <<registration, credential, registrationTx, approved>>

ActiveStatuses == {"PENDING", "AWAITING_APPROVAL", "APPROVED"}
RegistrationStatuses == ActiveStatuses \cup {"absent", "REJECTED", "EXPIRED", "VERIFIED"}
Registration == [status : RegistrationStatuses,
                 linked : BOOLEAN,         \* telegram_user_id is set
                 over : BOOLEAN,           \* expires_at <= now
                 undecided : BOOLEAN]      \* approval_expires_at <= now
NoSuchRegistration == [status |-> "absent", linked |-> FALSE, over |-> FALSE, undecided |-> FALSE]

RegistrationTransaction == [registration : Registrations \cup {NoRegistration},
                            write : RegistrationStatuses]
IdleRegistrationTx == [registration |-> NoRegistration, write |-> "absent"]

RegistrationTypeOK ==
    /\ registration \in [Registrations -> Registration]
    /\ credential \in Registrations \cup {NoRegistration}
    /\ registrationTx \in [Sessions -> RegistrationTransaction]
    /\ approved \subseteq Registrations

RegistrationInit ==
    /\ registration = [r \in Registrations |-> NoSuchRegistration]
    /\ credential = NoRegistration
    /\ registrationTx = [s \in Sessions |-> IdleRegistrationTx]
    /\ approved = {}

-----------------------------------------------------------------------------
IdleSeller(s) == registrationTx[s] = IdleRegistrationTx

Decides(s, r, status) ==
    /\ IdleSeller(s)
    /\ registrationTx' = [registrationTx EXCEPT ![s] = [registration |-> r, write |-> status]]
    /\ UNCHANGED <<registration, credential, approved>>

EndRegistrationTx(s) ==
    registrationTx' = [registrationTx EXCEPT ![s] = IdleRegistrationTx]

(***************************************************************************)
(* Starting looks for a credential and for another registration of the     *)
(* email that is active and not over.                                      *)
(***************************************************************************)
StartRegistration(s, r) ==
    /\ registration[r].status = "absent"
    /\ \A t \in Sessions : registrationTx[t].registration # r      \* r is a new row
    /\ credential = NoRegistration
    /\ \A q \in Registrations :
          ~(registration[q].status \in ActiveStatuses /\ ~registration[q].over)
    /\ Decides(s, r, "PENDING")

TelegramStart(s, r) ==
    /\ registration[r].status = "PENDING"
    /\ IF registration[r].over
       THEN Decides(s, r, "EXPIRED")
       ELSE ~registration[r].linked /\ Decides(s, r, "AWAITING_APPROVAL")

(***************************************************************************)
(* Whoever approves, rejects, resends the code or confirms first ends a    *)
(* registration that is over, whatever its status, and one that nobody     *)
(* decided in time.                                                        *)
(***************************************************************************)
IsOver(row) == row.over \/ (row.status = "AWAITING_APPROVAL" /\ row.undecided)

ExpireRegistration(s, r) ==
    /\ registration[r].status \notin {"absent", "EXPIRED"}
    /\ IsOver(registration[r])
    /\ Decides(s, r, "EXPIRED")

Decision(s, r, status) ==
    /\ registration[r].status = "AWAITING_APPROVAL"
    /\ ~IsOver(registration[r])
    /\ Decides(s, r, status)

ApproveRegistration(s, r) == Decision(s, r, "APPROVED")
RejectRegistration(s, r) == Decision(s, r, "REJECTED")

(***************************************************************************)
(* The code is right and not too old.                                      *)
(***************************************************************************)
ConfirmRegistration(s, r) ==
    /\ registration[r].status = "APPROVED"
    /\ ~IsOver(registration[r])
    /\ registration[r].linked
    /\ credential = NoRegistration
    /\ Decides(s, r, "VERIFIED")

(* Mutant: the emails of credentials are not unique. *)
AnyInsert(write) == TRUE

UniqueEmail(write) == write = "VERIFIED" => credential = NoRegistration

(***************************************************************************)
(* The commit.  A confirmation inserts the credential with it, and fails   *)
(* if the email has one.                                                   *)
(***************************************************************************)
RegistrationCommit(s) ==
    LET t == registrationTx[s]
        r == t.registration
    IN  /\ ~IdleSeller(s)
        /\ UniqueEmail(t.write)
        /\ registration' = [registration EXCEPT
             ![r].status = t.write,
             ![r].linked = @ \/ t.write = "AWAITING_APPROVAL",
             ![r].undecided = @ /\ t.write # "AWAITING_APPROVAL"]
        /\ credential' = IF t.write = "VERIFIED" THEN r ELSE credential
        /\ approved' = IF t.write = "APPROVED" THEN approved \cup {r} ELSE approved
        /\ EndRegistrationTx(s)

RegistrationRollback(s) ==
    /\ ~IdleSeller(s)
    /\ EndRegistrationTx(s)
    /\ UNCHANGED <<registration, credential, approved>>

RegistrationTime(r) ==
    /\ registration[r].status # "absent"
    /\ \/ registration' = [registration EXCEPT ![r].undecided = TRUE]
       \/ registration' = [registration EXCEPT ![r].undecided = TRUE, ![r].over = TRUE]
    /\ UNCHANGED <<credential, registrationTx, approved>>

-----------------------------------------------------------------------------
RegistrationNext ==
    \/ \E r \in Registrations :
          \/ RegistrationTime(r)
          \/ \E s \in Sessions :
                \/ StartRegistration(s, r) \/ TelegramStart(s, r)
                \/ ApproveRegistration(s, r) \/ RejectRegistration(s, r)
                \/ ConfirmRegistration(s, r) \/ ExpireRegistration(s, r)
    \/ \E s \in Sessions : RegistrationCommit(s) \/ RegistrationRollback(s)

RegistrationSpec == RegistrationInit /\ [][RegistrationNext]_registrationVars

-----------------------------------------------------------------------------
(***************************************************************************)
(* A seller gets in only through a registration that was approved, and     *)
(* only one of the registrations of an email is ever verified, in spite of *)
(* the decisions that are taken from a stale read: two registrations       *)
(* started at once, an approval committed after a rejection, a second      *)
(* confirmation.                                                           *)
(***************************************************************************)
VerifiedOwnsTheCredential ==
    /\ \A r \in Registrations : registration[r].status = "VERIFIED" => credential = r
    /\ credential # NoRegistration => credential \in approved
=============================================================================
