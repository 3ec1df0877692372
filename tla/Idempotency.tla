----------------------------- MODULE Idempotency -----------------------------
(***************************************************************************)
(* Idempotency keys of one user in one scope.  A handler that gets a key   *)
(* first deletes the expired records of the scope, then inserts a record   *)
(* for the key, does its work and completes the record, all in the one     *)
(* transaction of its session.  Who finds a record of the key replays the  *)
(* response in it or answers 409.                                          *)
(*                                                                         *)
(* record holds the committed rows.  A row that a transaction deletes, and *)
(* a key that it inserts, stay with the transaction until it ends: who     *)
(* wants to delete or insert the same key waits.                           *)
(***************************************************************************)
EXTENDS Integers, FiniteSets

CONSTANTS
    Keys,
    Payloads,         \* request hashes
    Sessions,
    NoKey,
    NoPayload,
    CommitsExpiry,    \* the handler may commit an expiry and then refuse
    MaxExecutions     \* bound: requests that succeed

ASSUME NullsAssumption == NoKey \notin Keys /\ NoPayload \notin Payloads
ASSUME CommitsExpiryAssumption == CommitsExpiry \in BOOLEAN
ASSUME MaxExecutionsAssumption == MaxExecutions \in Nat

VARIABLES
    record,       \* committed record of each key
    tx,           \* the request that each session is serving
    answer,       \* history: the last answer of each session
    executions    \* history: what was carried out, for which key and payload

vars == <<record, tx, answer, executions>>

Records == [status : {"absent", "PROCESSING", "SUCCEEDED"},
            payload : Payloads \cup {NoPayload},
            response : 0 .. MaxExecutions,
            expired : BOOLEAN]             \* expires_at <= now
Absent == [status |-> "absent", payload |-> NoPayload, response |-> 0, expired |-> FALSE]

Steps == {"idle", "clean", "load", "run"}
Transactions == [step : Steps,
                 key : Keys \cup {NoKey},
                 payload : Payloads \cup {NoPayload},
                 due : SUBSET Keys,        \* expired rows still to be deleted
                 deleted : SUBSET Keys]    \* rows deleted, not committed yet
Idle == [step |-> "idle", key |-> NoKey, payload |-> NoPayload,
         due |-> {}, deleted |-> {}]

AnswerKinds == {"none", "done", "replay", "other payload", "still processing",
                "not loaded", "refused", "lost"}
Answers == [kind : AnswerKinds, key : Keys \cup {NoKey},
            payload : Payloads \cup {NoPayload}, response : 0 .. MaxExecutions]

Executions == [key : Keys, payload : Payloads, response : 1 .. MaxExecutions]

TypeOK ==
    /\ record \in [Keys -> Records]
    /\ tx \in [Sessions -> Transactions]
    /\ answer \in [Sessions -> Answers]
    /\ executions \subseteq Executions
    /\ \A k \in Keys : record[k].status # "absent" <=> record[k].payload \in Payloads
    /\ \A s \in Sessions : tx[s].step # "idle" <=> tx[s].key \in Keys

NoAnswer == [kind |-> "none", key |-> NoKey, payload |-> NoPayload, response |-> 0]

Init ==
    /\ record = [k \in Keys |-> Absent]
    /\ tx = [s \in Sessions |-> Idle]
    /\ answer = [s \in Sessions |-> NoAnswer]
    /\ executions = {}

-----------------------------------------------------------------------------
Busy(s) == tx[s].step # "idle"
Present(k) == record[k].status # "absent"
Expired(k) == Present(k) /\ record[k].expired

Inserted(s) == IF tx[s].step = "run" THEN {tx[s].key} ELSE {}
Held(s) == tx[s].deleted \cup Inserted(s)

(* Mutant: the key is not unique, and nobody waits for it. *)
AlwaysFree(s, k) == TRUE

Free(s, k) == \A t \in Sessions \ {s} : k \notin Held(t)

(***************************************************************************)
(* The request of session s ends with an answer.                           *)
(***************************************************************************)
Answer(s, kind, response) ==
    /\ tx' = [tx EXCEPT ![s] = Idle]
    /\ answer' = [answer EXCEPT ![s] = [kind |-> kind, key |-> tx[s].key,
                                        payload |-> tx[s].payload,
                                        response |-> response]]

(***************************************************************************)
(* The request ends without a commit: what it deleted and inserted is as   *)
(* it was.                                                                 *)
(***************************************************************************)
RolledBack == UNCHANGED <<record, executions>>

Commit(s, new) ==
    record' = [k \in Keys |-> IF k = tx[s].key THEN new
                              ELSE IF k \in tx[s].deleted THEN Absent
                              ELSE record[k]]

-----------------------------------------------------------------------------
(* Mutant: the request comes without the hash of its payload. *)
RequestUnhashed(s, k, p) ==
    /\ ~Busy(s)
    /\ tx' = [tx EXCEPT ![s] = [step |-> "clean", key |-> k, payload |-> NoPayload,
                                due |-> {x \in Keys : Expired(x)}, deleted |-> {}]]
    /\ answer' = [answer EXCEPT ![s] = NoAnswer]
    /\ RolledBack

(***************************************************************************)
(* A request arrives, and cleanup_expired looks for the expired records.   *)
(***************************************************************************)
Request(s, k, p) ==
    /\ ~Busy(s)
    /\ tx' = [tx EXCEPT ![s] = [step |-> "clean", key |-> k, payload |-> p,
                                due |-> {x \in Keys : Expired(x)}, deleted |-> {}]]
    /\ answer' = [answer EXCEPT ![s] = NoAnswer]
    /\ RolledBack

(* Mutant: the DELETE trusts the list it made before it waited. *)
CleanUnchecked(s, x) ==
    /\ tx[s].step = "clean"
    /\ x \in tx[s].due
    /\ Free(s, x)
    /\ tx' = [tx EXCEPT ![s].due = @ \ {x}, ![s].deleted = @ \cup {x}]
    /\ UNCHANGED <<record, answer, executions>>

(***************************************************************************)
(* The DELETE comes to the row of key x, which it waits for, and looks at  *)
(* it again once it has the row.                                           *)
(***************************************************************************)
Clean(s, x) ==
    /\ tx[s].step = "clean"
    /\ x \in tx[s].due
    /\ Free(s, x)
    /\ tx' = [tx EXCEPT ![s].due = @ \ {x},
                        ![s].deleted = IF Expired(x) THEN @ \cup {x} ELSE @]
    /\ UNCHANGED <<record, answer, executions>>

(***************************************************************************)
(* insert_processing: INSERT ... ON CONFLICT DO NOTHING waits for another  *)
(* transaction that has the key, and then inserts or finds a conflict.     *)
(***************************************************************************)
InsertProcessing(s) ==
    LET k == tx[s].key
    IN  /\ tx[s].step = "clean"
        /\ tx[s].due = {}
        /\ Free(s, k)
        /\ tx' = [tx EXCEPT ![s].step =
                    IF Present(k) /\ k \notin tx[s].deleted THEN "load" ELSE "run"]
        /\ UNCHANGED <<record, answer, executions>>

(***************************************************************************)
(* get_by_key_for_update waits for a transaction that deletes the row, and *)
(* the service answers from what is there then.                            *)
(***************************************************************************)
BeingDeleted(s, k) == \E t \in Sessions \ {s} : k \in tx[t].deleted

(* Mutant: the payload of the request is not compared. *)
FoundWhatever(s) ==
    CASE record[tx[s].key].status = "absent"     -> "not loaded"
      [] record[tx[s].key].status = "SUCCEEDED"  -> "replay"
      [] record[tx[s].key].status = "PROCESSING" -> "still processing"

Found(s) ==
    LET r == record[tx[s].key]
    IN  CASE r.status = "absent"                                      -> "not loaded"
          [] r.status # "absent" /\ r.payload # tx[s].payload         -> "other payload"
          [] r.status = "SUCCEEDED" /\ r.payload = tx[s].payload      -> "replay"
          [] r.status = "PROCESSING" /\ r.payload = tx[s].payload     -> "still processing"

Load(s) ==
    LET k == tx[s].key
    IN  /\ tx[s].step = "load"
        /\ Present(k) => ~BeingDeleted(s, k)
        /\ Answer(s, Found(s), IF Found(s) = "replay" THEN record[k].response ELSE 0)
        /\ RolledBack

-----------------------------------------------------------------------------
(***************************************************************************)
(* The handler does its work, completes the record and commits both.       *)
(***************************************************************************)
Succeed(s) ==
    LET k == tx[s].key
        n == Cardinality(executions) + 1
    IN  /\ tx[s].step = "run"
        /\ n <= MaxExecutions
        /\ executions' = executions \cup
                           {[key |-> k, payload |-> tx[s].payload, response |-> n]}
        /\ Commit(s, [status |-> "SUCCEEDED", payload |-> tx[s].payload,
                      response |-> n, expired |-> FALSE])
        /\ Answer(s, "done", n)

(***************************************************************************)
(* The handler raises an AppError or a database error: the session rolls   *)
(* back.                                                                   *)
(***************************************************************************)
Refuse(s) ==
    /\ tx[s].step = "run"
    /\ Answer(s, "refused", 0)
    /\ RolledBack

(***************************************************************************)
(* submit and upload_receipt find that the payment is due.  They expire it,*)
(* commit, and raise: the commit takes the unfinished record with it.      *)
(***************************************************************************)
CommitExpiry(s) ==
    /\ CommitsExpiry
    /\ tx[s].step = "run"
    /\ Commit(s, [status |-> "PROCESSING", payload |-> tx[s].payload,
                  response |-> 0, expired |-> FALSE])
    /\ Answer(s, "refused", 0)
    /\ UNCHANGED executions

(***************************************************************************)
(* The process or the connection is lost before the commit.                *)
(***************************************************************************)
Lose(s) ==
    /\ Busy(s)
    /\ Answer(s, "lost", 0)
    /\ RolledBack

(***************************************************************************)
(* Sessions that wait for each other's rows: PostgreSQL aborts one.        *)
(***************************************************************************)
WaitsFor(s, others) ==
    \/ /\ tx[s].step = "clean"
       /\ tx[s].due # {}
       /\ \A x \in tx[s].due : \E t \in others : x \in Held(t)
    \/ /\ tx[s].step = "clean"
       /\ tx[s].due = {}
       /\ \E t \in others : tx[s].key \in Held(t)
    \/ /\ tx[s].step = "load"
       /\ Present(tx[s].key)
       /\ \E t \in others : tx[s].key \in tx[t].deleted

(* Mutant: nothing ends a deadlock. *)
NoVictim(s) == FALSE

DeadlockVictim(s) ==
    /\ \E circle \in SUBSET Sessions :
          s \in circle /\ \A t \in circle : WaitsFor(t, circle \ {t})
    /\ Answer(s, "refused", 0)
    /\ RolledBack

(***************************************************************************)
(* Twenty-four hours pass.                                                 *)
(***************************************************************************)
Expire(k) ==
    /\ Present(k)
    /\ ~record[k].expired
    /\ record' = [record EXCEPT ![k].expired = TRUE]
    /\ UNCHANGED <<tx, answer, executions>>

-----------------------------------------------------------------------------
Next ==
    \/ \E s \in Sessions :
          \/ \E k \in Keys, p \in Payloads : Request(s, k, p)
          \/ \E x \in Keys : Clean(s, x)
          \/ InsertProcessing(s)
          \/ Load(s)
          \/ Succeed(s)
          \/ Refuse(s)
          \/ CommitExpiry(s)
          \/ Lose(s)
          \/ DeadlockVictim(s)
    \/ \E k \in Keys : Expire(k)

Spec == Init /\ [][Next]_vars

(***************************************************************************)
(* Fairness.  Who waits for a row gets it in the end, a handler that can   *)
(* go on does, and the detector finds a deadlock.  Clients, clocks and     *)
(* failures need not do anything.                                          *)
(***************************************************************************)
Fairness ==
    \A s \in Sessions :
       /\ SF_vars(\E x \in Keys : Clean(s, x))
       /\ SF_vars(InsertProcessing(s))
       /\ SF_vars(Load(s))
       /\ WF_vars(Succeed(s) \/ Refuse(s) \/ DeadlockVictim(s))

FairSpec == Spec /\ Fairness

-----------------------------------------------------------------------------
(***************************************************************************)
(* A request is carried out only once while its record is valid: two       *)
(* requests with the same key at the same time, a retry after a lost       *)
(* answer, or a cleanup that races with either never carry it out again.   *)
(***************************************************************************)
ExecutesOnce ==
    [][\A x \in executions' \ executions :
          ~Present(x.key) \/ record[x.key].expired]_vars

(***************************************************************************)
(* A record that is valid keeps its response: no cleanup of another        *)
(* request and no late commit removes or replaces it.                      *)
(***************************************************************************)
ValidRecordsStay ==
    [][\A k \in Keys :
          Present(k) /\ ~record[k].expired
            => record'[k] = [record[k] EXCEPT !.expired = record'[k].expired]]_vars

(***************************************************************************)
(* A replayed response is the response of a request that was carried out   *)
(* for the same key and the same payload.                                  *)
(***************************************************************************)
ReplaysAreFaithful ==
    \A s \in Sessions :
       answer[s].kind = "replay" =>
          [key |-> answer[s].key, payload |-> answer[s].payload,
           response |-> answer[s].response] \in executions

(***************************************************************************)
(* Every request gets an answer, also when the keys of several requests    *)
(* expire at once and each of them cleans up.                              *)
(***************************************************************************)
RequestsAnswered == \A s \in Sessions : Busy(s) ~> ~Busy(s)

(***************************************************************************)
(* What the answer 409 of the service says: a request with this key is     *)
(* still processing.                                                       *)
(***************************************************************************)
StillProcessingIsTrue ==
    [][\A s \in Sessions :
          answer'[s].kind = "still processing" /\ Busy(s)
            => \E t \in Sessions \ {s} : tx[t].key = tx[s].key]_vars
=============================================================================
