-------------------------- MODULE IdempotencyProofs --------------------------
(***************************************************************************)
(* Proofs about Idempotency, for any number of keys, payloads, sessions    *)
(* and executions, whether or not handlers commit an expiry.               *)
(***************************************************************************)
EXTENDS Idempotency, FiniteSetTheorems, TLAPS

(***************************************************************************)
(* The inductive invariant.  A key is held by one transaction at a time.   *)
(* What a transaction deletes is expired and stays so, because only a      *)
(* commit replaces a row and the commits of the others concern other keys. *)
(* Who may insert found no row of the key, or has deleted it.  A record    *)
(* that succeeded is the trace of an execution.                            *)
(***************************************************************************)
HeldOnce == \A s, t \in Sessions : s # t => Held(s) \cap Held(t) = {}

DeletedAreExpired == \A s \in Sessions : \A x \in tx[s].deleted : Expired(x)

RunnersMayInsert ==
    \A s \in Sessions : tx[s].step = "run" =>
       ~Present(tx[s].key) \/ tx[s].key \in tx[s].deleted

RequestsAreHashed ==
    \A s \in Sessions : Busy(s) => tx[s].payload \in Payloads

SuccessWasExecuted ==
    \A k \in Keys : record[k].status = "SUCCEEDED" =>
       [key |-> k, payload |-> record[k].payload, response |-> record[k].response]
         \in executions

IInv ==
    /\ TypeOK
    /\ IsFiniteSet(executions)
    /\ HeldOnce
    /\ DeletedAreExpired
    /\ RunnersMayInsert
    /\ RequestsAreHashed
    /\ SuccessWasExecuted
    /\ ReplaysAreFaithful

-----------------------------------------------------------------------------
LEMMA IdleType == Idle \in Transactions
  BY DEF Idle, Transactions, Steps

LEMMA InvInit == Init => IInv
<1> SUFFICES ASSUME Init PROVE IInv
  OBVIOUS
<1> USE DEF Init
<1>1. TypeOK
  <2>1. record \in [Keys -> Records]
    BY MaxExecutionsAssumption DEF Absent, Records
  <2>2. tx \in [Sessions -> Transactions]
    BY IdleType
  <2>3. answer \in [Sessions -> Answers]
    BY MaxExecutionsAssumption DEF NoAnswer, Answers, AnswerKinds
  <2>4. \A k \in Keys : record[k].status # "absent" <=> record[k].payload \in Payloads
    BY NullsAssumption DEF Absent
  <2>5. \A s \in Sessions : tx[s].step # "idle" <=> tx[s].key \in Keys
    BY NullsAssumption DEF Idle
  <2> QED
    BY <2>1, <2>2, <2>3, <2>4, <2>5 DEF TypeOK
<1>2. IsFiniteSet(executions)
  BY FS_EmptySet
<1>3. HeldOnce /\ DeletedAreExpired /\ RunnersMayInsert /\ RequestsAreHashed
  BY DEF HeldOnce, Held, Inserted, DeletedAreExpired, RunnersMayInsert,
         RequestsAreHashed, Busy, Idle
<1>4. SuccessWasExecuted /\ ReplaysAreFaithful
  BY DEF SuccessWasExecuted, ReplaysAreFaithful, Absent, NoAnswer
<1> QED
  BY <1>1, <1>2, <1>3, <1>4 DEF IInv

-----------------------------------------------------------------------------
(***************************************************************************)
(* What every step that ends a request does to the sessions.               *)
(***************************************************************************)
LEMMA AnswerEffect ==
    ASSUME TypeOK, NEW s \in Sessions, Busy(s), NEW kind \in AnswerKinds,
           NEW response \in 0 .. MaxExecutions, Answer(s, kind, response)
    PROVE  /\ tx' \in [Sessions -> Transactions]
           /\ answer' \in [Sessions -> Answers]
           /\ tx'[s] = Idle
           /\ answer'[s] = [kind |-> kind, key |-> tx[s].key,
                            payload |-> tx[s].payload, response |-> response]
           /\ \A t \in Sessions \ {s} : tx'[t] = tx[t] /\ answer'[t] = answer[t]
           /\ \A t \in Sessions : tx'[t].step # "idle" <=> tx'[t].key \in Keys
<1>1. tx[s] \in Transactions
  BY DEF TypeOK
<1>2. [kind |-> kind, key |-> tx[s].key, payload |-> tx[s].payload,
       response |-> response] \in Answers
  BY <1>1 DEF Answers, Transactions
<1>3. tx' \in [Sessions -> Transactions] /\ answer' \in [Sessions -> Answers]
  BY <1>2, IdleType DEF Answer, TypeOK
<1>4. /\ tx'[s] = Idle
      /\ answer'[s] = [kind |-> kind, key |-> tx[s].key,
                       payload |-> tx[s].payload, response |-> response]
      /\ \A t \in Sessions \ {s} : tx'[t] = tx[t] /\ answer'[t] = answer[t]
  BY DEF Answer, TypeOK
<1>5. \A t \in Sessions : tx'[t].step # "idle" <=> tx'[t].key \in Keys
  BY <1>4, NullsAssumption DEF TypeOK, Idle
<1> QED
  BY <1>3, <1>4, <1>5

(***************************************************************************)
(* A session that gives back what it held disturbs nobody.                 *)
(***************************************************************************)
LEMMA EndKeepsClaims ==
    ASSUME IInv, NEW s \in Sessions, tx'[s] = Idle,
           \A t \in Sessions \ {s} : tx'[t] = tx[t],
           \A k \in Keys : \A t \in Sessions \ {s} : k \in Held(t) => record'[k] = record[k]
    PROVE  HeldOnce' /\ DeletedAreExpired' /\ RunnersMayInsert' /\ RequestsAreHashed'
<1>1. Held(s)' = {}
  BY DEF Held, Inserted, Idle
<1>2. \A t \in Sessions \ {s} : Held(t)' = Held(t)
  BY DEF Held, Inserted
<1>3. HeldOnce'
  BY <1>1, <1>2 DEF HeldOnce, IInv
<1>4. \A t \in Sessions : tx[t] \in Transactions
  BY DEF IInv, TypeOK
<1>5. DeletedAreExpired'
  <2> SUFFICES ASSUME NEW t \in Sessions, NEW x \in tx'[t].deleted PROVE Expired(x)'
    BY DEF DeletedAreExpired
  <2>1. t # s /\ tx'[t] = tx[t]
    BY DEF Idle
  <2>2. x \in Held(t) /\ x \in Keys
    BY <2>1, <1>4 DEF Held, Transactions
  <2> QED
    BY <2>1, <2>2 DEF Expired, Present, DeletedAreExpired, IInv
<1>6. RunnersMayInsert'
  <2> SUFFICES ASSUME NEW t \in Sessions, tx'[t].step = "run"
               PROVE  ~Present(tx[t].key)' \/ tx'[t].key \in tx'[t].deleted
    BY DEF RunnersMayInsert, Idle, Present
  <2>1. t # s /\ tx'[t] = tx[t]
    BY DEF Idle
  <2>2. tx[t].key \in Held(t) /\ tx[t].key \in Keys
    BY <2>1 DEF Held, Inserted, IInv, TypeOK
  <2> QED
    BY <2>1, <2>2 DEF Present, RunnersMayInsert, IInv
<1>7. RequestsAreHashed'
  BY DEF RequestsAreHashed, Busy, Idle, IInv
<1> QED
  BY <1>3, <1>5, <1>6, <1>7

-----------------------------------------------------------------------------
(***************************************************************************)
(* Requests that end without a commit.  Only the answer matters: a replay  *)
(* must repeat an execution.                                               *)
(***************************************************************************)
LEMMA EndKeepsInv ==
    ASSUME IInv, NEW s \in Sessions, Busy(s), NEW kind \in AnswerKinds,
           NEW response \in 0 .. MaxExecutions, Answer(s, kind, response), RolledBack,
           kind = "replay" => [key |-> tx[s].key, payload |-> tx[s].payload,
                               response |-> response] \in executions
    PROVE  IInv'
<1>1. TypeOK
  BY DEF IInv
<1>2. record' = record /\ executions' = executions
  BY DEF RolledBack
<1>3. /\ tx' \in [Sessions -> Transactions]
      /\ answer' \in [Sessions -> Answers]
      /\ tx'[s] = Idle
      /\ answer'[s] = [kind |-> kind, key |-> tx[s].key,
                       payload |-> tx[s].payload, response |-> response]
      /\ \A t \in Sessions \ {s} : tx'[t] = tx[t] /\ answer'[t] = answer[t]
      /\ \A t \in Sessions : tx'[t].step # "idle" <=> tx'[t].key \in Keys
  BY <1>1, AnswerEffect
<1>4. TypeOK'
  BY <1>1, <1>2, <1>3 DEF TypeOK
<1>5. HeldOnce' /\ DeletedAreExpired' /\ RunnersMayInsert' /\ RequestsAreHashed'
  BY <1>2, <1>3, EndKeepsClaims
<1>6. SuccessWasExecuted' /\ IsFiniteSet(executions')
  BY <1>2 DEF IInv, SuccessWasExecuted
<1>7. ReplaysAreFaithful'
  BY <1>2, <1>3 DEF IInv, ReplaysAreFaithful
<1> QED
  BY <1>4, <1>5, <1>6, <1>7 DEF IInv

LEMMA LoadKeepsInv ==
    ASSUME IInv, NEW s \in Sessions, Load(s)
    PROVE  IInv'
<1> DEFINE k == tx[s].key
           response == IF Found(s) = "replay" THEN record[k].response ELSE 0
<1>1. Busy(s) /\ k \in Keys
  BY DEF Load, Busy, IInv, TypeOK
<1>2. record[k] \in Records
  BY <1>1 DEF IInv, TypeOK
<1>3. Found(s) \in AnswerKinds
  BY <1>2 DEF Found, AnswerKinds, Records
<1>4. response \in 0 .. MaxExecutions
  BY <1>2, MaxExecutionsAssumption DEF Records
<1>5. Found(s) = "replay" => record[k].status = "SUCCEEDED" /\ record[k].payload = tx[s].payload
  BY <1>2 DEF Found, Records
<1>6. Found(s) = "replay" =>
         [key |-> k, payload |-> tx[s].payload, response |-> response] \in executions
  BY <1>1, <1>5 DEF IInv, SuccessWasExecuted
<1>7. Answer(s, Found(s), response) /\ RolledBack
  BY DEF Load
<1> HIDE DEF response
<1> QED
  BY <1>1, <1>3, <1>4, <1>6, <1>7, EndKeepsInv

LEMMA QuietEndKeepsInv ==
    ASSUME IInv, NEW s \in Sessions, Refuse(s) \/ Lose(s) \/ DeadlockVictim(s)
    PROVE  IInv'
<1>1. Busy(s)
  BY DEF Refuse, Lose, DeadlockVictim, WaitsFor, Busy
<1>2. 0 \in 0 .. MaxExecutions
  BY MaxExecutionsAssumption
<1>3. "refused" \in AnswerKinds /\ "lost" \in AnswerKinds
  BY DEF AnswerKinds
<1>4. CASE Answer(s, "refused", 0) /\ RolledBack
  BY <1>1, <1>2, <1>3, <1>4, EndKeepsInv
<1>5. CASE Answer(s, "lost", 0) /\ RolledBack
  BY <1>1, <1>2, <1>3, <1>5, EndKeepsInv
<1> QED
  BY <1>4, <1>5 DEF Refuse, Lose, DeadlockVictim

-----------------------------------------------------------------------------
(***************************************************************************)
(* A commit touches only rows that nobody else holds and that are absent   *)
(* or expired.                                                             *)
(***************************************************************************)
LEMMA CommitEffect ==
    ASSUME IInv, NEW s \in Sessions, tx[s].step = "run", NEW new \in Records,
           new.status # "absent" <=> new.payload \in Payloads, Commit(s, new)
    PROVE  /\ record' \in [Keys -> Records]
           /\ record'[tx[s].key] = new
           /\ \A k \in Keys : record'[k] \in {new, Absent, record[k]}
           /\ \A k \in Keys : record'[k].status # "absent" <=> record'[k].payload \in Payloads
           /\ \A k \in Keys : record'[k] # record[k] => k \in Held(s)
           /\ \A k \in Keys : \A t \in Sessions \ {s} :
                 k \in Held(t) => record'[k] = record[k]
           /\ \A k \in Keys : Present(k) /\ ~record[k].expired => record'[k] = record[k]
<1>1. tx[s].key \in Keys /\ tx[s].deleted \subseteq Keys
  BY DEF IInv, TypeOK, Transactions
<1>2. Absent \in Records /\ Absent.status = "absent" /\ Absent.payload \notin Payloads
  BY NullsAssumption, MaxExecutionsAssumption DEF Absent, Records
<1>3. /\ record' \in [Keys -> Records]
      /\ record'[tx[s].key] = new
      /\ \A k \in Keys : record'[k] \in {new, Absent, record[k]}
  BY <1>1, <1>2 DEF Commit, IInv, TypeOK
<1>4. \A k \in Keys : record'[k].status # "absent" <=> record'[k].payload \in Payloads
  BY <1>2, <1>3 DEF IInv, TypeOK
<1>5. \A k \in Keys : record'[k] # record[k] => k \in Held(s)
  BY DEF Commit, Held, Inserted
<1>6. \A k \in Keys : \A t \in Sessions \ {s} : k \in Held(t) => record'[k] = record[k]
  BY <1>5 DEF IInv, HeldOnce
<1>7. \A k \in Keys : Present(k) /\ ~record[k].expired => record'[k] = record[k]
  BY <1>5 DEF IInv, RunnersMayInsert, DeletedAreExpired, Held, Inserted, Expired
<1> QED
  BY <1>3, <1>4, <1>5, <1>6, <1>7

LEMMA SucceedKeepsInv ==
    ASSUME IInv, NEW s \in Sessions, Succeed(s)
    PROVE  IInv'
<1> DEFINE k == tx[s].key
           n == Cardinality(executions) + 1
           done == [key |-> k, payload |-> tx[s].payload, response |-> n]
           new == [status |-> "SUCCEEDED", payload |-> tx[s].payload,
                   response |-> n, expired |-> FALSE]
<1>1. TypeOK /\ tx[s].step = "run" /\ Busy(s) /\ k \in Keys
  BY DEF IInv, Succeed, Busy, TypeOK
<1>2. n \in 1 .. MaxExecutions
  BY FS_CardinalityType, MaxExecutionsAssumption DEF IInv, Succeed
<1>3. executions' = executions \cup {done} /\ Commit(s, new) /\ Answer(s, "done", n)
  BY DEF Succeed
<1>4. tx[s].payload \in Payloads
  BY <1>1 DEF IInv, RequestsAreHashed
<1>5. new \in Records /\ new.status # "absent" /\ new.payload \in Payloads
  BY <1>2, <1>4, MaxExecutionsAssumption DEF Records
<1> HIDE DEF n
<1>6. "done" \in AnswerKinds /\ n \in 0 .. MaxExecutions
  BY <1>2 DEF AnswerKinds
<1>7. /\ tx' \in [Sessions -> Transactions]
      /\ answer' \in [Sessions -> Answers]
      /\ tx'[s] = Idle
      /\ answer'[s] = [kind |-> "done", key |-> k,
                       payload |-> tx[s].payload, response |-> n]
      /\ \A t \in Sessions \ {s} : tx'[t] = tx[t] /\ answer'[t] = answer[t]
      /\ \A t \in Sessions : tx'[t].step # "idle" <=> tx'[t].key \in Keys
  BY <1>1, <1>3, <1>6, AnswerEffect
<1> HIDE DEF new, done
<1>8. /\ record' \in [Keys -> Records]
      /\ record'[k] = new
      /\ \A x \in Keys : record'[x] \in {new, Absent, record[x]}
      /\ \A x \in Keys : record'[x].status # "absent" <=> record'[x].payload \in Payloads
      /\ \A x \in Keys : record'[x] # record[x] => x \in Held(s)
      /\ \A x \in Keys : \A t \in Sessions \ {s} : x \in Held(t) => record'[x] = record[x]
  BY <1>1, <1>3, <1>5, CommitEffect
<1>9. executions' \subseteq Executions /\ IsFiniteSet(executions')
  <2>1. done \in Executions
    BY <1>1, <1>2, <1>4 DEF done, Executions
  <2> QED
    BY <2>1, <1>1, <1>3, FS_AddElement DEF TypeOK, IInv
<1>10. TypeOK'
  BY <1>7, <1>8, <1>9 DEF TypeOK
<1>11. HeldOnce' /\ DeletedAreExpired' /\ RunnersMayInsert' /\ RequestsAreHashed'
  BY <1>7, <1>8, EndKeepsClaims
<1>12. SuccessWasExecuted'
  <2> SUFFICES ASSUME NEW x \in Keys, record'[x].status = "SUCCEEDED"
               PROVE  [key |-> x, payload |-> record'[x].payload,
                       response |-> record'[x].response] \in executions'
    BY DEF SuccessWasExecuted
  <2>1. CASE x = k
    BY <2>1, <1>3, <1>8 DEF new, done
  <2>2. CASE x # k
    <3>1. record'[x] \in {Absent, record[x]}
      BY <2>2, <1>3 DEF Commit
    <3> QED
      BY <3>1, <1>3 DEF IInv, SuccessWasExecuted, Absent
  <2> QED
    BY <2>1, <2>2
<1>13. ReplaysAreFaithful'
  BY <1>3, <1>7 DEF IInv, ReplaysAreFaithful
<1> QED
  BY <1>9, <1>10, <1>11, <1>12, <1>13 DEF IInv

LEMMA ExpiryKeepsInv ==
    ASSUME IInv, NEW s \in Sessions, CommitExpiry(s)
    PROVE  IInv'
<1> DEFINE new == [status |-> "PROCESSING", payload |-> tx[s].payload,
                   response |-> 0, expired |-> FALSE]
<1>1. TypeOK /\ tx[s].step = "run" /\ Busy(s) /\ tx[s].key \in Keys
  BY DEF IInv, CommitExpiry, Busy, TypeOK
<1>2. executions' = executions /\ Commit(s, new) /\ Answer(s, "refused", 0)
  BY DEF CommitExpiry
<1>3. tx[s].payload \in Payloads
  BY <1>1 DEF IInv, RequestsAreHashed
<1>4. new \in Records /\ new.status # "absent" /\ new.payload \in Payloads
  BY <1>3, MaxExecutionsAssumption DEF Records
<1>5. "refused" \in AnswerKinds /\ 0 \in 0 .. MaxExecutions
  BY MaxExecutionsAssumption DEF AnswerKinds
<1>6. /\ tx' \in [Sessions -> Transactions]
      /\ answer' \in [Sessions -> Answers]
      /\ tx'[s] = Idle
      /\ answer'[s] = [kind |-> "refused", key |-> tx[s].key,
                       payload |-> tx[s].payload, response |-> 0]
      /\ \A t \in Sessions \ {s} : tx'[t] = tx[t] /\ answer'[t] = answer[t]
      /\ \A t \in Sessions : tx'[t].step # "idle" <=> tx'[t].key \in Keys
  BY <1>1, <1>2, <1>5, AnswerEffect
<1>7. new.status # "SUCCEEDED"
  OBVIOUS
<1> HIDE DEF new
<1>8. /\ record' \in [Keys -> Records]
      /\ \A x \in Keys : record'[x] \in {new, Absent, record[x]}
      /\ \A x \in Keys : record'[x].status # "absent" <=> record'[x].payload \in Payloads
      /\ \A x \in Keys : \A t \in Sessions \ {s} : x \in Held(t) => record'[x] = record[x]
  BY <1>1, <1>2, <1>4, CommitEffect
<1>9. TypeOK'
  BY <1>1, <1>2, <1>6, <1>8 DEF TypeOK
<1>10. HeldOnce' /\ DeletedAreExpired' /\ RunnersMayInsert' /\ RequestsAreHashed'
  BY <1>6, <1>8, EndKeepsClaims
<1>11. SuccessWasExecuted'
  <2> SUFFICES ASSUME NEW x \in Keys, record'[x].status = "SUCCEEDED"
               PROVE  [key |-> x, payload |-> record'[x].payload,
                       response |-> record'[x].response] \in executions'
    BY DEF SuccessWasExecuted
  <2>1. record'[x] = record[x]
    BY <1>7, <1>8 DEF Absent
  <2> QED
    BY <2>1, <1>2 DEF IInv, SuccessWasExecuted
<1>12. ReplaysAreFaithful'
  BY <1>2, <1>6 DEF IInv, ReplaysAreFaithful
<1> QED
  BY <1>2, <1>9, <1>10, <1>11, <1>12 DEF IInv

-----------------------------------------------------------------------------
(***************************************************************************)
(* Steps of a request that goes on.                                        *)
(***************************************************************************)
LEMMA RequestKeepsInv ==
    ASSUME IInv, NEW s \in Sessions, NEW k \in Keys, NEW p \in Payloads, Request(s, k, p)
    PROVE  IInv'
<1> DEFINE new == [step |-> "clean", key |-> k, payload |-> p,
                   due |-> {x \in Keys : Expired(x)}, deleted |-> {}]
<1>1. TypeOK /\ record' = record /\ executions' = executions
  BY DEF Request, RolledBack, IInv
<1>2. new \in Transactions
  BY DEF Transactions, Steps
<1>3. NoAnswer \in Answers
  BY MaxExecutionsAssumption DEF NoAnswer, Answers, AnswerKinds
<1>4. /\ tx' = [tx EXCEPT ![s] = new]
      /\ answer' = [answer EXCEPT ![s] = NoAnswer]
  BY DEF Request
<1>5. new.step = "clean" /\ new.deleted = {} /\ new.key = k /\ new.payload = p
  OBVIOUS
<1> HIDE DEF new
<1>6. /\ tx' \in [Sessions -> Transactions]
      /\ answer' \in [Sessions -> Answers]
      /\ tx'[s] = new /\ answer'[s] = NoAnswer
      /\ \A t \in Sessions \ {s} : tx'[t] = tx[t] /\ answer'[t] = answer[t]
  BY <1>1, <1>2, <1>3, <1>4 DEF TypeOK
<1>7. TypeOK'
  BY <1>1, <1>5, <1>6 DEF TypeOK
<1>8. Held(s)' = {} /\ \A t \in Sessions \ {s} : Held(t)' = Held(t)
  BY <1>5, <1>6 DEF Held, Inserted
<1>9. HeldOnce'
  BY <1>8 DEF IInv, HeldOnce
<1>10. DeletedAreExpired' /\ RunnersMayInsert' /\ RequestsAreHashed'
  BY <1>1, <1>5, <1>6 DEF IInv, DeletedAreExpired, RunnersMayInsert, RequestsAreHashed,
                          Busy, Expired, Present
<1>11. SuccessWasExecuted' /\ ReplaysAreFaithful' /\ IsFiniteSet(executions')
  BY <1>1, <1>6 DEF IInv, SuccessWasExecuted, ReplaysAreFaithful, NoAnswer
<1> QED
  BY <1>7, <1>9, <1>10, <1>11 DEF IInv

(***************************************************************************)
(* A row is deleted, or the key inserted, only when it is free.            *)
(***************************************************************************)
LEMMA CleanKeepsInv ==
    ASSUME IInv, NEW s \in Sessions, NEW x \in Keys, Clean(s, x)
    PROVE  IInv'
<1> DEFINE gone == IF Expired(x) THEN tx[s].deleted \cup {x} ELSE tx[s].deleted
<1>1. /\ TypeOK /\ record' = record /\ executions' = executions /\ answer' = answer
      /\ tx[s].step = "clean" /\ Free(s, x)
      /\ tx' = [tx EXCEPT ![s].due = @ \ {x}, ![s].deleted = gone]
  BY DEF Clean, IInv
<1>2. gone \subseteq tx[s].deleted \cup {x} /\ gone \subseteq Keys
      /\ \A y \in gone : y \in tx[s].deleted \/ Expired(y)
  BY <1>1 DEF TypeOK, Transactions
<1> HIDE DEF gone
<1>3. /\ tx' \in [Sessions -> Transactions]
      /\ tx'[s].step = tx[s].step /\ tx'[s].key = tx[s].key
      /\ tx'[s].payload = tx[s].payload /\ tx'[s].deleted = gone
      /\ \A t \in Sessions \ {s} : tx'[t] = tx[t]
  BY <1>1, <1>2 DEF TypeOK, Transactions
<1>4. TypeOK'
  BY <1>1, <1>3 DEF TypeOK
<1>5. Held(s)' \subseteq Held(s) \cup {x} /\ \A t \in Sessions \ {s} : Held(t)' = Held(t)
  BY <1>1, <1>2, <1>3 DEF Held, Inserted
<1>6. HeldOnce'
  BY <1>1, <1>5 DEF IInv, HeldOnce, Free
<1>7. DeletedAreExpired' /\ RunnersMayInsert' /\ RequestsAreHashed'
  BY <1>1, <1>2, <1>3 DEF IInv, DeletedAreExpired, RunnersMayInsert, RequestsAreHashed,
                          Busy, Expired, Present
<1>8. SuccessWasExecuted' /\ ReplaysAreFaithful' /\ IsFiniteSet(executions')
  BY <1>1 DEF IInv, SuccessWasExecuted, ReplaysAreFaithful
<1> QED
  BY <1>4, <1>6, <1>7, <1>8 DEF IInv

LEMMA InsertKeepsInv ==
    ASSUME IInv, NEW s \in Sessions, InsertProcessing(s)
    PROVE  IInv'
<1> DEFINE k == tx[s].key
           next == IF Present(k) /\ k \notin tx[s].deleted THEN "load" ELSE "run"
<1>1. /\ TypeOK /\ record' = record /\ executions' = executions /\ answer' = answer
      /\ tx[s].step = "clean" /\ Free(s, k) /\ k \in Keys
      /\ tx' = [tx EXCEPT ![s].step = next]
  BY DEF InsertProcessing, IInv, TypeOK
<1>2. /\ next \in {"load", "run"}
      /\ next = "run" => ~Present(k) \/ k \in tx[s].deleted
  OBVIOUS
<1> HIDE DEF next
<1>3. /\ tx' \in [Sessions -> Transactions]
      /\ tx'[s].step = next /\ tx'[s].key = k
      /\ tx'[s].payload = tx[s].payload /\ tx'[s].deleted = tx[s].deleted
      /\ \A t \in Sessions \ {s} : tx'[t] = tx[t]
  BY <1>1, <1>2 DEF TypeOK, Transactions, Steps
<1>4. TypeOK'
  BY <1>1, <1>2, <1>3 DEF TypeOK
<1>5. Held(s)' \subseteq Held(s) \cup {k} /\ \A t \in Sessions \ {s} : Held(t)' = Held(t)
  BY <1>1, <1>3 DEF Held, Inserted
<1>6. HeldOnce'
  BY <1>1, <1>5 DEF IInv, HeldOnce, Free
<1>7. DeletedAreExpired' /\ RunnersMayInsert' /\ RequestsAreHashed'
  BY <1>1, <1>2, <1>3 DEF IInv, DeletedAreExpired, RunnersMayInsert, RequestsAreHashed,
                          Busy, Expired, Present
<1>8. SuccessWasExecuted' /\ ReplaysAreFaithful' /\ IsFiniteSet(executions')
  BY <1>1 DEF IInv, SuccessWasExecuted, ReplaysAreFaithful
<1> QED
  BY <1>4, <1>6, <1>7, <1>8 DEF IInv

LEMMA ExpireKeepsInv ==
    ASSUME IInv, NEW k \in Keys, Expire(k)
    PROVE  IInv'
<1>1. /\ TypeOK /\ tx' = tx /\ answer' = answer /\ executions' = executions
      /\ record' = [record EXCEPT ![k].expired = TRUE]
  BY DEF Expire, IInv
<1>2. /\ record' \in [Keys -> Records]
      /\ \A x \in Keys : /\ record'[x].status = record[x].status
                         /\ record'[x].payload = record[x].payload
                         /\ record'[x].response = record[x].response
                         /\ record[x].expired => record'[x].expired
  BY <1>1 DEF TypeOK, Records
<1>3. TypeOK'
  BY <1>1, <1>2 DEF TypeOK
<1>4. HeldOnce' /\ RequestsAreHashed'
  BY <1>1 DEF IInv, HeldOnce, Held, Inserted, RequestsAreHashed, Busy
<1>5. \A t \in Sessions : tx[t].deleted \subseteq Keys /\ (tx[t].step = "run" => tx[t].key \in Keys)
  BY <1>1 DEF TypeOK, Transactions
<1>6. DeletedAreExpired' /\ RunnersMayInsert'
  BY <1>1, <1>2, <1>5 DEF IInv, DeletedAreExpired, RunnersMayInsert, Expired, Present
<1>7. SuccessWasExecuted' /\ ReplaysAreFaithful' /\ IsFiniteSet(executions')
  BY <1>1, <1>2 DEF IInv, SuccessWasExecuted, ReplaysAreFaithful
<1> QED
  BY <1>3, <1>4, <1>6, <1>7 DEF IInv

-----------------------------------------------------------------------------
LEMMA InvStep == IInv /\ [Next]_vars => IInv'
<1> SUFFICES ASSUME IInv, [Next]_vars PROVE IInv'
  OBVIOUS
<1>1. ASSUME NEW s \in Sessions, NEW k \in Keys, NEW p \in Payloads, Request(s, k, p)
      PROVE  IInv'
  BY <1>1, RequestKeepsInv
<1>2. ASSUME NEW s \in Sessions, NEW x \in Keys, Clean(s, x) PROVE IInv'
  BY <1>2, CleanKeepsInv
<1>3. ASSUME NEW s \in Sessions, InsertProcessing(s) PROVE IInv'
  BY <1>3, InsertKeepsInv
<1>4. ASSUME NEW s \in Sessions, Load(s) PROVE IInv'
  BY <1>4, LoadKeepsInv
<1>5. ASSUME NEW s \in Sessions, Succeed(s) PROVE IInv'
  BY <1>5, SucceedKeepsInv
<1>6. ASSUME NEW s \in Sessions, Refuse(s) \/ Lose(s) \/ DeadlockVictim(s) PROVE IInv'
  BY <1>6, QuietEndKeepsInv
<1>7. ASSUME NEW s \in Sessions, CommitExpiry(s) PROVE IInv'
  BY <1>7, ExpiryKeepsInv
<1>8. ASSUME NEW k \in Keys, Expire(k) PROVE IInv'
  BY <1>8, ExpireKeepsInv
<1>9. CASE UNCHANGED vars
  BY <1>9 DEF vars, IInv, TypeOK, HeldOnce, Held, Inserted, DeletedAreExpired,
              RunnersMayInsert, RequestsAreHashed, SuccessWasExecuted,
              ReplaysAreFaithful, Busy, Expired, Present
<1> QED
  BY <1>1, <1>2, <1>3, <1>4, <1>5, <1>6, <1>7, <1>8, <1>9 DEF Next

(***************************************************************************)
(* The inductive invariant holds in every state: a key is held by one      *)
(* transaction, only expired records are deleted, only the holder of a     *)
(* key without a valid record carries its request out, and a record that   *)
(* succeeded is the trace of an execution.                                 *)
(***************************************************************************)
THEOREM Invariance == Spec => []IInv
<1>1. Init => IInv
  BY InvInit
<1>2. IInv /\ [Next]_vars => IInv'
  BY InvStep
<1> QED
  BY <1>1, <1>2, PTL DEF Spec

(***************************************************************************)
(* The records, the requests and the answers keep their types.             *)
(***************************************************************************)
THEOREM TypeCorrect == Spec => []TypeOK
<1>1. IInv => TypeOK
  BY DEF IInv
<1> QED
  BY <1>1, Invariance, PTL

(***************************************************************************)
(* A replayed response is one that was computed for the same key and the   *)
(* same payload.                                                           *)
(***************************************************************************)
THEOREM ReplaysAreRight == Spec => []ReplaysAreFaithful
<1>1. IInv => ReplaysAreFaithful
  BY DEF IInv
<1> QED
  BY <1>1, Invariance, PTL

-----------------------------------------------------------------------------
(***************************************************************************)
(* What the steps that write do to valid records and to the history.       *)
(***************************************************************************)
LEMMA SucceedIsJustified ==
    ASSUME IInv, NEW s \in Sessions, Succeed(s)
    PROVE  /\ \A x \in executions' \ executions : ~Present(x.key) \/ record[x.key].expired
           /\ \A k \in Keys : Present(k) /\ ~record[k].expired => record'[k] = record[k]
<1> DEFINE k == tx[s].key
<1>1. tx[s].step = "run" /\ Busy(s) /\ k \in Keys
  BY DEF IInv, Succeed, Busy, TypeOK
<1>2. ~Present(k) \/ record[k].expired
  BY <1>1 DEF IInv, RunnersMayInsert, DeletedAreExpired, Expired
<1>3. \A x \in executions' \ executions : x.key = k
  BY DEF Succeed
<1>4. \A x \in Keys : Present(x) /\ ~record[x].expired => record'[x] = record[x]
  <2> SUFFICES ASSUME NEW x \in Keys, Present(x), ~record[x].expired
               PROVE  record'[x] = record[x]
    OBVIOUS
  <2>1. x # k /\ x \notin tx[s].deleted
    BY <1>2 DEF IInv, DeletedAreExpired, Expired
  <2> QED
    BY <2>1 DEF Succeed, Commit
<1> QED
  BY <1>2, <1>3, <1>4

LEMMA ExpiryIsJustified ==
    ASSUME IInv, NEW s \in Sessions, CommitExpiry(s)
    PROVE  \A k \in Keys : Present(k) /\ ~record[k].expired => record'[k] = record[k]
<1>1. tx[s].step = "run"
  BY DEF CommitExpiry
<1> SUFFICES ASSUME NEW x \in Keys, Present(x), ~record[x].expired
             PROVE  record'[x] = record[x]
  OBVIOUS
<1>2. x # tx[s].key /\ x \notin tx[s].deleted
  BY <1>1 DEF IInv, RunnersMayInsert, DeletedAreExpired, Expired
<1> QED
  BY <1>2 DEF CommitExpiry, Commit

LEMMA OtherStepsWriteNothing ==
    ASSUME IInv, [Next]_vars,
           \A s \in Sessions : ~Succeed(s) /\ ~CommitExpiry(s),
           \A k \in Keys : ~Expire(k)
    PROVE  record' = record /\ executions' = executions
  BY DEF Next, vars, Request, Clean, InsertProcessing, Load, Refuse, Lose,
         DeadlockVictim, RolledBack

LEMMA StepIsJustified ==
    ASSUME IInv, [Next]_vars
    PROVE  /\ \A x \in executions' \ executions : ~Present(x.key) \/ record[x.key].expired
           /\ \A k \in Keys : Present(k) /\ ~record[k].expired
                 => record'[k] = [record[k] EXCEPT !.expired = record'[k].expired]
<1>1. \A k \in Keys : record'[k] = record[k] =>
         record'[k] = [record[k] EXCEPT !.expired = record'[k].expired]
  BY DEF IInv, TypeOK, Records
<1>2. CASE \E s \in Sessions : Succeed(s)
  BY <1>1, <1>2, SucceedIsJustified
<1>3. CASE \E s \in Sessions : CommitExpiry(s)
  <2>1. executions' = executions
    BY <1>3 DEF CommitExpiry
  <2> QED
    BY <1>1, <1>3, <2>1, ExpiryIsJustified
<1>4. CASE \E k \in Keys : Expire(k)
  <2>1. PICK k \in Keys : Expire(k)
    BY <1>4
  <2>2. record' = [record EXCEPT ![k].expired = TRUE] /\ executions' = executions
    BY <2>1 DEF Expire
  <2>3. \A x \in Keys : record'[x] = [record[x] EXCEPT !.expired = record'[x].expired]
    BY <2>2 DEF IInv, TypeOK, Records
  <2> QED
    BY <2>2, <2>3
<1>5. CASE /\ \A s \in Sessions : ~Succeed(s) /\ ~CommitExpiry(s)
           /\ \A k \in Keys : ~Expire(k)
  BY <1>1, <1>5, OtherStepsWriteNothing
<1> QED
  BY <1>2, <1>3, <1>4, <1>5

(***************************************************************************)
(* While the record of a key is valid, no request with the key is carried  *)
(* out again, however requests, retries and cleanups interleave.           *)
(***************************************************************************)
THEOREM ExecutedOnce == Spec => ExecutesOnce
<1>1. IInv /\ [Next]_vars =>
        [\A x \in executions' \ executions : ~Present(x.key) \/ record[x.key].expired]_vars
  BY StepIsJustified
<1> QED
  BY <1>1, Invariance, PTL DEF Spec, ExecutesOnce

(***************************************************************************)
(* A valid record stays as it is until it expires.                         *)
(***************************************************************************)
THEOREM ValidRecordsAreKept == Spec => ValidRecordsStay
<1>1. IInv /\ [Next]_vars =>
        [\A k \in Keys :
            Present(k) /\ ~record[k].expired
              => record'[k] = [record[k] EXCEPT !.expired = record'[k].expired]]_vars
  BY StepIsJustified
<1> QED
  BY <1>1, Invariance, PTL DEF Spec, ValidRecordsStay
=============================================================================
