------------------------------ MODULE RowLocks ------------------------------
(***************************************************************************)
(* PostgreSQL row locks as the repositories use them.  SELECT ... FOR      *)
(* UPDATE and UPDATE take a row for a transaction; COMMIT and ROLLBACK     *)
(* give back every row of the transaction at once.  A lock table maps each *)
(* row to the session that holds it, or to nobody.                         *)
(***************************************************************************)

CONSTANT Nobody        \* the holder of a row that no transaction has locked

(***************************************************************************)
(* A session may take row r: it is free, or the session has it already.    *)
(***************************************************************************)
MayLock(lock, r, s) == lock[r] \in {Nobody, s}

(***************************************************************************)
(* The lock table after session s took every row of the set rows.          *)
(***************************************************************************)
WithRows(lock, rows, s) ==
    [r \in DOMAIN lock |-> IF r \in rows THEN s ELSE lock[r]]

(***************************************************************************)
(* The lock table after the transaction of session s ended.                *)
(***************************************************************************)
WithoutSession(lock, s) ==
    [r \in DOMAIN lock |-> IF lock[r] = s THEN Nobody ELSE lock[r]]
=============================================================================
