----------------------------- MODULE DbSessions -----------------------------
(***************************************************************************)
(* What the components with transactions of their own have in common: the  *)
(* database sessions, one for each request or worker cycle that is being   *)
(* served, and the row locks they hold.                                    *)
(***************************************************************************)
EXTENDS RowLocks, Integers, FiniteSets

CONSTANT Sessions

ASSUME SessionsAssumption == Nobody \notin Sessions
=============================================================================
