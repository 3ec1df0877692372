----------------------------- MODULE PromoCodes -----------------------------
(***************************************************************************)
(* One promo code: sellers edit and deactivate it, checkouts apply it.     *)
(*                                                                         *)
(* A checkout locks the row of the code, counts the usages, works out the  *)
(* discount and commits its own usage with the order.  An edit reads the   *)
(* row without a lock, validates it with the new values in place, and its  *)
(* UPDATE, which waits for the row, writes the columns that differ from    *)
(* what it read.  Amounts are in kopecks.  The code's window of dates is   *)
(* left to chance: a checkout may be refused at any time.                  *)
(***************************************************************************)
EXTENDS DbSessions

CONSTANTS
    Customers,
    PromoRows,        \* the rows that sellers enter
    Subtotals,        \* what the selected cart items cost
    MaxPromoEdits,    \* bound: edits of the code
    MaxUsages         \* bound: checkouts with the code

(***************************************************************************)
(* A limit of 0 stands for NULL: the checks of the table keep limits > 0.  *)
(***************************************************************************)
PromoRow == [percent : BOOLEAN,         \* discount_type
             value : Nat \ {0},         \* discount_value: percents, or kopecks
             active : BOOLEAN,
             limit : Nat,               \* usage_limit
             perUser : Nat]             \* per_user_limit

ASSUME PromoAssumption ==
    /\ PromoRows \subseteq PromoRow
    /\ Subtotals \subseteq Nat
    /\ MaxPromoEdits \in Nat
    /\ MaxUsages \in Nat

VARIABLES
    promo,         \* the row, once a seller has created it
    usages,        \* coupon_usages
    bill,          \* subtotal, discount and total of the last order that used the code
    promoHolder,   \* the session that has the row locked
    promoTx,
    promoEdits

promoVars == <<promo, usages, bill, promoHolder, promoTx, promoEdits>>

(***************************************************************************)
(* Discounts                                                               *)
(***************************************************************************)
ValidDiscount(row) == row.percent => row.value <= 100

(***************************************************************************)
(* quantize(..., ROUND_HALF_UP) of a percentage, and the cap: no discount  *)
(* is larger than what it is taken from.                                   *)
(***************************************************************************)
RawDiscount(row, subtotal) ==
    IF row.percent THEN (subtotal * row.value + 50) \div 100 ELSE row.value

Discount(row, subtotal) ==
    LET raw == RawDiscount(row, subtotal)
    IN  IF raw > subtotal THEN subtotal ELSE raw

Bills == [subtotal : Nat, discount : Nat, total : Int]
Bill(subtotal, discount) ==
    [subtotal |-> subtotal, discount |-> discount, total |-> subtotal - discount]

Usage == [order : 1 .. MaxUsages, customer : Customers]

PromoTransaction ==
    [step : {"idle"}]
      \cup [step : {"checkout", "locked"}, customer : Customers, subtotal : Subtotals]
      \cup [step : {"priced"}, customer : Customers, bill : Bills]
      \cup [step : {"edit"}, seen : PromoRow, row : PromoRow]
IdlePromoTx == [step |-> "idle"]

PromoTypeOK ==
    /\ promo \in PromoRow
    /\ usages \subseteq Usage
    /\ bill \in Bills
    /\ promoHolder \in Sessions \cup {Nobody}
    /\ promoTx \in [Sessions -> PromoTransaction]
    /\ promoEdits \in 0 .. MaxPromoEdits

PromoInit ==
    /\ promo \in {row \in PromoRows : ValidDiscount(row)}
    /\ usages = {}
    /\ bill = Bill(0, 0)
    /\ promoHolder = Nobody
    /\ promoTx = [s \in Sessions |-> IdlePromoTx]
    /\ promoEdits = 0

-----------------------------------------------------------------------------
(***************************************************************************)
(* Checkouts                                                               *)
(***************************************************************************)
PromoCheckoutBegin(s, customer, subtotal) ==
    /\ promoTx[s].step = "idle"
    /\ promoTx' = [promoTx EXCEPT
         ![s] = [step |-> "checkout", customer |-> customer, subtotal |-> subtotal]]
    /\ UNCHANGED <<promo, usages, bill, promoHolder, promoEdits>>

(* Mutant: get_by_code does not lock the row. *)
ReadWithoutLock(s) == promoHolder' = promoHolder

TakePromoRow(s) == promoHolder = Nobody /\ promoHolder' = s

LockPromo(s) ==
    /\ promoTx[s].step = "checkout"
    /\ TakePromoRow(s)
    /\ promoTx' = [promoTx EXCEPT ![s].step = "locked"]
    /\ UNCHANGED <<promo, usages, bill, promoEdits>>

UsagesOf(customer) == {u \in usages : u.customer = customer}

LimitsAllow(customer) ==
    /\ promo.limit # 0 => Cardinality(usages) < promo.limit
    /\ promo.perUser # 0 => Cardinality(UsagesOf(customer)) < promo.perUser

PromoChecked(s) ==
    LET t == promoTx[s]
    IN  /\ t.step = "locked"
        /\ promo.active
        /\ LimitsAllow(t.customer)
        /\ promoTx' = [promoTx EXCEPT
             ![s] = [step |-> "priced", customer |-> t.customer,
                     bill |-> Bill(t.subtotal, Discount(promo, t.subtotal))]]
        /\ UNCHANGED <<promo, usages, bill, promoHolder, promoEdits>>

EndPromoTx(s) ==
    /\ promoTx' = [promoTx EXCEPT ![s] = IdlePromoTx]
    /\ promoHolder' = IF promoHolder = s THEN Nobody ELSE promoHolder

(***************************************************************************)
(* The usage is committed with its order, whose number is new.             *)
(***************************************************************************)
PromoCommit(s) ==
    /\ promoTx[s].step = "priced"
    /\ Cardinality(usages) < MaxUsages
    /\ usages' = usages \cup
         {[order |-> Cardinality(usages) + 1, customer |-> promoTx[s].customer]}
    /\ bill' = promoTx[s].bill
    /\ EndPromoTx(s)
    /\ UNCHANGED <<promo, promoEdits>>

(***************************************************************************)
(* The code is refused, something else of the checkout is, or the session  *)
(* is lost.                                                                *)
(***************************************************************************)
PromoRollback(s) ==
    /\ promoTx[s].step # "idle"
    /\ EndPromoTx(s)
    /\ UNCHANGED <<promo, usages, bill, promoEdits>>

-----------------------------------------------------------------------------
(***************************************************************************)
(* Sellers                                                                 *)
(***************************************************************************)
EditPromo(s, row) ==
    /\ promoTx[s].step = "idle"
    /\ promoEdits < MaxPromoEdits
    /\ row # promo
    /\ promoTx' = [promoTx EXCEPT ![s] = [step |-> "edit", seen |-> promo, row |-> row]]
    /\ promoEdits' = promoEdits + 1
    /\ UNCHANGED <<promo, usages, bill, promoHolder>>

PromoEditBegin(s, row) == ValidDiscount(row) /\ EditPromo(s, row)

PromoDeactivateBegin(s) == EditPromo(s, [promo EXCEPT !.active = FALSE])

PromoEditCommit(s) ==
    LET t == promoTx[s]
    IN  /\ t.step = "edit"
        /\ promoHolder = Nobody
        /\ promo' = [column \in DOMAIN promo |->
              IF t.row[column] # t.seen[column] THEN t.row[column] ELSE promo[column]]
        /\ EndPromoTx(s)
        /\ UNCHANGED <<usages, bill, promoEdits>>

-----------------------------------------------------------------------------
PromoNext ==
    \E s \in Sessions :
       \/ \E customer \in Customers, subtotal \in Subtotals :
             PromoCheckoutBegin(s, customer, subtotal)
       \/ LockPromo(s)
       \/ PromoChecked(s)
       \/ PromoCommit(s)
       \/ PromoRollback(s)
       \/ \E row \in PromoRows : PromoEditBegin(s, row)
       \/ PromoDeactivateBegin(s)
       \/ PromoEditCommit(s)

PromoSpec == PromoInit /\ [][PromoNext]_promoVars

-----------------------------------------------------------------------------
(***************************************************************************)
(* A checkout that commits a usage leaves no more usages than the limits   *)
(* of the row allow at that moment, in all and to the customer, whatever   *)
(* other checkouts and edits of the code ran meanwhile.                    *)
(***************************************************************************)
UsagesWithinLimits ==
    [][\A u \in usages' \ usages :
         /\ promo.limit # 0 => Cardinality(usages') <= promo.limit
         /\ promo.perUser # 0 => Cardinality(UsagesOf(u.customer)') <= promo.perUser]_promoVars

(***************************************************************************)
(* An order is given what the row of the code says when the order commits, *)
(* never more than it costs, whatever edits ran since the checkout began.  *)
(* That a row can say more than that, a percentage above 100, takes an     *)
(* edit of the type or the value that another such edit has overtaken: no  *)
(* edit that saw the row as it is makes one.                               *)
(***************************************************************************)
Excessive(row) == row.percent /\ row.value > 100
Outdated(seen) == seen.percent # promo.percent \/ seen.value # promo.value

BillsFollowTheRow ==
    [][/\ usages' # usages =>
             /\ bill'.discount = Discount(promo, bill'.subtotal)
             /\ bill'.discount <= bill'.subtotal
             /\ bill'.total = bill'.subtotal - bill'.discount
       /\ ~Excessive(promo) /\ Excessive(promo') =>
             \E s \in Sessions :
                /\ promoTx[s].step = "edit" /\ promoTx'[s].step = "idle"
                /\ Outdated(promoTx[s].seen)]_promoVars
=============================================================================
