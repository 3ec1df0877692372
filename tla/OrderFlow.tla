----------------------------- MODULE OrderFlow ------------------------------
(***************************************************************************)
(* The purchase path of the shop: the cart, checkout, the manual payment   *)
(* that reserves the stock of an order for thirty minutes, the seller's    *)
(* decisions about it, the expiration worker, the order status endpoint    *)
(* and the seller's edits of a variant.                                    *)
(*                                                                         *)
(* The variables cart, variant, order and payment are the committed rows   *)
(* of the database.  A session is a database session that serves one       *)
(* request; tx holds what its transaction has read so far, and lock the    *)
(* rows it has locked.  Nothing is visible to others before the commit.    *)
(*                                                                         *)
(* A request that a check refuses before its first write leaves no trace   *)
(* and is no step here, unless it has taken a lock that others can see.    *)
(***************************************************************************)
EXTENDS Integers, FiniteSets, Functions

CONSTANTS
    Users,           \* customers
    Variants,        \* product variants, the unit of stock
    Looks,           \* groups of cart items that came from one Look
    Sessions,        \* database sessions that can be in use at a time
    Nobody,          \* holder of an unlocked row
    NoUser,          \* the user of a request that no customer made
    InitialVariant,  \* the variant rows at the start
    EditedRows,      \* the variant rows a seller may save
    SellerStatuses,  \* the order statuses a seller may assign
    Quantities,      \* quantities a customer may add at a time
    CartChanges,     \* "quantity", "selection", "removal": changes to cart items
    MaxOrderNumber,  \* last value of order_number_seq (999999 in the code)
    MaxAdded,        \* bound: units a customer ever puts into the cart
    MaxEdits,        \* bound: saves of a variant by the seller
    MaxAborts        \* bound: transactions lost to a crash or an outage

VariantRow == [stock : Nat, reserved : Nat, active : BOOLEAN]

ASSUME QuantitiesAssumption == Quantities \subseteq Nat \ {0}
ASSUME VariantsAssumption == IsFiniteSet(Variants)
ASSUME InitialVariantAssumption ==
    /\ InitialVariant \in [Variants -> VariantRow]
    /\ \A v \in Variants : InitialVariant[v].reserved <= InitialVariant[v].stock
ASSUME EditedRowsAssumption == EditedRows \subseteq VariantRow
ASSUME BoundsAssumption ==
    /\ MaxOrderNumber \in Nat
    /\ MaxAdded \in Nat
    /\ MaxEdits \in Nat
    /\ MaxAborts \in Nat
ASSUME SellerStatusesAssumption ==
    SellerStatuses \subseteq {"NEW", "PROCESSING", "SHIPPED", "DELIVERED", "CANCELLED"}
ASSUME NobodyAssumption == Nobody \notin Sessions
ASSUME NoUserAssumption == NoUser \notin Users

VARIABLES
    cart,      \* cart items of each user
    variant,   \* committed row of each product variant
    orderSeq,  \* last order number given out; a rollback does not return it
    order,     \* committed row of each order number
    payment,   \* committed manual payment of each order
    lock,      \* the session that holds each row
    tx,        \* the request each session is serving
    worklist,  \* ids the expiration worker found due and has not visited yet
    added,     \* history: units each user ever put into the cart
    edits,     \* saves of a variant so far
    aborts     \* lost transactions so far

vars == <<cart, variant, orderSeq, order, payment, lock, tx, worklist,
          added, edits, aborts>>

shopRows == <<cart, variant, orderSeq, order, payment>>
bounds == <<added, edits, aborts>>

Orders == 1 .. MaxOrderNumber

CartRow(u) == <<"cart", u>>
VariantLock(v) == <<"variant", v>>
OrderRow(o) == <<"order", o>>
PaymentRow(o) == <<"payment", o>>
Rows == {CartRow(u) : u \in Users} \cup {VariantLock(v) : v \in Variants}
          \cup {OrderRow(o) : o \in Orders} \cup {PaymentRow(o) : o \in Orders}

Locks == INSTANCE RowLocks

-----------------------------------------------------------------------------
(***************************************************************************)
(* Rows                                                                    *)
(***************************************************************************)
Normal == "normal"     \* source group of an item added by itself

CartItem == [group : Looks \cup {Normal}, variant : Variants, qty : Nat \ {0},
             selected : BOOLEAN]

OrderStatuses == {"NEW", "PROCESSING", "SHIPPED", "DELIVERED", "CANCELLED"}
OrderRecord == [status : OrderStatuses \cup {"absent"},
                user : Users \cup {NoUser},
                items : SUBSET CartItem,
                delivered : BOOLEAN]       \* delivered_at is set

ActivePaymentStatuses == {"PENDING", "SUBMITTED"}
SettledPaymentStatuses == {"APPROVED", "REJECTED", "EXPIRED"}
PaymentStatuses == ActivePaymentStatuses \cup SettledPaymentStatuses
PaymentRecord == [status : PaymentStatuses \cup {"absent"},
                  due : BOOLEAN,           \* expires_at <= now
                  released : BOOLEAN]      \* stock_released_at is set

AbsentOrder ==
    [status |-> "absent", user |-> NoUser, items |-> {}, delivered |-> FALSE]
AbsentPayment == [status |-> "absent", due |-> FALSE, released |-> FALSE]

Placed(o) == order[o].status # "absent"
PaymentActive(o) == payment[o].status \in ActivePaymentStatuses

(* Mutant: the columns have no CHECK constraint. *)
RowAlwaysLegal(row) == TRUE

(***************************************************************************)
(* The CHECK constraints of product_variants, evaluated on the row that an *)
(* UPDATE leaves.                                                          *)
(***************************************************************************)
RowLegal(row) ==
    /\ row.stock \in Nat
    /\ row.reserved \in Nat
    /\ row.reserved <= row.stock

Available(row) == row.stock - row.reserved

(***************************************************************************)
(* Units of variant v among a set of cart items or order items.            *)
(***************************************************************************)
Units(items, v) ==
    SumFunction([i \in items |-> IF i.variant = v THEN i.qty ELSE 0])

-----------------------------------------------------------------------------
(***************************************************************************)
(* Transactions.  step says how far the request is; the fields that its    *)
(* kind does not use keep their value of IdleTx.                           *)
(***************************************************************************)
PaymentRequests == {"submit", "approve", "reject", "expire"}
Kinds == {"idle", "checkout", "admin", "edit"} \cup PaymentRequests
Steps == {"idle", "variants", "write", "order", "payment"}

NoRow == [stock |-> 0, reserved |-> 0, active |-> FALSE]
NoRows == [v \in Variants |-> NoRow]

Transaction ==
    [kind : Kinds,
     step : Steps,
     user : Users \cup {NoUser},           \* checkout
     order : Orders \cup {0},
     items : SUBSET CartItem,              \* checkout: the items it read
     need : SUBSET Variants,               \* variant rows still to be locked
     seen : [Variants -> VariantRow],      \* variant rows as this session read them
     was : OrderStatuses \cup {"absent"},  \* order status as this session read it
     target : OrderStatuses \cup PaymentStatuses \cup {"absent"},
     row : VariantRow]                     \* edit: the row the seller saves

IdleTx ==
    [kind |-> "idle", step |-> "idle", user |-> NoUser, order |-> 0,
     items |-> {}, need |-> {}, seen |-> NoRows, was |-> "absent",
     target |-> "absent", row |-> NoRow]

Busy(s) == tx[s].kind # "idle"

(* Mutant: the session goes back to the pool with its transaction open. *)
EndWithoutUnlock(s) ==
    /\ tx' = [tx EXCEPT ![s] = IdleTx]
    /\ UNCHANGED lock

(***************************************************************************)
(* The transaction of session s ends: its locks are given back and the     *)
(* session returns to the pool.                                            *)
(***************************************************************************)
EndTx(s) ==
    /\ tx' = [tx EXCEPT ![s] = IdleTx]
    /\ lock' = Locks!WithoutSession(lock, s)

Rollback(s) == EndTx(s) /\ UNCHANGED <<cart, variant, order, payment, worklist, added, edits>>

TypeOK ==
    /\ cart \in [Users -> SUBSET CartItem]
    /\ variant \in [Variants -> VariantRow]
    /\ orderSeq \in 0 .. MaxOrderNumber
    /\ order \in [Orders -> OrderRecord]
    /\ payment \in [Orders -> PaymentRecord]
    /\ lock \in [Rows -> Sessions \cup {Nobody}]
    /\ tx \in [Sessions -> Transaction]
    /\ worklist \subseteq Orders
    /\ added \in [Users -> Nat]
    /\ edits \in 0 .. MaxEdits
    /\ aborts \in 0 .. MaxAborts

Init ==
    /\ cart = [u \in Users |-> {}]
    /\ variant = InitialVariant
    /\ orderSeq = 0
    /\ order = [o \in Orders |-> AbsentOrder]
    /\ payment = [o \in Orders |-> AbsentPayment]
    /\ lock = [r \in Rows |-> Nobody]
    /\ tx = [s \in Sessions |-> IdleTx]
    /\ worklist = {}
    /\ added = [u \in Users |-> 0]
    /\ edits = 0
    /\ aborts = 0

-----------------------------------------------------------------------------
(***************************************************************************)
(* Cart.  The service checks the units of the variant in the whole cart    *)
(* against an unlocked read of the row.  It does not lock the cart row,    *)
(* but inserting an item makes PostgreSQL take a key-share lock on the     *)
(* cart through the foreign key, so an insertion waits for a checkout.     *)
(***************************************************************************)
InsertItems(u, items) ==
    /\ lock[CartRow(u)] = Nobody
    /\ cart' = [cart EXCEPT ![u] = @ \cup items]

GrowItem(u, i, q) ==
    cart' = [cart EXCEPT ![u] = (@ \ {i}) \cup {[i EXCEPT !.qty = @ + q, !.selected = TRUE]}]

AddItem(u, v, q) ==
    /\ variant[v].active
    /\ Units(cart[u], v) + q <= Available(variant[v])
    /\ added[u] + q <= MaxAdded
    /\ \/ /\ \A i \in cart[u] : ~(i.group = Normal /\ i.variant = v)
          /\ InsertItems(u, {[group |-> Normal, variant |-> v, qty |-> q, selected |-> TRUE]})
       \/ \E i \in cart[u] :
             /\ i.group = Normal /\ i.variant = v
             /\ GrowItem(u, i, q)
    /\ added' = [added EXCEPT ![u] = @ + q]
    /\ UNCHANGED <<variant, orderSeq, order, payment, lock, tx, worklist,
                   edits, aborts>>

(***************************************************************************)
(* A Look puts one item for each chosen variant into the cart, in a group  *)
(* of its own that is never merged with other items of the variant.        *)
(***************************************************************************)
AddLook(u, g, vs, q) ==
    /\ vs # {}
    /\ \A i \in cart[u] : i.group # g
    /\ \A v \in vs : /\ variant[v].active
                     /\ Units(cart[u], v) + q <= Available(variant[v])
    /\ added[u] + q * Cardinality(vs) <= MaxAdded
    /\ InsertItems(u, {[group |-> g, variant |-> v, qty |-> q, selected |-> TRUE] : v \in vs})
    /\ added' = [added EXCEPT ![u] = @ + q * Cardinality(vs)]
    /\ UNCHANGED <<variant, orderSeq, order, payment, lock, tx, worklist,
                   edits, aborts>>

(***************************************************************************)
(* The changes to items that are in the cart.  They insert nothing, so     *)
(* they wait for nobody: a checkout that has read the items goes on with   *)
(* what it read.  A change that leaves the items as they are is no step.   *)
(***************************************************************************)
ChangeQuantity(u, i, q) ==
    /\ "quantity" \in CartChanges
    /\ q # i.qty
    /\ variant[i.variant].active
    /\ Units(cart[u] \ {i}, i.variant) + q <= Available(variant[i.variant])
    /\ LET more == IF q > i.qty THEN q - i.qty ELSE 0
       IN  /\ added[u] + more <= MaxAdded
           /\ added' = [added EXCEPT ![u] = @ + more]
    /\ cart' = [cart EXCEPT ![u] = (@ \ {i}) \cup {[i EXCEPT !.qty = q]}]
    /\ UNCHANGED <<variant, orderSeq, order, payment, lock, tx, worklist,
                   edits, aborts>>

SelectItems(u, items, selected) ==
    /\ "selection" \in CartChanges
    /\ items # {} /\ \A i \in items : i.selected # selected
    /\ cart' = [cart EXCEPT ![u] = (@ \ items) \cup {[i EXCEPT !.selected = selected] : i \in items}]
    /\ UNCHANGED <<variant, orderSeq, order, payment, lock, tx, worklist, bounds>>

(***************************************************************************)
(* One item is removed, or all of them.                                    *)
(***************************************************************************)
RemoveItems(u, items) ==
    /\ "removal" \in CartChanges
    /\ items # {}
    /\ items = cart[u] \/ Cardinality(items) = 1
    /\ cart' = [cart EXCEPT ![u] = @ \ items]
    /\ UNCHANGED <<variant, orderSeq, order, payment, lock, tx, worklist, bounds>>

-----------------------------------------------------------------------------
(***************************************************************************)
(* Row locks of several variants.  The SELECT ... FOR UPDATE of            *)
(* lock_variants_by_ids has no ORDER BY: the plan decides in which order   *)
(* it takes the rows, and it waits for each row that another session has.  *)
(* It returns the rows, but an object that the session has loaded before   *)
(* keeps the attributes it had: seen does not change.                      *)
(***************************************************************************)
LockVariant(s, v) ==
    /\ tx[s].step = "variants"
    /\ v \in tx[s].need
    /\ lock[VariantLock(v)] = Nobody
    /\ lock' = Locks!WithRows(lock, {VariantLock(v)}, s)
    /\ tx' = [tx EXCEPT ![s].need = @ \ {v}]
    /\ UNCHANGED <<shopRows, worklist, bounds>>

HasVariantLocks(s) == tx[s].step = "variants" /\ tx[s].need = {}

-----------------------------------------------------------------------------
(***************************************************************************)
(* Checkout                                                                *)
(*                                                                         *)
(* get_cart_for_checkout locks the cart row and then loads its items and,  *)
(* without a lock, the variant rows of the items.  The selected ones are   *)
(* bought.                                                                 *)
(***************************************************************************)
VariantsOf(items) == {i.variant : i \in items}
Selected(items) == {i \in items : i.selected}

CheckoutOf(u) ==
    LET items == Selected(cart[u])
    IN  [IdleTx EXCEPT
            !.kind = "checkout",
            !.step = "variants",
            !.user = u,
            !.items = items,
            !.need = VariantsOf(items),
            !.seen = [v \in Variants |->
                        IF v \in VariantsOf(cart[u]) THEN variant[v] ELSE NoRow]]

(* Mutant: the cart is read without FOR UPDATE. *)
CheckoutBeginUnlocked(s, u) ==
    /\ ~Busy(s)
    /\ Selected(cart[u]) # {}
    /\ tx' = [tx EXCEPT ![s] = CheckoutOf(u)]
    /\ UNCHANGED <<shopRows, lock, worklist, bounds>>

CheckoutBegin(s, u) ==
    /\ ~Busy(s)
    /\ Selected(cart[u]) # {}
    /\ lock[CartRow(u)] = Nobody
    /\ lock' = Locks!WithRows(lock, {CartRow(u)}, s)
    /\ tx' = [tx EXCEPT ![s] = CheckoutOf(u)]
    /\ UNCHANGED <<shopRows, worklist, bounds>>

(***************************************************************************)
(* _validate_checkout_items: each item by itself, on the rows as the       *)
(* session knows them.                                                     *)
(***************************************************************************)
Sellable(items, seen) ==
    \A i \in items : /\ seen[i.variant].active
                     /\ i.qty <= Available(seen[i.variant])

CheckoutRefused(s) ==
    /\ tx[s].kind = "checkout"
    /\ HasVariantLocks(s)
    /\ \/ ~Sellable(tx[s].items, tx[s].seen)
       \/ orderSeq = MaxOrderNumber
    /\ Rollback(s)
    /\ UNCHANGED <<orderSeq, aborts>>

(* Mutant: nobody looks whether the sequence is exhausted. *)
CheckoutNumberUnchecked(s) ==
    /\ tx[s].kind = "checkout"
    /\ HasVariantLocks(s)
    /\ Sellable(tx[s].items, tx[s].seen)
    /\ orderSeq' = orderSeq + 1
    /\ tx' = [tx EXCEPT ![s].step = "write", ![s].order = orderSeq + 1]
    /\ UNCHANGED <<cart, variant, order, payment, lock, worklist, bounds>>

CheckoutNumber(s) ==
    /\ tx[s].kind = "checkout"
    /\ HasVariantLocks(s)
    /\ Sellable(tx[s].items, tx[s].seen)
    /\ orderSeq < MaxOrderNumber
    /\ orderSeq' = orderSeq + 1
    /\ tx' = [tx EXCEPT ![s].step = "write", ![s].order = orderSeq + 1]
    /\ UNCHANGED <<cart, variant, order, payment, lock, worklist, bounds>>

(* Mutant: one cart item of the variant is taken from stock, not all. *)
RowAfterSaleOfOne(s, v) ==
    LET i == CHOOSE i \in tx[s].items : i.variant = v
    IN  [variant[v] EXCEPT !.stock = tx[s].seen[v].stock - i.qty]

(***************************************************************************)
(* The row that the checkout leaves of variant v: the UPDATE writes the    *)
(* stock computed from the row as the session knows it, and nothing else.  *)
(***************************************************************************)
RowAfterSale(s, v) ==
    [variant[v] EXCEPT !.stock = tx[s].seen[v].stock - Units(tx[s].items, v)]

SaleLegal(s) == \A v \in VariantsOf(tx[s].items) : RowLegal(RowAfterSale(s, v))

(***************************************************************************)
(* A cart item is deleted by its id, whatever its quantity is by now.      *)
(***************************************************************************)
WithoutItems(items, taken) ==
    {i \in items : \A j \in taken : <<i.group, i.variant>> # <<j.group, j.variant>>}

CheckoutCommit(s) ==
    LET o == tx[s].order
        u == tx[s].user
    IN  /\ tx[s].kind = "checkout"
        /\ tx[s].step = "write"
        /\ SaleLegal(s)
        /\ variant' = [v \in Variants |->
                         IF v \in VariantsOf(tx[s].items)
                         THEN RowAfterSale(s, v) ELSE variant[v]]
        /\ order' = [order EXCEPT ![o] =
                       [status |-> "NEW", user |-> u, items |-> tx[s].items,
                        delivered |-> FALSE]]
        /\ payment' = [payment EXCEPT ![o] =
                         [status |-> "PENDING", due |-> FALSE, released |-> FALSE]]
        /\ cart' = [cart EXCEPT ![u] = WithoutItems(@, tx[s].items)]
        /\ EndTx(s)
        /\ UNCHANGED <<orderSeq, worklist, bounds>>

(***************************************************************************)
(* The flush violates a CHECK constraint: IntegrityError, 409.             *)
(***************************************************************************)
CheckoutConflict(s) ==
    /\ tx[s].kind = "checkout"
    /\ tx[s].step = "write"
    /\ ~SaleLegal(s)
    /\ Rollback(s)
    /\ UNCHANGED <<orderSeq, aborts>>

-----------------------------------------------------------------------------
(* Mutant: approve does not look at the status of the payment. *)
PaymentOutcomeUnchecked(kind, p) ==
    CASE p.status = "absent"                                        -> "absent"
      [] kind = "approve" /\ p.status # "absent"                    -> "APPROVED"
      [] kind # "approve" /\ p.status \in ActivePaymentStatuses /\ p.due -> "EXPIRED"
      [] kind = "reject" /\ p.status \in ActivePaymentStatuses /\ ~p.due -> "REJECTED"
      [] OTHER                                                      -> "absent"

(***************************************************************************)
(* Manual payment: submit (customer), approve and reject (seller), expire  *)
(* (worker).  Each locks the payment row and reads it, and the order, only *)
(* after it has the lock.  Every request first expires a payment that is   *)
(* due.  PaymentOutcome is the status that a request will write, or        *)
(* "absent" when it returns or answers 409 without a write.                *)
(***************************************************************************)
PaymentOutcome(kind, p) ==
    CASE p.status \notin ActivePaymentStatuses           -> "absent"
      [] p.status \in ActivePaymentStatuses /\ p.due     -> "EXPIRED"
      [] p.status \in ActivePaymentStatuses /\ ~p.due    ->
            CASE kind = "approve"                             -> "APPROVED"
              [] kind = "reject"                              -> "REJECTED"
              [] kind = "submit" /\ p.status = "PENDING"      -> "SUBMITTED"
              [] OTHER                                        -> "absent"

ReleasesStock(status) == status \in {"REJECTED", "EXPIRED"}

OrderStatusAfter(status) ==
    IF status = "APPROVED" THEN "PROCESSING" ELSE "CANCELLED"

(* Mutant: the payment is read without FOR UPDATE. *)
RowsOfRequestUnlocked(kind, o) == {}

(***************************************************************************)
(* submit selects the payment joined with its order, FOR UPDATE of both.   *)
(***************************************************************************)
RowsOfRequest(kind, o) ==
    IF kind = "submit" THEN {PaymentRow(o), OrderRow(o)} ELSE {PaymentRow(o)}

PaymentBegin(s, kind, o) ==
    /\ ~Busy(s)
    /\ \A r \in RowsOfRequest(kind, o) : lock[r] = Nobody
    /\ PaymentOutcome(kind, payment[o]) # "absent"
    /\ lock' = Locks!WithRows(lock, RowsOfRequest(kind, o), s)
    /\ tx' = [tx EXCEPT ![s] =
                [IdleTx EXCEPT
                    !.kind = kind,
                    !.order = o,
                    !.was = order[o].status,
                    !.target = PaymentOutcome(kind, payment[o]),
                    !.step = IF PaymentOutcome(kind, payment[o]) = "SUBMITTED"
                             THEN "variants" ELSE "order"]]
    /\ UNCHANGED <<shopRows, bounds>>

PaymentRequest(s, kind, o) ==
    /\ kind # "expire"
    /\ PaymentBegin(s, kind, o)
    /\ UNCHANGED worklist

(***************************************************************************)
(* The next query of the handler flushes the UPDATE of the payment and of  *)
(* the order, which waits for the row of the order.  Then the handler      *)
(* locks the variants of the order, if it has to release them.             *)
(***************************************************************************)
FlushOrder(s) ==
    LET o == tx[s].order
    IN  /\ tx[s].step = "order"
        /\ tx[s].kind \in PaymentRequests
        /\ Locks!MayLock(lock, OrderRow(o), s)
        /\ lock' = Locks!WithRows(lock, {OrderRow(o)}, s)
        /\ tx' = [tx EXCEPT
                    ![s].step = "variants",
                    ![s].need = IF ReleasesStock(tx[s].target) /\ ~payment[o].released
                                THEN VariantsOf(order[o].items) ELSE {}]
        /\ UNCHANGED <<shopRows, worklist, bounds>>

RowAfterRelease(o, v) ==
    [variant[v] EXCEPT !.stock = @ + Units(order[o].items, v)]

ReleaseStock(o) ==
    /\ \A v \in VariantsOf(order[o].items) : RowLegal(RowAfterRelease(o, v))
    /\ variant' = [v \in Variants |->
                     IF v \in VariantsOf(order[o].items)
                     THEN RowAfterRelease(o, v) ELSE variant[v]]

PaymentCommit(s) ==
    LET o == tx[s].order
        target == tx[s].target
        releases == ReleasesStock(target) /\ ~payment[o].released
        after == OrderStatusAfter(target)
    IN  /\ tx[s].kind \in PaymentRequests
        /\ HasVariantLocks(s)
        /\ payment' = [payment EXCEPT ![o] =
                         [payment[o] EXCEPT
                            !.status = target,
                            !.released = payment[o].released \/ ReleasesStock(target)]]
        /\ order' = IF target # "SUBMITTED" /\ after # tx[s].was
                    THEN [order EXCEPT ![o].status = after] ELSE order
        /\ IF releases THEN ReleaseStock(o) ELSE UNCHANGED variant
        /\ EndTx(s)
        /\ UNCHANGED <<cart, orderSeq, worklist, bounds>>

(***************************************************************************)
(* Half an hour passes: the payment is due from now on.                    *)
(***************************************************************************)
TimePasses(o) ==
    /\ PaymentActive(o)
    /\ ~payment[o].due
    /\ payment' = [payment EXCEPT ![o].due = TRUE]
    /\ UNCHANGED <<cart, variant, orderSeq, order, lock, tx, worklist, bounds>>

(***************************************************************************)
(* The expiration worker lists the due payments without a lock and closes  *)
(* that session.  It then visits each id in a session of its own, which    *)
(* looks at the payment again once it has the lock.                        *)
(***************************************************************************)
(* Mutant: the worker looks for pending payments only. *)
DuePendingPayments == {o \in Orders : payment[o].status = "PENDING" /\ payment[o].due}

DuePayments == {o \in Orders : PaymentActive(o) /\ payment[o].due}

WorkerPoll ==
    /\ worklist = {}
    /\ DuePayments # {}
    /\ worklist' = DuePayments
    /\ UNCHANGED <<shopRows, lock, tx, bounds>>

WorkerVisit(s, o) ==
    /\ o \in worklist
    /\ worklist' = worklist \ {o}
    /\ \/ PaymentBegin(s, "expire", o)
       \/ /\ ~Busy(s)
          /\ lock[PaymentRow(o)] = Nobody
          /\ PaymentOutcome("expire", payment[o]) = "absent"
          /\ UNCHANGED <<shopRows, lock, tx, bounds>>

-----------------------------------------------------------------------------
(***************************************************************************)
(* The order status endpoint locks the order row, then loads the payment   *)
(* with a further query that takes no lock.  Any status may follow any     *)
(* other, unless the payment is still active.                              *)
(***************************************************************************)
AdminBegin(s, o, status) ==
    /\ ~Busy(s)
    /\ Placed(o)
    /\ order[o].status # status
    /\ lock[OrderRow(o)] = Nobody
    /\ lock' = Locks!WithRows(lock, {OrderRow(o)}, s)
    /\ tx' = [tx EXCEPT ![s] = [IdleTx EXCEPT !.kind = "admin",
                                              !.step = "payment",
                                              !.order = o,
                                              !.was = order[o].status,
                                              !.target = status]]
    /\ UNCHANGED <<shopRows, worklist, bounds>>

AdminRefused(s) ==
    /\ tx[s].kind = "admin"
    /\ tx[s].step = "payment"
    /\ PaymentActive(tx[s].order)
    /\ Rollback(s)
    /\ UNCHANGED <<orderSeq, aborts>>

(* Mutant: the endpoint does not look at the payment. *)
AdminIgnoresPayment(s) ==
    /\ tx[s].kind = "admin"
    /\ tx[s].step = "payment"
    /\ tx' = [tx EXCEPT ![s].step = "write"]
    /\ UNCHANGED <<shopRows, lock, worklist, bounds>>

(* Mutant: the endpoint takes a submitted payment for a settled one. *)
AdminMissesSubmitted(s) ==
    /\ tx[s].kind = "admin"
    /\ tx[s].step = "payment"
    /\ payment[tx[s].order].status # "PENDING"
    /\ tx' = [tx EXCEPT ![s].step = "write"]
    /\ UNCHANGED <<shopRows, lock, worklist, bounds>>

AdminReadsPayment(s) ==
    /\ tx[s].kind = "admin"
    /\ tx[s].step = "payment"
    /\ ~PaymentActive(tx[s].order)
    /\ tx' = [tx EXCEPT ![s].step = "write"]
    /\ UNCHANGED <<shopRows, lock, worklist, bounds>>

AdminCommit(s) ==
    /\ tx[s].kind = "admin"
    /\ tx[s].step = "write"
    /\ LET o == tx[s].order
           target == tx[s].target
       IN  order' = [order EXCEPT ![o] =
                       [order[o] EXCEPT
                          !.status = target,
                          !.delivered = order[o].delivered \/ target = "DELIVERED"]]
    /\ EndTx(s)
    /\ UNCHANGED <<cart, variant, orderSeq, payment, worklist, bounds>>

-----------------------------------------------------------------------------
(***************************************************************************)
(* The seller saves a variant.  The service reads the row without a lock,  *)
(* checks the new quantities, and its UPDATE, which waits for the row,     *)
(* writes the columns whose new value differs from the value it read.      *)
(***************************************************************************)
EditBegin(s, v, row) ==
    /\ ~Busy(s)
    /\ edits < MaxEdits
    /\ row # variant[v]
    /\ row.reserved <= row.stock
    /\ edits' = edits + 1
    /\ tx' = [tx EXCEPT ![s] =
                [IdleTx EXCEPT
                    !.kind = "edit",
                    !.step = "write",
                    !.need = {v},
                    !.seen = [w \in Variants |-> IF w = v THEN variant[v] ELSE NoRow],
                    !.row = row]]
    /\ UNCHANGED <<shopRows, lock, worklist, added, aborts>>

Changed(read, new, current) == IF new = read THEN current ELSE new

(* Mutant: the save writes every column, whether the seller changed it or not. *)
RowAfterWholeSave(s, v) == tx[s].row

RowAfterEdit(s, v) ==
    [stock |-> Changed(tx[s].seen[v].stock, tx[s].row.stock, variant[v].stock),
     reserved |-> Changed(tx[s].seen[v].reserved, tx[s].row.reserved, variant[v].reserved),
     active |-> Changed(tx[s].seen[v].active, tx[s].row.active, variant[v].active)]

EditCommit(s, v) ==
    /\ tx[s].kind = "edit"
    /\ v \in tx[s].need
    /\ lock[VariantLock(v)] = Nobody
    /\ RowLegal(RowAfterEdit(s, v))
    /\ variant' = [variant EXCEPT ![v] = RowAfterEdit(s, v)]
    /\ EndTx(s)
    /\ UNCHANGED <<cart, orderSeq, order, payment, worklist, bounds>>

EditConflict(s, v) ==
    /\ tx[s].kind = "edit"
    /\ v \in tx[s].need
    /\ lock[VariantLock(v)] = Nobody
    /\ ~RowLegal(RowAfterEdit(s, v))
    /\ Rollback(s)
    /\ UNCHANGED <<orderSeq, aborts>>

-----------------------------------------------------------------------------
(***************************************************************************)
(* Failures.  A transaction can be lost at any moment: the process dies,   *)
(* the connection breaks, a statement times out.  PostgreSQL aborts one of *)
(* the transactions that wait for each other in a circle.                  *)
(***************************************************************************)
Abort(s) ==
    /\ Busy(s)
    /\ aborts < MaxAborts
    /\ aborts' = aborts + 1
    /\ EndTx(s)
    /\ UNCHANGED <<shopRows, worklist, added, edits>>

WorkerRestart ==
    /\ worklist # {}
    /\ aborts < MaxAborts
    /\ aborts' = aborts + 1
    /\ worklist' = {}
    /\ UNCHANGED <<shopRows, lock, tx, added, edits>>

Deadlocked(s) ==
    \E circle \in SUBSET Sessions :
       /\ s \in circle
       /\ \A t \in circle :
             /\ tx[t].step = "variants"
             /\ tx[t].need # {}
             /\ \A v \in tx[t].need : lock[VariantLock(v)] \in circle \ {t}

DeadlockVictim(s) ==
    /\ Deadlocked(s)
    /\ Rollback(s)
    /\ UNCHANGED <<orderSeq, aborts>>

-----------------------------------------------------------------------------
CartStep ==
    \E u \in Users, q \in Quantities :
       \/ \E v \in Variants : AddItem(u, v, q)
       \/ \E g \in Looks, vs \in SUBSET Variants : AddLook(u, g, vs, q)
       \/ \E i \in cart[u] : ChangeQuantity(u, i, q)
       \/ \E items \in SUBSET cart[u] :
             \/ \E selected \in BOOLEAN : SelectItems(u, items, selected)
             \/ RemoveItems(u, items)

CheckoutStep(s) ==
    \/ \E u \in Users : CheckoutBegin(s, u)
    \/ CheckoutRefused(s)
    \/ CheckoutNumber(s)
    \/ CheckoutCommit(s)
    \/ CheckoutConflict(s)

PaymentStep(s) ==
    \/ \E o \in Orders, kind \in PaymentRequests : PaymentRequest(s, kind, o)
    \/ FlushOrder(s)
    \/ PaymentCommit(s)

AdminStep(s) ==
    \/ \E o \in Orders, status \in SellerStatuses : AdminBegin(s, o, status)
    \/ AdminRefused(s)
    \/ AdminReadsPayment(s)
    \/ AdminCommit(s)

EditStep(s) ==
    \E v \in Variants :
       \/ \E row \in EditedRows : EditBegin(s, v, row)
       \/ EditCommit(s, v)
       \/ EditConflict(s, v)

SessionStep(s) ==
    \/ CheckoutStep(s)
    \/ PaymentStep(s)
    \/ AdminStep(s)
    \/ EditStep(s)
    \/ \E v \in Variants : LockVariant(s, v)
    \/ \E o \in Orders : WorkerVisit(s, o)
    \/ Abort(s)
    \/ DeadlockVictim(s)

Next ==
    \/ CartStep
    \/ \E s \in Sessions : SessionStep(s)
    \/ \E o \in Orders : TimePasses(o)
    \/ WorkerPoll
    \/ WorkerRestart

Spec == Init /\ [][Next]_vars

(***************************************************************************)
(* Fairness.  A handler that can go on does; one that waits for a row gets *)
(* it in the end, because PostgreSQL queues the waiters of a row; time     *)
(* passes; the worker polls for ever and visits what it listed.  Nothing   *)
(* says that a customer or a seller ever acts, or that nothing fails.      *)
(***************************************************************************)
WorkerFairness ==
    /\ WF_vars(WorkerPoll)
    /\ \A o \in Orders : /\ WF_vars(TimePasses(o))
                         /\ SF_vars(\E s \in Sessions : WorkerVisit(s, o))

RequestFairness ==
    \A s \in Sessions :
       /\ SF_vars(\E v \in Variants : LockVariant(s, v))
       /\ SF_vars(FlushOrder(s))
       /\ SF_vars(\E v \in Variants : EditCommit(s, v) \/ EditConflict(s, v))
       /\ WF_vars(\/ CheckoutRefused(s) \/ CheckoutNumber(s)
                  \/ CheckoutCommit(s) \/ CheckoutConflict(s)
                  \/ PaymentCommit(s)
                  \/ AdminRefused(s) \/ AdminReadsPayment(s) \/ AdminCommit(s)
                  \/ DeadlockVictim(s))

FairSpec == Spec /\ WorkerFairness /\ RequestFairness

-----------------------------------------------------------------------------
(***************************************************************************)
(* Safety                                                                  *)
(***************************************************************************)
(***************************************************************************)
(* The units of an order go back to stock exactly when its payment fails:  *)
(* stock_released_at is set on the rejected and expired payments and on no *)
(* other, however reject, approve, the worker and the expiry check of the  *)
(* other handlers race for the payment row.                                *)
(***************************************************************************)
ReleasedExactlyOnFailure ==
    \A o \in Orders : payment[o].released <=> ReleasesStock(payment[o].status)

(***************************************************************************)
(* Until its payment is settled an order stays NEW: the status endpoint,   *)
(* which reads the payment without a lock, never moves an order whose      *)
(* payment a seller or the worker is about to settle.                      *)
(***************************************************************************)
ActivePaymentKeepsOrderNew ==
    \A o \in Orders : PaymentActive(o) => order[o].status = "NEW"

(***************************************************************************)
(* What a customer bought and what is still in the cart never exceed what  *)
(* the customer put into the cart: two checkouts of one cart at the same   *)
(* time (a double tap) do not both buy its items.                          *)
(***************************************************************************)
UnitsOf(items) == SumFunction([i \in items |-> i.qty])

BoughtBy(u) ==
    SumFunction([o \in Orders |->
                   IF order[o].user = u THEN UnitsOf(order[o].items) ELSE 0])

NothingBoughtTwice ==
    \A u \in Users : BoughtBy(u) + UnitsOf(cart[u]) <= added[u]

(***************************************************************************)
(* A settled payment is final: no late approval of an expired payment, no  *)
(* expiry of an approved one, no second decision.                          *)
(***************************************************************************)
SettledPaymentIsFinal ==
    [][\A o \in Orders : payment[o].status \in SettledPaymentStatuses
                           => payment'[o].status = payment[o].status]_vars

(***************************************************************************)
(* The status of an order changes only together with its payment, or after *)
(* the payment is settled.                                                 *)
(***************************************************************************)
StatusFollowsPayment ==
    [][\A o \in Orders :
         Placed(o) /\ order'[o].status # order[o].status
           => \/ payment'[o].status # payment[o].status
              \/ ~PaymentActive(o)]_vars

-----------------------------------------------------------------------------
(***************************************************************************)
(* Stock                                                                   *)
(***************************************************************************)
Held(v) ==
    SumFunction([o \in Orders |->
                   IF payment[o].released THEN 0 ELSE Units(order[o].items, v)])

(***************************************************************************)
(* Session s is about to commit a checkout that computes the stock of v    *)
(* from a row that is no longer the committed one.                         *)
(***************************************************************************)
StaleSale(s, v) ==
    /\ tx[s].kind = "checkout"
    /\ tx[s].step = "write"
    /\ v \in VariantsOf(tx[s].items)
    /\ tx[s].seen[v].stock # variant[v].stock

(***************************************************************************)
(* Session s is about to save a variant for which the seller entered a new *)
(* stock.                                                                  *)
(***************************************************************************)
EntersCount(s, v) ==
    /\ tx[s].kind = "edit"
    /\ v \in tx[s].need
    /\ tx[s].row.stock # tx[s].seen[v].stock

(***************************************************************************)
(* What other transactions have taken from the row since session s read    *)
(* it: units that appear again, or, if they gave some back, are lost, when *)
(* s writes a stock that it worked out from what it read.                  *)
(***************************************************************************)
Overwritten(s, v) == tx[s].seen[v].stock - variant[v].stock

Books(v) == variant[v].stock + Held(v)

(***************************************************************************)
(* Units in stock and units held by orders keep their sum in every step    *)
(* but two: the seller enters a new count, which changes the sum by what   *)
(* the seller saw and changed, and a checkout or such a save writes over a *)
(* change that was made after it read, which changes the sum by that much. *)
(* Releases, sales in any other order, saves of other columns, refusals    *)
(* and failures lose no unit, however old the row is that they read.       *)
(***************************************************************************)
OnlyStaleSalesLoseUnits ==
    [][\A v \in Variants :
         Books(v)' # Books(v)
           => \E s \in Sessions :
                 /\ ~Busy(s)'
                 /\ \/ /\ StaleSale(s, v)
                       /\ Books(v)' = Books(v) + Overwritten(s, v)
                    \/ /\ EntersCount(s, v)
                       /\ Books(v)' = Books(v) + (tx[s].row.stock - tx[s].seen[v].stock)
                                               + Overwritten(s, v)]_vars

(***************************************************************************)
(* A checkout sells no more than what is available when it commits, after  *)
(* the units of one variant are added up over all items of the cart.       *)
(***************************************************************************)
SellsOnlyAvailable ==
    [][\A o \in Orders :
         ~Placed(o) /\ Placed(o)'
           => \A v \in Variants :
                 Units(order'[o].items, v) <= Available(variant[v])]_vars

-----------------------------------------------------------------------------
(***************************************************************************)
(* Liveness                                                                *)
(***************************************************************************)
(***************************************************************************)
(* A payment nobody decides about does not hold its stock for ever: the    *)
(* worker expires it even if handlers and workers fail now and then.  The  *)
(* order has one variant: with more, the worker may be the victim of a     *)
(* deadlock with a new checkout each time it comes back.                   *)
(***************************************************************************)
OneVariant(o) == Cardinality(VariantsOf(order[o].items)) = 1

PaymentsSettle ==
    \A o \in Orders : PaymentActive(o) /\ OneVariant(o) ~> ~PaymentActive(o)

(***************************************************************************)
(* Every request gets its answer: no set of handlers waits for ever for    *)
(* each other's rows.                                                      *)
(***************************************************************************)
RequestsEnd == \A s \in Sessions : Busy(s) ~> ~Busy(s)

-----------------------------------------------------------------------------
(***************************************************************************)
(* Refinement.  With one transaction at a time the purchase path is the    *)
(* ledger of StockLedger: a checkout takes its units in the one step that  *)
(* commits the order, and the payment confirms or returns them.            *)
(***************************************************************************)
Phase(status) ==
    CASE status = "absent"                 -> "none"
      [] status \in ActivePaymentStatuses  -> "held"
      [] status = "APPROVED"               -> "sold"
      [] ReleasesStock(status)             -> "returned"

Ledger == INSTANCE StockLedger WITH
    MaxUnits <- MaxAdded,
    Counts   <- {row.stock : row \in EditedRows},
    stock    <- [v \in Variants |-> variant[v].stock],
    phase    <- [o \in Orders |-> Phase(payment[o].status)],
    units    <- [o \in Orders |-> [v \in Variants |-> Units(order[o].items, v)]]

ImplementsLedger == Ledger!Spec
=============================================================================
