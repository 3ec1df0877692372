--------------------------- MODULE OrderFlowProofs ---------------------------
(***************************************************************************)
(* Proofs about OrderFlow, for any number of customers, variants and       *)
(* sessions and for every value of the bounds.                             *)
(***************************************************************************)
EXTENDS OrderFlow, FiniteSetTheorems, TLAPS

-----------------------------------------------------------------------------
(***************************************************************************)
(* Rows of the lock table, and what locking and unlocking does to it.      *)
(***************************************************************************)
LEMMA RowsAreRows ==
    /\ \A u \in Users : CartRow(u) \in Rows
    /\ \A v \in Variants : VariantLock(v) \in Rows
    /\ \A o \in Orders : OrderRow(o) \in Rows /\ PaymentRow(o) \in Rows
  BY DEF Rows

LEMMA PaymentRowsDiffer ==
    /\ \A o, p \in Orders : PaymentRow(o) = PaymentRow(p) => o = p
    /\ \A o \in Orders : /\ \A u \in Users : PaymentRow(o) # CartRow(u)
                         /\ \A v \in Variants : PaymentRow(o) # VariantLock(v)
                         /\ \A p \in Orders : PaymentRow(o) # OrderRow(p)
  BY DEF PaymentRow, CartRow, VariantLock, OrderRow

LEMMA Locking ==
    ASSUME NEW s \in Sessions, lock \in [Rows -> Sessions \cup {Nobody}], NEW rows
    PROVE  /\ Locks!WithRows(lock, rows, s) \in [Rows -> Sessions \cup {Nobody}]
           /\ \A r \in Rows : Locks!WithRows(lock, rows, s)[r] =
                                 IF r \in rows THEN s ELSE lock[r]
  BY DEF Locks!WithRows

LEMMA Unlocking ==
    ASSUME NEW s \in Sessions, lock \in [Rows -> Sessions \cup {Nobody}]
    PROVE  /\ Locks!WithoutSession(lock, s) \in [Rows -> Sessions \cup {Nobody}]
           /\ \A r \in Rows : Locks!WithoutSession(lock, s)[r] =
                                 IF lock[r] = s THEN Nobody ELSE lock[r]
  BY DEF Locks!WithoutSession

-----------------------------------------------------------------------------
(***************************************************************************)
(* The updates that the actions make keep the type of a transaction.       *)
(***************************************************************************)
LEMMA IdleType == IdleTx \in Transaction
  BY DEF IdleTx, Transaction, Kinds, Steps, NoRows, NoRow, VariantRow

LEMMA TxUpdates ==
    ASSUME NEW r \in Transaction
    PROVE  /\ \A vs \in SUBSET Variants : [r EXCEPT !.need = vs] \in Transaction
           /\ \A st \in Steps : [r EXCEPT !.step = st] \in Transaction
           /\ \A st \in Steps, vs \in SUBSET Variants :
                [r EXCEPT !.step = st, !.need = vs] \in Transaction
           /\ \A st \in Steps, o \in Orders :
                [r EXCEPT !.step = st, !.order = o] \in Transaction
  BY DEF Transaction

LEMMA CheckoutTx ==
    ASSUME NEW u \in Users, NEW items \in SUBSET CartItem, NEW need \in SUBSET Variants,
           NEW seen \in [Variants -> VariantRow]
    PROVE  [IdleTx EXCEPT !.kind = "checkout", !.step = "variants", !.user = u,
                          !.items = items, !.need = need, !.seen = seen] \in Transaction
  BY IdleType DEF Transaction, Kinds, Steps

LEMMA PaymentTx ==
    ASSUME NEW kind \in PaymentRequests, NEW o \in Orders,
           NEW was \in OrderStatuses \cup {"absent"},
           NEW target \in PaymentStatuses \cup {"absent"},
           NEW st \in Steps
    PROVE  [IdleTx EXCEPT !.kind = kind, !.order = o, !.was = was,
                          !.target = target, !.step = st] \in Transaction
  BY IdleType DEF Transaction, Kinds, PaymentRequests

LEMMA AdminTx ==
    ASSUME NEW o \in Orders, NEW was \in OrderStatuses \cup {"absent"},
           NEW status \in OrderStatuses
    PROVE  [IdleTx EXCEPT !.kind = "admin", !.step = "payment", !.order = o,
                          !.was = was, !.target = status] \in Transaction
  BY IdleType DEF Transaction, Kinds, Steps

LEMMA EditTx ==
    ASSUME NEW v \in Variants, NEW seen \in [Variants -> VariantRow], NEW row \in VariantRow
    PROVE  [IdleTx EXCEPT !.kind = "edit", !.step = "write", !.need = {v},
                          !.seen = seen, !.row = row] \in Transaction
  BY IdleType DEF Transaction, Kinds, Steps

LEMMA OutcomeType ==
    ASSUME NEW kind, NEW p
    PROVE  PaymentOutcome(kind, p) \in {"absent", "EXPIRED", "APPROVED", "REJECTED", "SUBMITTED"}
  BY DEF PaymentOutcome

LEMMA EndType ==
    ASSUME TypeOK, NEW s \in Sessions, EndTx(s)
    PROVE  /\ tx' \in [Sessions -> Transaction]
           /\ lock' \in [Rows -> Sessions \cup {Nobody}]
  BY IdleType, Unlocking DEF EndTx, TypeOK

-----------------------------------------------------------------------------
(***************************************************************************)
(* The inductive invariant.  A payment request that has the row of its     *)
(* payment is the only one about that payment, and the payment is active   *)
(* until it commits.  An order number that a checkout holds has not been   *)
(* used, and nobody else holds it.  The status endpoint writes only when   *)
(* the payment is settled, and a settled payment never becomes active.     *)
(***************************************************************************)
OwnsPayment(s) ==
    tx[s].kind \in PaymentRequests =>
       /\ tx[s].order \in Orders
       /\ lock[PaymentRow(tx[s].order)] = s
       /\ PaymentActive(tx[s].order)
       /\ tx[s].target \in {"SUBMITTED"} \cup SettledPaymentStatuses

RequestOwnsPayment == \A s \in Sessions : OwnsPayment(s)

Numbered(s) == tx[s].kind = "checkout" /\ tx[s].step = "write"

NumbersAreFresh ==
    /\ \A o \in Orders : o > orderSeq => ~Placed(o)
    /\ \A s \in Sessions : Numbered(s) =>
          /\ tx[s].order \in 1 .. orderSeq
          /\ ~Placed(tx[s].order)
    /\ \A s, t \in Sessions :
          Numbered(s) /\ Numbered(t) /\ tx[s].order = tx[t].order => s = t

PlacedHasPayment == \A o \in Orders : Placed(o) <=> payment[o].status # "absent"

MayWrite(s) ==
    tx[s].kind = "admin" =>
       /\ tx[s].order \in Orders
       /\ Placed(tx[s].order)
       /\ tx[s].target \in OrderStatuses
       /\ tx[s].step = "write" => ~PaymentActive(tx[s].order)

AdminMayWrite == \A s \in Sessions : MayWrite(s)

IInv ==
    /\ TypeOK
    /\ ReleasedExactlyOnFailure
    /\ ActivePaymentKeepsOrderNew
    /\ RequestOwnsPayment
    /\ NumbersAreFresh
    /\ PlacedHasPayment
    /\ AdminMayWrite

-----------------------------------------------------------------------------
(***************************************************************************)
(* Type correctness, one lemma for each group of actions.                  *)
(***************************************************************************)
LEMMA TypeInit == Init => TypeOK
  BY IdleType, InitialVariantAssumption, BoundsAssumption
     DEF Init, TypeOK, CartItem, OrderRecord, AbsentOrder, PaymentRecord, AbsentPayment, Rows,
         Orders

LEMMA TypeAddItem ==
    ASSUME TypeOK, NEW u \in Users, NEW v \in Variants, NEW q \in Quantities, AddItem(u, v, q)
    PROVE  TypeOK'
<1>1. q \in Nat \ {0}
  BY QuantitiesAssumption
<1>2. cart' \in [Users -> SUBSET CartItem]
  <2>1. CASE InsertItems(u, {[group |-> Normal, variant |-> v, qty |-> q, selected |-> TRUE]})
    <3>1. [group |-> Normal, variant |-> v, qty |-> q, selected |-> TRUE] \in CartItem
      BY <1>1 DEF CartItem
    <3>2. QED
      BY <2>1, <3>1 DEF InsertItems, TypeOK
  <2>2. CASE \E i \in cart[u] : GrowItem(u, i, q)
    <3>1. PICK i \in cart[u] : GrowItem(u, i, q)
      BY <2>2
    <3>2. i \in CartItem
      BY DEF TypeOK
    <3>3. i.qty + q \in Nat \ {0}
      BY <1>1, <3>2 DEF CartItem
    <3>4. [i EXCEPT !.qty = @ + q, !.selected = TRUE] \in CartItem
      BY <3>2, <3>3 DEF CartItem
    <3>5. QED
      BY <3>1, <3>4 DEF GrowItem, TypeOK
  <2>3. QED
    BY <2>1, <2>2 DEF AddItem
<1>3. added' \in [Users -> Nat]
  <2>1. added' = [added EXCEPT ![u] = @ + q]
    BY DEF AddItem
  <2>2. added[u] + q \in Nat
    BY <1>1 DEF TypeOK
  <2>3. QED
    BY <2>1, <2>2 DEF TypeOK
<1>4. UNCHANGED <<variant, orderSeq, order, payment, lock, tx, worklist, edits, aborts>>
  BY DEF AddItem
<1>5. QED
  BY <1>2, <1>3, <1>4 DEF TypeOK

LEMMA TypeAddLook ==
    ASSUME TypeOK, NEW u \in Users, NEW q \in Quantities, NEW g \in Looks,
           NEW vs \in SUBSET Variants, AddLook(u, g, vs, q)
    PROVE  TypeOK'
<1>1. q \in Nat \ {0}
  BY QuantitiesAssumption
<1>2. cart' \in [Users -> SUBSET CartItem]
  <2>1. {[group |-> g, variant |-> v, qty |-> q, selected |-> TRUE] : v \in vs} \in SUBSET CartItem
    <3>1. \A v \in vs : [group |-> g, variant |-> v, qty |-> q, selected |-> TRUE] \in CartItem
      BY <1>1 DEF CartItem
    <3>2. QED
      BY <3>1
  <2>2. QED
    BY <2>1 DEF AddLook, InsertItems, TypeOK
<1>3. added' \in [Users -> Nat]
  <2>1. Cardinality(vs) \in Nat
    BY VariantsAssumption, FS_Subset, FS_CardinalityType
  <2>2. q * Cardinality(vs) \in Nat
    BY <1>1, <2>1
  <2>3. added[u] + q * Cardinality(vs) \in Nat
    BY <2>2 DEF TypeOK
  <2>4. added' = [added EXCEPT ![u] = @ + q * Cardinality(vs)]
    BY DEF AddLook
  <2>5. QED
    BY <2>3, <2>4 DEF TypeOK
<1>4. UNCHANGED <<variant, orderSeq, order, payment, lock, tx, worklist, edits, aborts>>
  BY DEF AddLook
<1>5. QED
  BY <1>2, <1>3, <1>4 DEF TypeOK

LEMMA TypeChangeQuantity ==
    ASSUME TypeOK, NEW u \in Users, NEW i \in cart[u], NEW q \in Quantities, ChangeQuantity(u, i, q)
    PROVE  TypeOK'
<1>1. q \in Nat \ {0} /\ i \in CartItem /\ added[u] \in Nat
  BY QuantitiesAssumption DEF TypeOK
<1>2. [i EXCEPT !.qty = q] \in CartItem
  BY <1>1 DEF CartItem
<1>3. cart' = [cart EXCEPT ![u] = (@ \ {i}) \cup {[i EXCEPT !.qty = q]}]
  BY DEF ChangeQuantity
<1>4. cart' \in [Users -> SUBSET CartItem]
  BY <1>2, <1>3 DEF TypeOK
<1>5. added' \in [Users -> Nat]
  <2> DEFINE more == IF q > i.qty THEN q - i.qty ELSE 0
  <2>1. added' = [added EXCEPT ![u] = @ + more]
    BY DEF ChangeQuantity
  <2>2. more \in Nat
    BY <1>1 DEF CartItem
  <2> HIDE DEF more
  <2>3. QED
    BY <1>1, <2>1, <2>2 DEF TypeOK
<1>6. UNCHANGED <<variant, orderSeq, order, payment, lock, tx, worklist, edits, aborts>>
  BY DEF ChangeQuantity
<1>7. QED
  BY <1>4, <1>5, <1>6 DEF TypeOK

LEMMA TypeSelectOrRemove ==
    ASSUME TypeOK, NEW u \in Users, NEW items \in SUBSET cart[u],
           RemoveItems(u, items) \/ \E selected \in BOOLEAN : SelectItems(u, items, selected)
    PROVE  TypeOK'
<1>1. items \subseteq CartItem
  BY DEF TypeOK
<1>2. cart' \in [Users -> SUBSET CartItem]
  <2>1. CASE RemoveItems(u, items)
    BY <2>1 DEF RemoveItems, TypeOK
  <2>2. ASSUME NEW selected \in BOOLEAN, SelectItems(u, items, selected)
        PROVE  cart' \in [Users -> SUBSET CartItem]
    <3>1. {[i EXCEPT !.selected = selected] : i \in items} \subseteq CartItem
      BY <1>1 DEF CartItem
    <3>2. QED
      BY <2>2, <3>1 DEF SelectItems, TypeOK
  <2>3. QED
    BY <2>1, <2>2
<1>3. UNCHANGED <<variant, orderSeq, order, payment, lock, tx, worklist, bounds>>
  BY DEF SelectItems, RemoveItems
<1>4. QED
  BY <1>2, <1>3 DEF TypeOK, bounds

(***************************************************************************)
(* Steps that change nothing but locks, transactions and the order number. *)
(***************************************************************************)
LEMMA TypeOfSession ==
    ASSUME TypeOK,
           tx' \in [Sessions -> Transaction],
           lock' \in [Rows -> Sessions \cup {Nobody}],
           orderSeq' \in 0 .. MaxOrderNumber,
           edits' \in 0 .. MaxEdits,
           aborts' \in 0 .. MaxAborts,
           worklist' \subseteq Orders,
           UNCHANGED <<cart, variant, order, payment, added>>
    PROVE  TypeOK'
  BY DEF TypeOK

LEMMA TypeLockVariant ==
    ASSUME TypeOK, NEW s \in Sessions, NEW v \in Variants, LockVariant(s, v)
    PROVE  TypeOK'
<1>1. tx[s] \in Transaction /\ tx[s].need \in SUBSET Variants
  BY DEF TypeOK, Transaction
<1>2. [tx[s] EXCEPT !.need = @ \ {v}] \in Transaction
  BY <1>1, TxUpdates
<1>3. tx' \in [Sessions -> Transaction]
  BY <1>2 DEF LockVariant, TypeOK
<1>4. lock' \in [Rows -> Sessions \cup {Nobody}]
  BY Locking DEF LockVariant, TypeOK
<1>5. UNCHANGED <<shopRows, worklist, bounds>>
  BY DEF LockVariant
<1>6. QED
  BY <1>3, <1>4, <1>5, TypeOfSession DEF shopRows, bounds, TypeOK

LEMMA TypeRollback ==
    ASSUME TypeOK, NEW s \in Sessions, Rollback(s), UNCHANGED <<orderSeq, aborts>>
    PROVE  TypeOK'
  BY EndType DEF Rollback, TypeOK

LEMMA TypeCheckout ==
    ASSUME TypeOK, NEW s \in Sessions, CheckoutStep(s)
    PROVE  TypeOK'
<1>1. ASSUME NEW u \in Users, CheckoutBegin(s, u)
      PROVE  TypeOK'
  <2> DEFINE seen == [v \in Variants |-> IF v \in VariantsOf(cart[u]) THEN variant[v] ELSE NoRow]
           items == Selected(cart[u])
  <2>1. items \in SUBSET CartItem
    BY DEF TypeOK, Selected
  <2>2. VariantsOf(items) \in SUBSET Variants
    BY <2>1 DEF VariantsOf, CartItem
  <2>3. seen \in [Variants -> VariantRow]
    BY DEF TypeOK, NoRow, VariantRow
  <2>4. tx' = [tx EXCEPT ![s] =
                 [IdleTx EXCEPT !.kind = "checkout", !.step = "variants", !.user = u,
                                !.items = items, !.need = VariantsOf(items), !.seen = seen]]
    BY <1>1 DEF CheckoutBegin, CheckoutOf
  <2> HIDE DEF seen, items
  <2>5. tx' \in [Sessions -> Transaction]
    BY <2>1, <2>2, <2>3, <2>4, CheckoutTx DEF TypeOK
  <2>6. lock' \in [Rows -> Sessions \cup {Nobody}]
    BY <1>1, Locking DEF CheckoutBegin, TypeOK
  <2>7. UNCHANGED <<shopRows, worklist, bounds>>
    BY <1>1 DEF CheckoutBegin
  <2>8. QED
    BY <2>5, <2>6, <2>7, TypeOfSession DEF shopRows, bounds, TypeOK
<1>2. ASSUME CheckoutRefused(s) \/ CheckoutConflict(s)
      PROVE  TypeOK'
  BY <1>2, TypeRollback DEF CheckoutRefused, CheckoutConflict
<1>3. ASSUME CheckoutNumber(s)
      PROVE  TypeOK'
  <2>1. orderSeq' = orderSeq + 1 /\ orderSeq < MaxOrderNumber
    BY <1>3 DEF CheckoutNumber
  <2>2. orderSeq' \in 0 .. MaxOrderNumber /\ orderSeq + 1 \in Orders
    BY <2>1, BoundsAssumption DEF TypeOK, Orders
  <2>3. tx[s] \in Transaction
    BY DEF TypeOK
  <2>4. [tx[s] EXCEPT !.step = "write", !.order = orderSeq + 1] \in Transaction
    BY <2>2, <2>3, TxUpdates DEF Steps
  <2>5. tx' \in [Sessions -> Transaction]
    BY <1>3, <2>4 DEF CheckoutNumber, TypeOK
  <2>6. UNCHANGED <<cart, variant, order, payment, lock, worklist, bounds>>
    BY <1>3 DEF CheckoutNumber
  <2>7. QED
    BY <2>2, <2>5, <2>6, TypeOfSession DEF bounds, TypeOK
<1>4. ASSUME CheckoutCommit(s)
      PROVE  TypeOK'
  <2>1. tx[s] \in Transaction /\ tx[s].user \in Users \cup {NoUser}
        /\ tx[s].items \in SUBSET CartItem
    BY DEF TypeOK, Transaction
  <2>2. variant' \in [Variants -> VariantRow]
    <3>1. ASSUME NEW v \in Variants, v \in VariantsOf(tx[s].items)
          PROVE  RowAfterSale(s, v) \in VariantRow
      <4>1. variant[v] \in VariantRow
        BY DEF TypeOK
      <4>2. RowLegal(RowAfterSale(s, v))
        BY <1>4, <3>1 DEF CheckoutCommit, SaleLegal
      <4> DEFINE n == tx[s].seen[v].stock - Units(tx[s].items, v)
      <4>3. RowAfterSale(s, v) = [variant[v] EXCEPT !.stock = n]
        BY DEF RowAfterSale
      <4> HIDE DEF n
      <4>4. [variant[v] EXCEPT !.stock = n].stock = n
        BY <4>1 DEF VariantRow
      <4>5. n \in Nat
        BY <4>2, <4>3, <4>4 DEF RowLegal
      <4>6. QED
        BY <4>1, <4>3, <4>5 DEF VariantRow
    <3>2. variant' = [v \in Variants |-> IF v \in VariantsOf(tx[s].items)
                                         THEN RowAfterSale(s, v) ELSE variant[v]]
      BY <1>4 DEF CheckoutCommit
    <3>3. QED
      BY <3>1, <3>2 DEF TypeOK
  <2>3. order' \in [Orders -> OrderRecord]
    BY <1>4, <2>1 DEF CheckoutCommit, TypeOK, OrderRecord, OrderStatuses
  <2>4. payment' \in [Orders -> PaymentRecord]
    BY <1>4 DEF CheckoutCommit, TypeOK, PaymentRecord, PaymentStatuses, ActivePaymentStatuses
  <2>5. cart' \in [Users -> SUBSET CartItem]
    BY <1>4 DEF CheckoutCommit, TypeOK, WithoutItems
  <2>6. EndTx(s) /\ UNCHANGED <<orderSeq, worklist, bounds>>
    BY <1>4 DEF CheckoutCommit
  <2>7. QED
    BY <2>2, <2>3, <2>4, <2>5, <2>6, EndType DEF TypeOK, bounds
<1>5. QED
  BY <1>1, <1>2, <1>3, <1>4 DEF CheckoutStep

LEMMA TypePaymentBegin ==
    ASSUME TypeOK, NEW s \in Sessions, NEW o \in Orders, NEW kind \in PaymentRequests,
           PaymentBegin(s, kind, o), worklist' \subseteq Orders
    PROVE  TypeOK'
<1> DEFINE target == PaymentOutcome(kind, payment[o])
           st == IF target = "SUBMITTED" THEN "variants" ELSE "order"
<1>1. order[o].status \in OrderStatuses \cup {"absent"}
  BY DEF TypeOK, OrderRecord
<1>2. target \in PaymentStatuses \cup {"absent"}
  BY OutcomeType DEF PaymentStatuses, ActivePaymentStatuses, SettledPaymentStatuses
<1>3. st \in Steps
  BY DEF Steps
<1>4. tx' = [tx EXCEPT ![s] = [IdleTx EXCEPT !.kind = kind, !.order = o, !.was = order[o].status,
                                             !.target = target, !.step = st]]
  BY DEF PaymentBegin
<1> HIDE DEF target, st
<1>5. tx' \in [Sessions -> Transaction]
  BY <1>1, <1>2, <1>3, <1>4, PaymentTx DEF TypeOK
<1>6. lock' \in [Rows -> Sessions \cup {Nobody}]
  BY Locking DEF PaymentBegin, TypeOK
<1>7. UNCHANGED <<shopRows, bounds>>
  BY DEF PaymentBegin
<1>8. QED
  BY <1>5, <1>6, <1>7, TypeOfSession DEF shopRows, bounds, TypeOK

LEMMA TypePayment ==
    ASSUME TypeOK, RequestOwnsPayment, NEW s \in Sessions, PaymentStep(s)
    PROVE  TypeOK'
<1>1. ASSUME NEW o \in Orders, NEW kind \in PaymentRequests, PaymentRequest(s, kind, o)
      PROVE  TypeOK'
  BY <1>1, TypePaymentBegin DEF PaymentRequest, TypeOK
<1>2. ASSUME FlushOrder(s)
      PROVE  TypeOK'
  <2> DEFINE o == tx[s].order
             need == IF ReleasesStock(tx[s].target) /\ ~payment[o].released
                     THEN VariantsOf(order[o].items) ELSE {}
  <2>1. tx[s] \in Transaction
    BY DEF TypeOK
  <2>2. o \in Orders
    BY <1>2 DEF FlushOrder, RequestOwnsPayment, OwnsPayment
  <2>3. order[o].items \in SUBSET CartItem
    BY <2>2 DEF TypeOK, OrderRecord
  <2>4. need \in SUBSET Variants
    BY <2>3 DEF VariantsOf, CartItem
  <2>5. tx' = [tx EXCEPT ![s] = [@ EXCEPT !.step = "variants", !.need = need]]
    BY <1>2 DEF FlushOrder
  <2> HIDE DEF need
  <2>6. [tx[s] EXCEPT !.step = "variants", !.need = need] \in Transaction
    BY <2>1, <2>4, TxUpdates DEF Steps
  <2>7. tx' \in [Sessions -> Transaction]
    BY <2>5, <2>6 DEF TypeOK
  <2>8. lock' \in [Rows -> Sessions \cup {Nobody}]
    BY <1>2, Locking DEF FlushOrder, TypeOK
  <2>9. UNCHANGED <<shopRows, worklist, bounds>>
    BY <1>2 DEF FlushOrder
  <2>10. QED
    BY <2>7, <2>8, <2>9, TypeOfSession DEF shopRows, bounds, TypeOK
<1>3. ASSUME PaymentCommit(s)
      PROVE  TypeOK'
  <2> DEFINE o == tx[s].order
             target == tx[s].target
             after == OrderStatusAfter(target)
             new == [payment[o] EXCEPT
                       !.status = target,
                       !.released = payment[o].released \/ ReleasesStock(target)]
  <2>1. o \in Orders /\ target \in PaymentStatuses
    BY <1>3 DEF PaymentCommit, RequestOwnsPayment, OwnsPayment, PaymentStatuses, ActivePaymentStatuses
  <2>2. payment' = [payment EXCEPT ![o] = new]
    BY <1>3 DEF PaymentCommit
  <2>3. order' = [order EXCEPT ![o].status = after] \/ UNCHANGED order
    BY <1>3 DEF PaymentCommit
  <2>4. ReleaseStock(o) \/ UNCHANGED variant
    BY <1>3 DEF PaymentCommit
  <2>5. EndTx(s) /\ UNCHANGED <<cart, orderSeq, worklist, bounds>>
    BY <1>3 DEF PaymentCommit
  <2>6. after \in OrderStatuses
    BY DEF OrderStatusAfter, OrderStatuses
  <2> HIDE DEF o, target, after
  <2>7. payment' \in [Orders -> PaymentRecord]
    <3>1. payment[o] \in PaymentRecord
      BY <2>1 DEF TypeOK
    <3>2. new \in PaymentRecord
      BY <2>1, <3>1 DEF PaymentRecord, ReleasesStock
    <3> HIDE DEF new
    <3>3. QED
      BY <2>2, <3>2 DEF TypeOK
  <2>8. order' \in [Orders -> OrderRecord]
    BY <2>1, <2>3, <2>6 DEF TypeOK, OrderRecord
  <2>9. variant' \in [Variants -> VariantRow]
    <3>1. CASE UNCHANGED variant
      BY <3>1 DEF TypeOK
    <3>2. CASE ReleaseStock(o)
      <4>1. ASSUME NEW v \in Variants, v \in VariantsOf(order[o].items)
            PROVE  RowAfterRelease(o, v) \in VariantRow
        <5> DEFINE n == variant[v].stock + Units(order[o].items, v)
        <5>1. variant[v] \in VariantRow
          BY DEF TypeOK
        <5>2. RowLegal(RowAfterRelease(o, v))
          BY <3>2, <4>1 DEF ReleaseStock
        <5>3. RowAfterRelease(o, v) = [variant[v] EXCEPT !.stock = n]
          BY DEF RowAfterRelease
        <5> HIDE DEF n
        <5>4. [variant[v] EXCEPT !.stock = n].stock = n
          BY <5>1 DEF VariantRow
        <5>5. n \in Nat
          BY <5>2, <5>3, <5>4 DEF RowLegal
        <5>6. QED
          BY <5>1, <5>3, <5>5 DEF VariantRow
      <4>2. variant' = [v \in Variants |-> IF v \in VariantsOf(order[o].items)
                                           THEN RowAfterRelease(o, v) ELSE variant[v]]
        BY <3>2 DEF ReleaseStock
      <4>3. QED
        BY <4>1, <4>2 DEF TypeOK
    <3>3. QED
      BY <2>4, <3>1, <3>2
  <2>10. QED
    BY <2>5, <2>7, <2>8, <2>9, EndType DEF TypeOK, bounds
<1>4. QED
  BY <1>1, <1>2, <1>3 DEF PaymentStep

LEMMA TypeAdmin ==
    ASSUME TypeOK, AdminMayWrite, NEW s \in Sessions, AdminStep(s)
    PROVE  TypeOK'
<1>1. ASSUME NEW o \in Orders, NEW status \in SellerStatuses, AdminBegin(s, o, status)
      PROVE  TypeOK'
  <2>1. status \in OrderStatuses
    BY SellerStatusesAssumption DEF OrderStatuses
  <2>2. order[o].status \in OrderStatuses \cup {"absent"}
    BY DEF TypeOK, OrderRecord
  <2>3. tx' \in [Sessions -> Transaction]
    BY <1>1, <2>1, <2>2, AdminTx DEF AdminBegin, TypeOK
  <2>4. lock' \in [Rows -> Sessions \cup {Nobody}]
    BY <1>1, Locking DEF AdminBegin, TypeOK
  <2>5. UNCHANGED <<shopRows, worklist, bounds>>
    BY <1>1 DEF AdminBegin
  <2>6. QED
    BY <2>3, <2>4, <2>5, TypeOfSession DEF shopRows, bounds, TypeOK
<1>2. ASSUME AdminRefused(s)
      PROVE  TypeOK'
  BY <1>2, TypeRollback DEF AdminRefused
<1>3. ASSUME AdminReadsPayment(s)
      PROVE  TypeOK'
  <2>1. [tx[s] EXCEPT !.step = "write"] \in Transaction
    BY TxUpdates DEF TypeOK, Steps
  <2>2. tx' \in [Sessions -> Transaction]
    BY <1>3, <2>1 DEF AdminReadsPayment, TypeOK
  <2>3. UNCHANGED <<shopRows, lock, worklist, bounds>>
    BY <1>3 DEF AdminReadsPayment
  <2>4. QED
    BY <2>2, <2>3, TypeOfSession DEF shopRows, bounds, TypeOK
<1>4. ASSUME AdminCommit(s)
      PROVE  TypeOK'
  <2> DEFINE o == tx[s].order
             target == tx[s].target
             new == [order[o] EXCEPT
                       !.status = target,
                       !.delivered = order[o].delivered \/ target = "DELIVERED"]
  <2>1. o \in Orders /\ tx[s].target \in OrderStatuses
    BY <1>4 DEF AdminCommit, AdminMayWrite, MayWrite
  <2>2. order' = [order EXCEPT ![o] = new]
    BY <1>4 DEF AdminCommit
  <2>3. order[o] \in OrderRecord
    BY <2>1 DEF TypeOK
  <2>4. new \in OrderRecord
    BY <2>1, <2>3 DEF OrderRecord
  <2> HIDE DEF new
  <2>6. order' \in [Orders -> OrderRecord]
    BY <2>2, <2>4 DEF TypeOK
  <2>7. EndTx(s) /\ UNCHANGED <<cart, variant, orderSeq, payment, worklist, bounds>>
    BY <1>4 DEF AdminCommit
  <2>8. QED
    BY <2>6, <2>7, EndType DEF TypeOK, bounds
<1>5. QED
  BY <1>1, <1>2, <1>3, <1>4 DEF AdminStep

LEMMA TypeEdit ==
    ASSUME TypeOK, NEW s \in Sessions, EditStep(s)
    PROVE  TypeOK'
<1>1. ASSUME NEW v \in Variants, NEW row \in EditedRows, EditBegin(s, v, row)
      PROVE  TypeOK'
  <2> DEFINE seen == [w \in Variants |-> IF w = v THEN variant[v] ELSE NoRow]
  <2>1. row \in VariantRow
    BY EditedRowsAssumption
  <2>2. seen \in [Variants -> VariantRow]
    BY DEF TypeOK, NoRow, VariantRow
  <2>3. tx' = [tx EXCEPT ![s] = [IdleTx EXCEPT !.kind = "edit", !.step = "write", !.need = {v},
                                               !.seen = seen, !.row = row]]
    BY <1>1 DEF EditBegin
  <2> HIDE DEF seen
  <2>4. tx' \in [Sessions -> Transaction]
    BY <2>1, <2>2, <2>3, EditTx DEF TypeOK
  <2>5. edits' = edits + 1 /\ edits < MaxEdits
    BY <1>1 DEF EditBegin
  <2>6. edits' \in 0 .. MaxEdits
    BY <2>5, BoundsAssumption DEF TypeOK
  <2>7. UNCHANGED <<shopRows, lock, worklist, added, aborts>>
    BY <1>1 DEF EditBegin
  <2>8. QED
    BY <2>4, <2>6, <2>7, TypeOfSession DEF shopRows, TypeOK
<1>2. ASSUME NEW v \in Variants, EditCommit(s, v)
      PROVE  TypeOK'
  <2>1. RowAfterEdit(s, v) \in VariantRow
    <3>1. tx[s].seen[v] \in VariantRow /\ tx[s].row \in VariantRow /\ variant[v] \in VariantRow
      BY DEF TypeOK, Transaction
    <3>2. QED
      BY <3>1 DEF RowAfterEdit, Changed, VariantRow
  <2>2. variant' \in [Variants -> VariantRow]
    BY <1>2, <2>1 DEF EditCommit, TypeOK
  <2>3. EndTx(s) /\ UNCHANGED <<cart, orderSeq, order, payment, worklist, bounds>>
    BY <1>2 DEF EditCommit
  <2>4. QED
    BY <2>2, <2>3, EndType DEF TypeOK, bounds
<1>3. ASSUME NEW v \in Variants, EditConflict(s, v)
      PROVE  TypeOK'
  BY <1>3, TypeRollback DEF EditConflict
<1>4. QED
  BY <1>1, <1>2, <1>3 DEF EditStep

LEMMA TypeStep ==
    ASSUME IInv, [Next]_vars
    PROVE  TypeOK'
<1> USE DEF IInv
<1>1. CASE CartStep
  BY <1>1, TypeAddItem, TypeAddLook, TypeChangeQuantity, TypeSelectOrRemove DEF CartStep
<1>2. ASSUME NEW s \in Sessions, \/ CheckoutStep(s) \/ PaymentStep(s)
                                 \/ AdminStep(s) \/ EditStep(s)
                                 \/ \E v \in Variants : LockVariant(s, v)
      PROVE  TypeOK'
  BY <1>2, TypeCheckout, TypePayment, TypeAdmin, TypeEdit, TypeLockVariant
<1>3. ASSUME NEW s \in Sessions, NEW o \in Orders, WorkerVisit(s, o)
      PROVE  TypeOK'
  <2>1. worklist' \subseteq Orders
    BY <1>3 DEF WorkerVisit, TypeOK
  <2>2. CASE PaymentBegin(s, "expire", o)
    BY <2>1, <2>2, TypePaymentBegin DEF PaymentRequests
  <2>3. CASE UNCHANGED <<shopRows, lock, tx, bounds>>
    BY <2>1, <2>3 DEF TypeOK, shopRows, bounds
  <2>4. QED
    BY <1>3, <2>2, <2>3 DEF WorkerVisit
<1>4. ASSUME NEW s \in Sessions, Abort(s)
      PROVE  TypeOK'
  <2>1. aborts' = aborts + 1 /\ aborts < MaxAborts
    BY <1>4 DEF Abort
  <2>2. aborts' \in 0 .. MaxAborts
    BY <2>1, BoundsAssumption DEF TypeOK
  <2>3. EndTx(s) /\ UNCHANGED <<shopRows, worklist, added, edits>>
    BY <1>4 DEF Abort
  <2>4. QED
    BY <2>2, <2>3, EndType DEF TypeOK, shopRows
<1>5. ASSUME NEW s \in Sessions, DeadlockVictim(s)
      PROVE  TypeOK'
  BY <1>5, TypeRollback DEF DeadlockVictim
<1>6. ASSUME NEW o \in Orders, TimePasses(o)
      PROVE  TypeOK'
  <2>1. payment[o] \in PaymentRecord
    BY DEF TypeOK
  <2>2. [payment[o] EXCEPT !.due = TRUE] \in PaymentRecord
    BY <2>1 DEF PaymentRecord
  <2>3. payment' \in [Orders -> PaymentRecord]
    BY <1>6, <2>2 DEF TimePasses, TypeOK
  <2>4. QED
    BY <1>6, <2>3 DEF TimePasses, TypeOK, bounds
<1>7. CASE WorkerPoll
  BY <1>7 DEF WorkerPoll, DuePayments, TypeOK, shopRows, bounds
<1>8. CASE WorkerRestart
  <2>1. aborts' = aborts + 1 /\ aborts < MaxAborts
    BY <1>8 DEF WorkerRestart
  <2>2. aborts' \in 0 .. MaxAborts
    BY <2>1, BoundsAssumption DEF TypeOK
  <2>3. QED
    BY <1>8, <2>2 DEF WorkerRestart, TypeOK, shopRows
<1>9. CASE UNCHANGED vars
  BY <1>9 DEF vars, TypeOK
<1>10. QED
  BY <1>1, <1>2, <1>3, <1>4, <1>5, <1>6, <1>7, <1>8, <1>9 DEF Next, SessionStep

-----------------------------------------------------------------------------
(***************************************************************************)
(* Most steps change no status of an order or a payment, and do one of     *)
(* three things to a session: it goes on with its request, it has nothing  *)
(* in hand that the invariant speaks of, or it begins soundly.             *)
(***************************************************************************)
GoesOn(t) ==
    /\ tx'[t].kind = tx[t].kind
    /\ tx'[t].order = tx[t].order
    /\ tx'[t].target = tx[t].target
    /\ tx'[t].step = "write" => tx[t].step = "write"
    /\ \A o \in Orders : lock[PaymentRow(o)] = t => lock'[PaymentRow(o)] = t

EmptyHanded(t) ==
    \/ tx'[t].kind \in {"idle", "edit"}
    \/ tx'[t].kind = "checkout" /\ tx'[t].step # "write"

BeginsSoundly(t) ==
    /\ tx'[t].kind # "checkout"
    /\ OwnsPayment(t)'
    /\ MayWrite(t)'

SameStatuses ==
    \A o \in Orders : /\ order'[o].status = order[o].status
                      /\ payment'[o].status = payment[o].status
                      /\ payment'[o].released = payment[o].released

Quiet ==
    /\ SameStatuses
    /\ orderSeq' = orderSeq
    /\ \A t \in Sessions : GoesOn(t) \/ EmptyHanded(t) \/ BeginsSoundly(t)

LEMMA QuietKeepsInv ==
    ASSUME IInv, TypeOK', Quiet
    PROVE  IInv'
<1> USE DEF IInv
<1>1. ReleasedExactlyOnFailure'
  BY DEF ReleasedExactlyOnFailure, ReleasesStock, Quiet, SameStatuses
<1>2. ActivePaymentKeepsOrderNew'
  BY DEF ActivePaymentKeepsOrderNew, PaymentActive, Quiet, SameStatuses
<1>3. PlacedHasPayment'
  BY DEF PlacedHasPayment, Placed, Quiet, SameStatuses
<1>4. RequestOwnsPayment'
  <2> SUFFICES ASSUME NEW t \in Sessions
               PROVE  OwnsPayment(t)'
    BY DEF RequestOwnsPayment
  <2>1. CASE GoesOn(t)
    BY <2>1 DEF GoesOn, RequestOwnsPayment, OwnsPayment, PaymentActive, Quiet, SameStatuses
  <2>2. CASE EmptyHanded(t)
    BY <2>2 DEF EmptyHanded, OwnsPayment, PaymentRequests
  <2>3. CASE BeginsSoundly(t)
    BY <2>3 DEF BeginsSoundly
  <2>4. QED
    BY <2>1, <2>2, <2>3 DEF Quiet
<1>5. AdminMayWrite'
  <2> SUFFICES ASSUME NEW t \in Sessions
               PROVE  MayWrite(t)'
    BY DEF AdminMayWrite
  <2>1. CASE GoesOn(t)
    BY <2>1 DEF GoesOn, AdminMayWrite, MayWrite, PaymentActive, Placed, Quiet, SameStatuses
  <2>2. CASE EmptyHanded(t)
    BY <2>2 DEF EmptyHanded, MayWrite
  <2>3. CASE BeginsSoundly(t)
    BY <2>3 DEF BeginsSoundly
  <2>4. QED
    BY <2>1, <2>2, <2>3 DEF Quiet
<1>6. NumbersAreFresh'
  <2>1. \A t \in Sessions : Numbered(t)' => Numbered(t) /\ tx'[t].order = tx[t].order
    BY DEF Numbered, Quiet, GoesOn, EmptyHanded, BeginsSoundly
  <2>2. \A o \in Orders : Placed(o)' <=> Placed(o)
    BY DEF Placed, Quiet, SameStatuses
  <2>3. 1 .. orderSeq \subseteq Orders
    BY BoundsAssumption DEF TypeOK, Orders
  <2>4. orderSeq' = orderSeq
    BY DEF Quiet
  <2>5. QED
    BY <2>1, <2>2, <2>3, <2>4 DEF NumbersAreFresh
<1>7. QED
  BY <1>1, <1>2, <1>3, <1>4, <1>5, <1>6

(***************************************************************************)
(* A transaction that ends leaves the others as they are.                  *)
(***************************************************************************)
LEMMA EndEffect ==
    ASSUME TypeOK, NEW s \in Sessions, EndTx(s)
    PROVE  /\ EmptyHanded(s)
           /\ \A t \in Sessions \ {s} : tx'[t] = tx[t] /\ GoesOn(t)
<1>1. tx' = [tx EXCEPT ![s] = IdleTx]
  BY DEF EndTx
<1>2. tx'[s].kind = "idle" /\ \A t \in Sessions \ {s} : tx'[t] = tx[t]
  BY <1>1 DEF TypeOK, IdleTx
<1>3. \A t \in Sessions \ {s} : \A o \in Orders :
         lock[PaymentRow(o)] = t => lock'[PaymentRow(o)] = t
  BY RowsAreRows, Unlocking DEF EndTx, TypeOK
<1>4. QED
  BY <1>2, <1>3 DEF EmptyHanded, GoesOn

LEMMA EndIsQuiet ==
    ASSUME TypeOK, NEW s \in Sessions, EndTx(s), UNCHANGED <<orderSeq, order, payment>>
    PROVE  Quiet
<1>1. SameStatuses
  BY DEF SameStatuses
<1>2. QED
  BY <1>1, EndEffect DEF Quiet

(***************************************************************************)
(* Taking rows other than those of payments.                               *)
(***************************************************************************)
LEMMA LockEffect ==
    ASSUME TypeOK, NEW s \in Sessions, NEW rows,
           \A o \in Orders : PaymentRow(o) \notin rows,
           lock' = Locks!WithRows(lock, rows, s)
    PROVE  \A o \in Orders : lock'[PaymentRow(o)] = lock[PaymentRow(o)]
  BY RowsAreRows, Locking DEF TypeOK

LEMMA QuietSteps ==
    ASSUME IInv,
           \/ CartStep \/ WorkerPoll \/ WorkerRestart \/ UNCHANGED vars
           \/ \E o \in Orders : TimePasses(o)
           \/ \E s \in Sessions :
                 \/ \E v \in Variants : LockVariant(s, v)
                 \/ \E u \in Users : CheckoutBegin(s, u)
                 \/ CheckoutRefused(s) \/ CheckoutConflict(s)
                 \/ FlushOrder(s)
                 \/ AdminRefused(s)
                 \/ EditStep(s)
                 \/ Abort(s) \/ DeadlockVictim(s)
    PROVE  Quiet
<1> USE DEF IInv
<1>1. CASE UNCHANGED <<order, payment, orderSeq, tx, lock>>
  BY <1>1 DEF Quiet, SameStatuses, GoesOn
<1>2. CASE CartStep \/ WorkerPoll \/ WorkerRestart \/ UNCHANGED vars
  <2>1. ASSUME CartStep PROVE UNCHANGED <<order, payment, orderSeq, tx, lock>>
    <3>1. ASSUME NEW u \in Users, NEW items \in SUBSET cart[u],
                 RemoveItems(u, items) \/ \E selected \in BOOLEAN : SelectItems(u, items, selected)
          PROVE  UNCHANGED <<order, payment, orderSeq, tx, lock>>
      BY <3>1 DEF SelectItems, RemoveItems
    <3>2. ASSUME NEW u \in Users, NEW q \in Quantities,
                 \/ \E v \in Variants : AddItem(u, v, q)
                 \/ \E g \in Looks, vs \in SUBSET Variants : AddLook(u, g, vs, q)
                 \/ \E i \in cart[u] : ChangeQuantity(u, i, q)
          PROVE  UNCHANGED <<order, payment, orderSeq, tx, lock>>
      BY <3>2 DEF AddItem, AddLook, ChangeQuantity
    <3>3. QED
      BY <2>1, <3>1, <3>2 DEF CartStep
  <2>2. ASSUME WorkerPoll \/ WorkerRestart \/ UNCHANGED vars
        PROVE  UNCHANGED <<order, payment, orderSeq, tx, lock>>
    BY <2>2 DEF WorkerPoll, WorkerRestart, vars, shopRows
  <2>3. QED
    BY <1>1, <1>2, <2>1, <2>2
<1>3. ASSUME NEW o \in Orders, TimePasses(o)
      PROVE  Quiet
  <2>1. payment[o] \in PaymentRecord /\ payment' = [payment EXCEPT ![o].due = TRUE]
    BY <1>3 DEF TypeOK, TimePasses
  <2>2. UNCHANGED <<order, orderSeq, tx, lock>>
    BY <1>3 DEF TimePasses
  <2>3. \A p \in Orders : /\ payment'[p].status = payment[p].status
                          /\ payment'[p].released = payment[p].released
    BY <2>1 DEF TypeOK, PaymentRecord
  <2>4. QED
    BY <2>2, <2>3 DEF Quiet, SameStatuses, GoesOn
<1>4. ASSUME NEW s \in Sessions, NEW v \in Variants, LockVariant(s, v)
      PROVE  Quiet
  <2>1. lock' = Locks!WithRows(lock, {VariantLock(v)}, s)
        /\ tx' = [tx EXCEPT ![s].need = @ \ {v}]
        /\ UNCHANGED shopRows
    BY <1>4 DEF LockVariant
  <2>2. \A o \in Orders : lock'[PaymentRow(o)] = lock[PaymentRow(o)]
    BY <2>1, LockEffect, PaymentRowsDiffer
  <2>3. \A t \in Sessions : /\ tx'[t].kind = tx[t].kind
                            /\ tx'[t].order = tx[t].order
                            /\ tx'[t].target = tx[t].target
                            /\ tx'[t].step = tx[t].step
    BY <2>1 DEF TypeOK, Transaction
  <2>4. QED
    BY <2>1, <2>2, <2>3 DEF Quiet, SameStatuses, GoesOn, shopRows
<1>5. ASSUME NEW s \in Sessions, NEW u \in Users, CheckoutBegin(s, u)
      PROVE  Quiet
  <2>1. lock' = Locks!WithRows(lock, {CartRow(u)}, s) /\ UNCHANGED shopRows
    BY <1>5 DEF CheckoutBegin
  <2>2. \A o \in Orders : lock'[PaymentRow(o)] = lock[PaymentRow(o)]
    BY <2>1, LockEffect, PaymentRowsDiffer
  <2>3. /\ tx'[s].kind = "checkout" /\ tx'[s].step = "variants"
        /\ \A t \in Sessions \ {s} : tx'[t] = tx[t]
    BY <1>5 DEF CheckoutBegin, CheckoutOf, TypeOK, IdleTx
  <2>4. QED
    BY <2>1, <2>2, <2>3 DEF Quiet, SameStatuses, GoesOn, EmptyHanded, shopRows
<1>6. ASSUME NEW s \in Sessions, EndTx(s), UNCHANGED <<orderSeq, order, payment>>
      PROVE  Quiet
  BY <1>6, EndIsQuiet
<1>7. ASSUME NEW s \in Sessions,
             CheckoutRefused(s) \/ CheckoutConflict(s) \/ AdminRefused(s)
               \/ Abort(s) \/ DeadlockVictim(s)
      PROVE  Quiet
  BY <1>6, <1>7
     DEF CheckoutRefused, CheckoutConflict, AdminRefused, Abort, DeadlockVictim, Rollback, shopRows
<1>8. ASSUME NEW s \in Sessions, FlushOrder(s)
      PROVE  Quiet
  <2> DEFINE o == tx[s].order
             need == IF ReleasesStock(tx[s].target) /\ ~payment[o].released
                     THEN VariantsOf(order[o].items) ELSE {}
  <2>1. /\ lock' = Locks!WithRows(lock, {OrderRow(o)}, s)
        /\ tx' = [tx EXCEPT ![s].step = "variants", ![s].need = need]
        /\ tx[s].kind \in PaymentRequests
        /\ UNCHANGED shopRows
    BY <1>8 DEF FlushOrder
  <2>2. o \in Orders
    BY <2>1 DEF RequestOwnsPayment, OwnsPayment
  <2> HIDE DEF o, need
  <2>3. \A p \in Orders : lock'[PaymentRow(p)] = lock[PaymentRow(p)]
    BY <2>1, <2>2, LockEffect, PaymentRowsDiffer
  <2>4. \A t \in Sessions : /\ tx'[t].kind = tx[t].kind
                            /\ tx'[t].order = tx[t].order
                            /\ tx'[t].target = tx[t].target
                            /\ tx'[t].step \in {tx[t].step, "variants"}
    BY <2>1 DEF TypeOK, Transaction
  <2>5. QED
    BY <2>1, <2>3, <2>4 DEF Quiet, SameStatuses, GoesOn, shopRows
<1>9. ASSUME NEW s \in Sessions, EditStep(s)
      PROVE  Quiet
  <2>1. ASSUME NEW v \in Variants, NEW row \in EditedRows, EditBegin(s, v, row)
        PROVE  Quiet
    <3>1. UNCHANGED <<shopRows, lock>>
      BY <2>1 DEF EditBegin
    <3>2. tx'[s].kind = "edit" /\ \A t \in Sessions \ {s} : tx'[t] = tx[t]
      BY <2>1 DEF EditBegin, TypeOK, IdleTx
    <3>3. QED
      BY <3>1, <3>2 DEF Quiet, SameStatuses, GoesOn, EmptyHanded, shopRows
  <2>2. ASSUME NEW v \in Variants, EditCommit(s, v) \/ EditConflict(s, v)
        PROVE  Quiet
    BY <1>6, <2>2 DEF EditCommit, EditConflict, Rollback
  <2>3. QED
    BY <1>9, <2>1, <2>2 DEF EditStep
<1>10. QED
  BY <1>2, <1>3, <1>4, <1>5, <1>7, <1>8, <1>9

(***************************************************************************)
(* A payment request begins: the row of the payment was free, so the       *)
(* sessions that own a payment own another one.                            *)
(***************************************************************************)
LEMMA PaymentBeginIsQuiet ==
    ASSUME IInv, NEW s \in Sessions, NEW o \in Orders, NEW kind \in PaymentRequests,
           PaymentBegin(s, kind, o)
    PROVE  Quiet
<1> USE DEF IInv
<1> DEFINE rows == RowsOfRequest(kind, o)
           target == PaymentOutcome(kind, payment[o])
<1>1. /\ lock' = Locks!WithRows(lock, rows, s)
      /\ \A r \in rows : lock[r] = Nobody
      /\ UNCHANGED shopRows
  BY DEF PaymentBegin
<1>2. /\ tx'[s].kind = kind /\ tx'[s].order = o /\ tx'[s].target = target
      /\ \A t \in Sessions \ {s} : tx'[t] = tx[t]
  BY DEF PaymentBegin, TypeOK, IdleTx
<1>3. target # "absent" /\ PaymentActive(o)
  BY DEF PaymentBegin, PaymentOutcome, PaymentActive
<1>4. target \in {"SUBMITTED"} \cup SettledPaymentStatuses
  BY <1>3, OutcomeType DEF SettledPaymentStatuses
<1>5. PaymentRow(o) \in rows
  BY DEF RowsOfRequest
<1> HIDE DEF rows, target
<1>6. lock'[PaymentRow(o)] = s
  BY <1>1, <1>5, RowsAreRows, Locking DEF TypeOK
<1>7. \A t \in Sessions : \A p \in Orders :
         lock[PaymentRow(p)] = t => lock'[PaymentRow(p)] = t
  <2> SUFFICES ASSUME NEW t \in Sessions, NEW p \in Orders, lock[PaymentRow(p)] = t
               PROVE  lock'[PaymentRow(p)] = t
    OBVIOUS
  <2>1. PaymentRow(p) \notin rows
    BY <1>1, NobodyAssumption
  <2>2. QED
    BY <1>1, <2>1, RowsAreRows, Locking DEF TypeOK
<1>8. PaymentActive(o)'
  BY <1>1, <1>3 DEF PaymentActive, shopRows
<1>9. BeginsSoundly(s)
  BY <1>2, <1>4, <1>6, <1>8 DEF BeginsSoundly, OwnsPayment, MayWrite, PaymentRequests
<1>10. \A t \in Sessions \ {s} : GoesOn(t)
  BY <1>2, <1>7 DEF GoesOn
<1>11. QED
  BY <1>1, <1>9, <1>10 DEF Quiet, SameStatuses, shopRows

LEMMA AdminBeginIsQuiet ==
    ASSUME IInv, NEW s \in Sessions, NEW o \in Orders, NEW status \in SellerStatuses,
           AdminBegin(s, o, status)
    PROVE  Quiet
<1> USE DEF IInv
<1>1. /\ lock' = Locks!WithRows(lock, {OrderRow(o)}, s)
      /\ Placed(o)
      /\ UNCHANGED shopRows
  BY DEF AdminBegin
<1>2. /\ tx'[s].kind = "admin" /\ tx'[s].order = o /\ tx'[s].target = status
      /\ tx'[s].step = "payment"
      /\ \A t \in Sessions \ {s} : tx'[t] = tx[t]
  BY DEF AdminBegin, TypeOK, IdleTx
<1>3. \A p \in Orders : lock'[PaymentRow(p)] = lock[PaymentRow(p)]
  BY <1>1, LockEffect, PaymentRowsDiffer
<1>4. status \in OrderStatuses /\ Placed(o)'
  BY <1>1, SellerStatusesAssumption DEF OrderStatuses, Placed, shopRows
<1>5. BeginsSoundly(s)
  BY <1>2, <1>4 DEF BeginsSoundly, OwnsPayment, MayWrite, PaymentRequests
<1>6. QED
  BY <1>1, <1>2, <1>3, <1>5 DEF Quiet, SameStatuses, GoesOn, shopRows

LEMMA AdminReadsIsQuiet ==
    ASSUME IInv, NEW s \in Sessions, AdminReadsPayment(s)
    PROVE  Quiet
<1> USE DEF IInv
<1>1. /\ tx[s].kind = "admin"
      /\ ~PaymentActive(tx[s].order)
      /\ tx' = [tx EXCEPT ![s].step = "write"]
      /\ UNCHANGED <<shopRows, lock>>
  BY DEF AdminReadsPayment
<1>2. tx[s] \in Transaction
  BY DEF TypeOK
<1>3. /\ tx'[s].kind = "admin" /\ tx'[s].order = tx[s].order /\ tx'[s].target = tx[s].target
      /\ \A t \in Sessions \ {s} : tx'[t] = tx[t]
  BY <1>1, <1>2 DEF TypeOK, Transaction
<1>4. MayWrite(s)
  BY DEF AdminMayWrite
<1>5. MayWrite(s)'
  BY <1>1, <1>3, <1>4 DEF MayWrite, Placed, PaymentActive, shopRows
<1>6. BeginsSoundly(s)
  BY <1>3, <1>5 DEF BeginsSoundly, OwnsPayment, PaymentRequests
<1>7. QED
  BY <1>1, <1>3, <1>6 DEF Quiet, SameStatuses, GoesOn, shopRows

-----------------------------------------------------------------------------
(***************************************************************************)
(* The steps that number, place, pay and move an order.                    *)
(***************************************************************************)
LEMMA NumberKeepsInv ==
    ASSUME IInv, TypeOK', NEW s \in Sessions, CheckoutNumber(s)
    PROVE  IInv'
<1> USE DEF IInv
<1>1. /\ tx[s].kind = "checkout"
      /\ orderSeq < MaxOrderNumber
      /\ orderSeq' = orderSeq + 1
      /\ tx' = [tx EXCEPT ![s].step = "write", ![s].order = orderSeq + 1]
      /\ UNCHANGED <<order, payment, lock>>
  BY DEF CheckoutNumber
<1>2. /\ tx'[s].kind = "checkout" /\ tx'[s].order = orderSeq + 1
      /\ \A t \in Sessions \ {s} : tx'[t] = tx[t]
  <2>1. tx[s] \in Transaction
    BY DEF TypeOK
  <2>2. QED
    BY <1>1, <2>1 DEF TypeOK, Transaction
<1>3. orderSeq \in Nat /\ orderSeq + 1 \in Orders
  BY <1>1, BoundsAssumption DEF TypeOK, Orders
<1>4. ReleasedExactlyOnFailure' /\ ActivePaymentKeepsOrderNew' /\ PlacedHasPayment'
  BY <1>1 DEF ReleasedExactlyOnFailure, ActivePaymentKeepsOrderNew, PaymentActive,
              PlacedHasPayment, Placed
<1>5. RequestOwnsPayment'
  <2> SUFFICES ASSUME NEW t \in Sessions
               PROVE  OwnsPayment(t)'
    BY DEF RequestOwnsPayment
  <2>1. CASE t = s
    BY <1>2, <2>1 DEF OwnsPayment, PaymentRequests
  <2>2. CASE t # s
    BY <1>1, <1>2, <2>2 DEF RequestOwnsPayment, OwnsPayment, PaymentActive
  <2>3. QED
    BY <2>1, <2>2
<1>6. AdminMayWrite'
  <2> SUFFICES ASSUME NEW t \in Sessions
               PROVE  MayWrite(t)'
    BY DEF AdminMayWrite
  <2>1. CASE t = s
    BY <1>2, <2>1 DEF MayWrite
  <2>2. CASE t # s
    BY <1>1, <1>2, <2>2 DEF AdminMayWrite, MayWrite, Placed, PaymentActive
  <2>3. QED
    BY <2>1, <2>2
<1>7. NumbersAreFresh'
  <2>1. \A o \in Orders : Placed(o)' <=> Placed(o)
    BY <1>1 DEF Placed
  <2>2. ~Placed(orderSeq + 1)
    BY <1>3 DEF NumbersAreFresh
  <2>3. \A o \in Orders : o > orderSeq' => ~Placed(o)'
    <3>1. \A o \in Orders : o \in Nat
      BY DEF Orders
    <3>2. \A o \in Orders : o > orderSeq' => o > orderSeq
      BY <1>1, <1>3, <3>1
    <3>3. QED
      BY <2>1, <3>2 DEF NumbersAreFresh
  <2>4. \A t \in Sessions \ {s} : Numbered(t)' => Numbered(t) /\ tx'[t].order = tx[t].order
    BY <1>2 DEF Numbered
  <2>5. \A t \in Sessions \ {s} : Numbered(t)' => /\ tx'[t].order \in 1 .. orderSeq
                                                  /\ ~Placed(tx'[t].order)
    BY <2>4 DEF NumbersAreFresh
  <2>6. 1 .. orderSeq \subseteq Orders /\ 1 .. orderSeq \subseteq 1 .. orderSeq'
        /\ orderSeq + 1 \in 1 .. orderSeq' /\ orderSeq + 1 \notin 1 .. orderSeq
    BY <1>1, <1>3, BoundsAssumption DEF Orders
  <2>7. \A t \in Sessions : Numbered(t)' => /\ tx'[t].order \in 1 .. orderSeq'
                                            /\ ~Placed(tx[t].order)'
    <3> SUFFICES ASSUME NEW t \in Sessions, Numbered(t)'
                 PROVE  tx'[t].order \in 1 .. orderSeq' /\ ~Placed(tx[t].order)'
      OBVIOUS
    <3>1. tx'[t].order \in Orders /\ tx'[t].order \in 1 .. orderSeq'
          /\ ~Placed(tx'[t].order)
      BY <1>2, <1>3, <2>2, <2>5, <2>6
    <3>2. QED
      BY <1>1, <3>1 DEF Placed
  <2>8. \A t, r \in Sessions :
           Numbered(t)' /\ Numbered(r)' /\ tx'[t].order = tx'[r].order => t = r
    BY <1>2, <2>4, <2>5, <2>6 DEF NumbersAreFresh
  <2>9. QED
    BY <2>3, <2>7, <2>8 DEF NumbersAreFresh
<1>8. QED
  BY <1>4, <1>5, <1>6, <1>7

(***************************************************************************)
(* Statuses of one order change.  What the sessions hold stays sound if    *)
(* an active payment that another session owns is not touched, and no      *)
(* order disappears.                                                       *)
(***************************************************************************)
LEMMA PlacingKeepsInv ==
    ASSUME IInv, TypeOK', NEW s \in Sessions, CheckoutCommit(s)
    PROVE  IInv'
<1> USE DEF IInv
<1> DEFINE o == tx[s].order
<1>1. Numbered(s) /\ EndTx(s) /\ UNCHANGED orderSeq
  BY DEF CheckoutCommit, Numbered
<1>2. o \in 1 .. orderSeq /\ ~Placed(o)
  BY <1>1 DEF NumbersAreFresh
<1>3. o \in Orders
  BY <1>2, BoundsAssumption DEF Orders, TypeOK
<1>4. payment[o].status = "absent" /\ ~PaymentActive(o)
  BY <1>2, <1>3 DEF PlacedHasPayment, PaymentActive, ActivePaymentStatuses
<1>5. /\ order'[o].status = "NEW"
      /\ payment'[o].status = "PENDING" /\ payment'[o].released = FALSE
      /\ \A p \in Orders \ {o} : order'[p] = order[p] /\ payment'[p] = payment[p]
  BY <1>3 DEF CheckoutCommit, TypeOK
<1>6. EmptyHanded(s) /\ \A t \in Sessions \ {s} : tx'[t] = tx[t] /\ GoesOn(t)
  BY <1>1, EndEffect
<1> HIDE DEF o
<1>7. /\ \A p \in Orders : Placed(p)' <=> Placed(p) \/ p = o
      /\ \A p \in Orders \ {o} : PaymentActive(p)' <=> PaymentActive(p)
  BY <1>5 DEF Placed, PaymentActive
<1>8. ReleasedExactlyOnFailure'
  BY <1>5 DEF ReleasedExactlyOnFailure, ReleasesStock
<1>9. ActivePaymentKeepsOrderNew'
  BY <1>5 DEF ActivePaymentKeepsOrderNew, PaymentActive
<1>10. PlacedHasPayment'
  BY <1>5 DEF PlacedHasPayment, Placed
<1>11. RequestOwnsPayment'
  <2> SUFFICES ASSUME NEW t \in Sessions
               PROVE  OwnsPayment(t)'
    BY DEF RequestOwnsPayment
  <2>1. CASE t = s
    BY <1>6, <2>1 DEF EmptyHanded, OwnsPayment, PaymentRequests
  <2>2. CASE t # s
    BY <1>4, <1>6, <1>7, <2>2 DEF GoesOn, RequestOwnsPayment, OwnsPayment
  <2>3. QED
    BY <2>1, <2>2
<1>12. AdminMayWrite'
  <2> SUFFICES ASSUME NEW t \in Sessions
               PROVE  MayWrite(t)'
    BY DEF AdminMayWrite
  <2>1. CASE t = s
    BY <1>6, <2>1 DEF EmptyHanded, MayWrite
  <2>2. CASE t # s
    BY <1>2, <1>6, <1>7, <2>2 DEF AdminMayWrite, MayWrite, o
  <2>3. QED
    BY <2>1, <2>2
<1>13. NumbersAreFresh'
  <2>1. ~Numbered(s)'
    BY <1>6 DEF EmptyHanded, Numbered
  <2>2. \A t \in Sessions \ {s} : /\ Numbered(t)' => Numbered(t)
                                  /\ tx'[t] = tx[t]
    BY <1>6 DEF Numbered
  <2>3. \A t \in Sessions \ {s} : Numbered(t) => tx[t].order # o
    BY <1>1 DEF NumbersAreFresh, o
  <2>4. \A p \in Orders : p > orderSeq => p # o
    BY <1>2 DEF TypeOK, Orders
  <2>5. 1 .. orderSeq \subseteq Orders
    BY BoundsAssumption DEF TypeOK, Orders
  <2>6. \A p \in Orders : p > orderSeq' => ~Placed(p)'
    BY <1>1, <1>7, <2>4 DEF NumbersAreFresh
  <2>7. \A t \in Sessions : Numbered(t)' => /\ tx'[t].order \in 1 .. orderSeq'
                                            /\ ~Placed(tx[t].order)'
    <3> SUFFICES ASSUME NEW t \in Sessions, Numbered(t)'
                 PROVE  tx'[t].order \in 1 .. orderSeq' /\ ~Placed(tx[t].order)'
      OBVIOUS
    <3>1. t # s /\ Numbered(t) /\ tx'[t] = tx[t] /\ tx[t].order # o
      BY <2>1, <2>2, <2>3
    <3>2. tx[t].order \in 1 .. orderSeq /\ ~Placed(tx[t].order)
      BY <3>1 DEF NumbersAreFresh
    <3>3. order'[tx[t].order] = order[tx[t].order]
      BY <1>5, <2>5, <3>1, <3>2
    <3>4. QED
      BY <1>1, <3>1, <3>2, <3>3 DEF Placed
  <2>8. QED
    BY <2>1, <2>2, <2>6, <2>7 DEF NumbersAreFresh
<1>14. QED
  BY <1>8, <1>9, <1>10, <1>11, <1>12, <1>13

(***************************************************************************)
(* A request decides about a payment.  It owns the row of the payment, so  *)
(* no other session holds a decision about it, and the payment is active   *)
(* until now.                                                              *)
(***************************************************************************)
LEMMA DecisionEffect ==
    ASSUME IInv, NEW s \in Sessions, PaymentCommit(s), NEW o, o = tx[s].order
    PROVE  /\ o \in Orders /\ PaymentActive(o) /\ order[o].status = "NEW"
           /\ tx[s].target \in {"SUBMITTED"} \cup SettledPaymentStatuses
           /\ payment'[o].status = tx[s].target
           /\ payment'[o].released <=> ReleasesStock(tx[s].target)
           /\ order'[o].status \in OrderStatuses
           /\ tx[s].target = "SUBMITTED" => order'[o].status = "NEW"
           /\ \A p \in Orders \ {o} : order'[p] = order[p] /\ payment'[p] = payment[p]
           /\ EndTx(s) /\ UNCHANGED orderSeq
<1> USE DEF IInv
<1> DEFINE target == tx[s].target
           after == OrderStatusAfter(target)
           new == [payment[o] EXCEPT
                     !.status = target,
                     !.released = payment[o].released \/ ReleasesStock(target)]
<1>1. /\ o \in Orders /\ PaymentActive(o)
      /\ target \in {"SUBMITTED"} \cup SettledPaymentStatuses
  BY DEF PaymentCommit, RequestOwnsPayment, OwnsPayment
<1>2. payment[o] \in PaymentRecord /\ order[o] \in OrderRecord
  BY <1>1 DEF TypeOK
<1>3. order[o].status = "NEW"
  BY <1>1 DEF ActivePaymentKeepsOrderNew
<1>4. ~payment[o].released
  BY <1>1 DEF ReleasedExactlyOnFailure, PaymentActive, ReleasesStock, ActivePaymentStatuses
<1>5. payment' = [payment EXCEPT ![o] = new]
  BY DEF PaymentCommit
<1>6. new.status = target /\ (new.released <=> ReleasesStock(target))
  <2>1. new.status = target
    BY <1>2 DEF PaymentRecord
  <2>2. new.released = (payment[o].released \/ ReleasesStock(target))
    BY <1>2 DEF PaymentRecord
  <2>3. QED
    BY <1>4, <2>1, <2>2
<1>7. IF target # "SUBMITTED" /\ after # tx[s].was
      THEN order' = [order EXCEPT ![o].status = after] ELSE order' = order
  BY DEF PaymentCommit
<1>8. EndTx(s) /\ UNCHANGED orderSeq
  BY DEF PaymentCommit
<1>9. after \in OrderStatuses
  BY DEF OrderStatusAfter, OrderStatuses
<1> HIDE DEF new, after
<1>10. /\ payment'[o] = new
       /\ \A p \in Orders \ {o} : payment'[p] = payment[p]
  BY <1>1, <1>5 DEF TypeOK
<1>11. /\ order'[o].status \in {"NEW", after}
       /\ target = "SUBMITTED" => order'[o].status = "NEW"
       /\ \A p \in Orders \ {o} : order'[p] = order[p]
  BY <1>1, <1>2, <1>3, <1>7 DEF TypeOK, OrderRecord
<1>12. order'[o].status \in OrderStatuses
  BY <1>9, <1>11 DEF OrderStatuses
<1>13. QED
  BY <1>1, <1>3, <1>6, <1>8, <1>10, <1>11, <1>12

LEMMA DecisionKeepsInv ==
    ASSUME IInv, TypeOK', NEW s \in Sessions, PaymentCommit(s)
    PROVE  IInv'
<1> USE DEF IInv
<1> DEFINE o == tx[s].order
<1>1. /\ o \in Orders /\ PaymentActive(o) /\ order[o].status = "NEW"
      /\ tx[s].target \in {"SUBMITTED"} \cup SettledPaymentStatuses
      /\ payment'[o].status = tx[s].target
      /\ order'[o].status \in OrderStatuses
      /\ tx[s].target = "SUBMITTED" => order'[o].status = "NEW"
      /\ \A p \in Orders \ {o} : order'[p] = order[p] /\ payment'[p] = payment[p]
      /\ UNCHANGED orderSeq
  BY DecisionEffect
<1>2. payment'[o].released <=> ReleasesStock(tx[s].target)
  BY DecisionEffect
<1>3. EmptyHanded(s) /\ \A t \in Sessions \ {s} : tx'[t] = tx[t] /\ GoesOn(t)
  BY DecisionEffect, EndEffect
<1>4. \A t \in Sessions \ {s} : tx[t].kind \in PaymentRequests => tx[t].order # o
  BY DEF RequestOwnsPayment, OwnsPayment, PaymentCommit
<1> HIDE DEF o
<1>5. ReleasedExactlyOnFailure'
  BY <1>1, <1>2 DEF ReleasedExactlyOnFailure, ReleasesStock
<1>6. ActivePaymentKeepsOrderNew'
  BY <1>1 DEF ActivePaymentKeepsOrderNew, PaymentActive, ActivePaymentStatuses,
              SettledPaymentStatuses
<1>7. /\ \A p \in Orders : Placed(p)' <=> Placed(p)
      /\ \A p \in Orders \ {o} : PaymentActive(p)' <=> PaymentActive(p)
  BY <1>1 DEF Placed, PaymentActive, OrderStatuses
<1>8. PlacedHasPayment'
  BY <1>1, <1>7 DEF PlacedHasPayment, Placed, OrderStatuses, SettledPaymentStatuses
<1>9. RequestOwnsPayment'
  <2> SUFFICES ASSUME NEW t \in Sessions
               PROVE  OwnsPayment(t)'
    BY DEF RequestOwnsPayment
  <2>1. CASE t = s
    BY <1>3, <2>1 DEF EmptyHanded, OwnsPayment, PaymentRequests
  <2>2. CASE t # s
    BY <1>3, <1>4, <1>7, <2>2 DEF GoesOn, RequestOwnsPayment, OwnsPayment
  <2>3. QED
    BY <2>1, <2>2
<1>10. AdminMayWrite'
  <2> SUFFICES ASSUME NEW t \in Sessions
               PROVE  MayWrite(t)'
    BY DEF AdminMayWrite
  <2>1. CASE t = s
    BY <1>3, <2>1 DEF EmptyHanded, MayWrite
  <2>2. CASE t # s
    BY <1>1, <1>3, <1>7, <2>2 DEF AdminMayWrite, MayWrite
  <2>3. QED
    BY <2>1, <2>2
<1>11. NumbersAreFresh'
  <2>1. \A t \in Sessions : Numbered(t)' => Numbered(t) /\ tx'[t] = tx[t]
    BY <1>3 DEF EmptyHanded, Numbered
  <2>2. 1 .. orderSeq \subseteq Orders
    BY BoundsAssumption DEF TypeOK, Orders
  <2>3. QED
    BY <1>1, <1>7, <2>1, <2>2 DEF NumbersAreFresh
<1>12. QED
  BY <1>5, <1>6, <1>8, <1>9, <1>10, <1>11

(***************************************************************************)
(* The status endpoint writes: the payment is settled.                     *)
(***************************************************************************)
LEMMA MoveEffect ==
    ASSUME IInv, NEW s \in Sessions, AdminCommit(s), NEW o, o = tx[s].order
    PROVE  /\ o \in Orders /\ Placed(o) /\ ~PaymentActive(o)
           /\ order'[o].status \in OrderStatuses
           /\ \A p \in Orders \ {o} : order'[p] = order[p]
           /\ EndTx(s) /\ UNCHANGED <<orderSeq, payment>>
<1> USE DEF IInv
<1> DEFINE target == tx[s].target
           new == [order[o] EXCEPT
                     !.status = target,
                     !.delivered = order[o].delivered \/ target = "DELIVERED"]
<1>1. o \in Orders /\ Placed(o) /\ ~PaymentActive(o) /\ target \in OrderStatuses
  BY DEF AdminCommit, AdminMayWrite, MayWrite
<1>2. order' = [order EXCEPT ![o] = new] /\ EndTx(s) /\ UNCHANGED <<orderSeq, payment>>
  BY DEF AdminCommit
<1>3. order[o] \in OrderRecord
  BY <1>1 DEF TypeOK
<1>4. new.status = target
  BY <1>3 DEF OrderRecord
<1> HIDE DEF new
<1>5. order'[o] = new /\ \A p \in Orders \ {o} : order'[p] = order[p]
  BY <1>1, <1>2 DEF TypeOK
<1>6. QED
  BY <1>1, <1>2, <1>4, <1>5

LEMMA MoveKeepsInv ==
    ASSUME IInv, TypeOK', NEW s \in Sessions, AdminCommit(s)
    PROVE  IInv'
<1> USE DEF IInv
<1> DEFINE o == tx[s].order
<1>1. /\ o \in Orders /\ Placed(o) /\ ~PaymentActive(o)
      /\ order'[o].status \in OrderStatuses
      /\ \A p \in Orders \ {o} : order'[p] = order[p]
      /\ UNCHANGED <<orderSeq, payment>>
  BY MoveEffect
<1>2. EmptyHanded(s) /\ \A t \in Sessions \ {s} : tx'[t] = tx[t] /\ GoesOn(t)
  BY MoveEffect, EndEffect
<1> HIDE DEF o
<1>3. /\ \A p \in Orders : Placed(p)' <=> Placed(p)
      /\ \A p \in Orders : PaymentActive(p)' <=> PaymentActive(p)
  BY <1>1 DEF Placed, PaymentActive, OrderStatuses
<1>4. ReleasedExactlyOnFailure'
  BY <1>1 DEF ReleasedExactlyOnFailure
<1>5. ActivePaymentKeepsOrderNew'
  BY <1>1, <1>3 DEF ActivePaymentKeepsOrderNew
<1>6. PlacedHasPayment'
  BY <1>1, <1>3 DEF PlacedHasPayment
<1>7. RequestOwnsPayment'
  <2> SUFFICES ASSUME NEW t \in Sessions
               PROVE  OwnsPayment(t)'
    BY DEF RequestOwnsPayment
  <2>1. CASE t = s
    BY <1>2, <2>1 DEF EmptyHanded, OwnsPayment, PaymentRequests
  <2>2. CASE t # s
    BY <1>2, <1>3, <2>2 DEF GoesOn, RequestOwnsPayment, OwnsPayment
  <2>3. QED
    BY <2>1, <2>2
<1>8. AdminMayWrite'
  <2> SUFFICES ASSUME NEW t \in Sessions
               PROVE  MayWrite(t)'
    BY DEF AdminMayWrite
  <2>1. CASE t = s
    BY <1>2, <2>1 DEF EmptyHanded, MayWrite
  <2>2. CASE t # s
    BY <1>2, <1>3, <2>2 DEF AdminMayWrite, MayWrite
  <2>3. QED
    BY <2>1, <2>2
<1>9. NumbersAreFresh'
  <2>1. \A t \in Sessions : Numbered(t)' => Numbered(t) /\ tx'[t] = tx[t]
    BY <1>2 DEF EmptyHanded, Numbered
  <2>2. 1 .. orderSeq \subseteq Orders
    BY BoundsAssumption DEF TypeOK, Orders
  <2>3. QED
    BY <1>1, <1>3, <2>1, <2>2 DEF NumbersAreFresh
<1>10. QED
  BY <1>4, <1>5, <1>6, <1>7, <1>8, <1>9

-----------------------------------------------------------------------------
LEMMA InvInit == Init => IInv
<1> SUFFICES ASSUME Init PROVE IInv
  OBVIOUS
<1>1. TypeOK
  BY TypeInit
<1>2. \A o \in Orders : /\ order[o].status = "absent"
                        /\ payment[o].status = "absent" /\ payment[o].released = FALSE
  BY DEF Init, AbsentOrder, AbsentPayment
<1>3. \A s \in Sessions : tx[s].kind = "idle"
  BY DEF Init, IdleTx
<1>4. ReleasedExactlyOnFailure /\ ActivePaymentKeepsOrderNew /\ PlacedHasPayment
  BY <1>2 DEF ReleasedExactlyOnFailure, ReleasesStock, ActivePaymentKeepsOrderNew, PaymentActive,
              ActivePaymentStatuses, PlacedHasPayment, Placed
<1>5. RequestOwnsPayment /\ AdminMayWrite
  BY <1>3 DEF RequestOwnsPayment, OwnsPayment, PaymentRequests, AdminMayWrite, MayWrite
<1>6. NumbersAreFresh
  BY <1>2, <1>3 DEF NumbersAreFresh, Numbered, Placed
<1>7. QED
  BY <1>1, <1>4, <1>5, <1>6 DEF IInv

(***************************************************************************)
(* Every step is quiet or one of the four that change an order.            *)
(***************************************************************************)
LEMMA StepsAreQuiet ==
    ASSUME IInv, [Next]_vars
    PROVE  \/ Quiet
           \/ \E s \in Sessions : \/ CheckoutNumber(s) \/ CheckoutCommit(s)
                                  \/ PaymentCommit(s) \/ AdminCommit(s)
<1>1. ASSUME NEW s \in Sessions, NEW o \in Orders,
             \/ \E kind \in PaymentRequests : PaymentRequest(s, kind, o)
             \/ WorkerVisit(s, o)
      PROVE  Quiet
  <2>1. CASE \E kind \in PaymentRequests : PaymentBegin(s, kind, o)
    BY <2>1, PaymentBeginIsQuiet
  <2>2. CASE UNCHANGED <<shopRows, lock, tx, bounds>>
    BY <2>2 DEF Quiet, SameStatuses, GoesOn, shopRows
  <2>3. QED
    BY <1>1, <2>1, <2>2 DEF PaymentRequest, WorkerVisit, PaymentRequests
<1>2. ASSUME NEW s \in Sessions,
             \/ \E o \in Orders, status \in SellerStatuses : AdminBegin(s, o, status)
             \/ AdminReadsPayment(s)
      PROVE  Quiet
  BY <1>2, AdminBeginIsQuiet, AdminReadsIsQuiet
<1>3. ASSUME NEW s \in Sessions, SessionStep(s)
      PROVE  \/ Quiet
             \/ CheckoutNumber(s) \/ CheckoutCommit(s) \/ PaymentCommit(s) \/ AdminCommit(s)
  <2>1. CASE CheckoutStep(s)
    BY <2>1, QuietSteps DEF CheckoutStep
  <2>2. CASE PaymentStep(s)
    BY <2>2, <1>1, QuietSteps DEF PaymentStep
  <2>3. CASE AdminStep(s)
    BY <2>3, <1>2, QuietSteps DEF AdminStep
  <2>4. QED
    BY <1>1, <1>3, <2>1, <2>2, <2>3, QuietSteps DEF SessionStep
<1>4. QED
  BY <1>3, QuietSteps DEF Next

LEMMA InvStep == IInv /\ [Next]_vars => IInv'
<1> SUFFICES ASSUME IInv, [Next]_vars PROVE IInv'
  OBVIOUS
<1>1. TypeOK'
  BY TypeStep
<1>2. QED
  BY <1>1, StepsAreQuiet, QuietKeepsInv, NumberKeepsInv, PlacingKeepsInv, DecisionKeepsInv,
     MoveKeepsInv

(***************************************************************************)
(* The inductive invariant holds in every behaviour.                       *)
(***************************************************************************)
THEOREM Invariance == Spec => []IInv
<1>1. QED
  BY InvInit, InvStep, PTL DEF Spec

-----------------------------------------------------------------------------
(***************************************************************************)
(* Every row keeps its type: no quantity of a variant is ever negative,    *)
(* and no order number beyond the sequence is ever written.                *)
(***************************************************************************)
THEOREM TypeCorrect == Spec => []TypeOK
<1>1. IInv => TypeOK
  BY DEF IInv
<1>2. QED
  BY <1>1, Invariance, PTL

(***************************************************************************)
(* The units of an order are given back exactly when its payment failed.   *)
(***************************************************************************)
THEOREM StockReleasedOnFailure == Spec => []ReleasedExactlyOnFailure
<1>1. IInv => ReleasedExactlyOnFailure
  BY DEF IInv
<1>2. QED
  BY <1>1, Invariance, PTL

(***************************************************************************)
(* The status endpoint never moves an order whose payment is not settled.  *)
(***************************************************************************)
THEOREM UnpaidOrdersStayNew == Spec => []ActivePaymentKeepsOrderNew
<1>1. IInv => ActivePaymentKeepsOrderNew
  BY DEF IInv
<1>2. QED
  BY <1>1, Invariance, PTL

LEMMA StepChanges ==
    ASSUME IInv, [Next]_vars, NEW o \in Orders
    PROVE  /\ payment[o].status \in SettledPaymentStatuses
                => payment'[o].status = payment[o].status
           /\ Placed(o) /\ order'[o].status # order[o].status
                => payment'[o].status # payment[o].status \/ ~PaymentActive(o)
<1>1. CASE Quiet
  BY <1>1 DEF Quiet, SameStatuses
<1>2. ASSUME NEW s \in Sessions, CheckoutNumber(s)
      PROVE  UNCHANGED <<order, payment>>
  BY <1>2 DEF CheckoutNumber
<1>3. ASSUME NEW s \in Sessions, CheckoutCommit(s)
      PROVE  \/ ~Placed(o) /\ payment[o].status = "absent"
             \/ order'[o] = order[o] /\ payment'[o] = payment[o]
  <2>1. CASE o = tx[s].order
    <3>1. ~Placed(o)
      BY <1>3, <2>1 DEF CheckoutCommit, IInv, NumbersAreFresh, Numbered
    <3>2. QED
      BY <3>1 DEF IInv, PlacedHasPayment
  <2>2. CASE o # tx[s].order
    BY <1>3, <2>2 DEF CheckoutCommit, IInv, TypeOK
  <2>3. QED
    BY <2>1, <2>2
<1>4. ASSUME NEW s \in Sessions, PaymentCommit(s)
      PROVE  \/ order'[o] = order[o] /\ payment'[o] = payment[o]
             \/ /\ PaymentActive(o)
                /\ \/ payment'[o].status \in SettledPaymentStatuses
                   \/ order'[o].status = order[o].status
  <2>1. CASE o = tx[s].order
    BY <1>4, <2>1, DecisionEffect
  <2>2. CASE o # tx[s].order
    BY <1>4, <2>2, DecisionEffect
  <2>3. QED
    BY <2>1, <2>2
<1>5. ASSUME NEW s \in Sessions, AdminCommit(s)
      PROVE  payment' = payment /\ (~PaymentActive(o) \/ order'[o] = order[o])
  BY <1>5, MoveEffect
<1>6. QED
  BY <1>1, <1>2, <1>3, <1>4, <1>5, StepsAreQuiet
     DEF PaymentActive, ActivePaymentStatuses, SettledPaymentStatuses

(***************************************************************************)
(* A settled payment is final, however many sellers, customers and workers *)
(* race for it.                                                            *)
(***************************************************************************)
THEOREM SettledIsFinal == Spec => SettledPaymentIsFinal
<1>1. IInv /\ [Next]_vars
        => [\A o \in Orders : payment[o].status \in SettledPaymentStatuses
                                => payment'[o].status = payment[o].status]_vars
  BY StepChanges
<1>2. QED
  BY <1>1, Invariance, PTL DEF Spec, SettledPaymentIsFinal

(***************************************************************************)
(* The status of an order changes only together with its payment, or after *)
(* the payment is settled.                                                 *)
(***************************************************************************)
THEOREM StatusesFollowPayments == Spec => StatusFollowsPayment
<1>1. IInv /\ [Next]_vars
        => [\A o \in Orders :
              Placed(o) /\ order'[o].status # order[o].status
                => \/ payment'[o].status # payment[o].status
                   \/ ~PaymentActive(o)]_vars
  BY StepChanges
<1>2. QED
  BY <1>1, Invariance, PTL DEF Spec, StatusFollowsPayment
=============================================================================
