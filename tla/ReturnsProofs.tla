---------------------------- MODULE ReturnsProofs ----------------------------
(***************************************************************************)
(* Proofs about Returns, for any orders, items, variants, sessions and     *)
(* files, and for every value of the bounds.                               *)
(***************************************************************************)
EXTENDS Returns, SumLemmas, TLAPS

(***************************************************************************)
(* The inductive invariant.  A session that creates a request has the row  *)
(* of the order, and the order has no request yet; one that processes a    *)
(* request has its row, and the request stays approved.  What a request    *)
(* names was bought in its order.  A file that a session has saved belongs *)
(* to nobody else.                                                         *)
(***************************************************************************)
OwnsOrder(s) ==
    tx[s].kind = "create" =>
       /\ tx[s].order \in Orders
       /\ lock[OrderRow(tx[s].order)] = s
       /\ request[tx[s].order].status = "absent"
       /\ \A i \in Items : /\ tx[s].quantity[i] <= Bought[i]
                           /\ tx[s].quantity[i] > 0 => OrderOf[i] = tx[s].order

OwnsRequest(s) ==
    tx[s].kind = "process" =>
       /\ tx[s].order \in Orders
       /\ lock[ReturnRow(tx[s].order)] = s
       /\ request[tx[s].order].status = "APPROVED"
       /\ \A i \in Items : tx[s].target[i] <= request[tx[s].order].quantity[i]

SessionsOwnRows == \A s \in Sessions : OwnsOrder(s) /\ OwnsRequest(s)

Sound(o, r) ==
    /\ r.status = "absent" => r.files = {}
    /\ \A i \in Items :
          /\ r.restocked[i] <= r.quantity[i]
          /\ r.quantity[i] <= Bought[i]
          /\ r.quantity[i] > 0 => OrderOf[i] = o
          /\ r.status \in {"absent", "PENDING", "REJECTED"} => r.restocked[i] = 0

RequestsAreSound == \A o \in Orders : Sound(o, request[o])

SavedFilesAreOwn ==
    /\ \A s \in Sessions : /\ tx[s].saved \subseteq files
                           /\ tx[s].kind # "create" => tx[s].saved = {}
    /\ \A s, t \in Sessions : s # t => tx[s].saved \cap tx[t].saved = {}
    /\ \A s \in Sessions : \A o \in Orders \ misled : tx[s].saved \cap request[o].files = {}

FilesInv == SavedFilesAreOwn /\ EvidenceIsKept /\ FilesAreAccounted

IInv ==
    /\ TypeOK
    /\ SessionsOwnRows
    /\ RequestsAreSound
    /\ FilesInv

-----------------------------------------------------------------------------
LEMMA RowsAreRows ==
    /\ \A o \in Orders : OrderRow(o) \in Rows /\ ReturnRow(o) \in Rows
    /\ \A v \in Variants : VariantLock(v) \in Rows
    /\ \A o, p \in Orders : /\ OrderRow(o) # ReturnRow(p)
                            /\ OrderRow(o) = OrderRow(p) => o = p
                            /\ ReturnRow(o) = ReturnRow(p) => o = p
    /\ \A o \in Orders, v \in Variants : VariantLock(v) \notin {OrderRow(o), ReturnRow(o)}
  BY DEF Rows, OrderRow, ReturnRow, VariantLock

LEMMA NoUnitsType == NoUnits \in Quantities /\ \A i \in Items : NoUnits[i] = 0
  BY DEF NoUnits, Quantities

LEMMA NoRequestType == NoRequest \in Request
  BY NoUnitsType DEF NoRequest, Request

LEMMA IdleType == IdleTx \in Transaction
  BY NoUnitsType DEF IdleTx, Transaction, Kinds

LEMMA SelectionsType == Selections \subseteq Quantities
<1>1. UNION {0 .. Bought[i] : i \in Items} \subseteq Nat
  BY ItemsAssumption
<1> QED
  BY <1>1 DEF Selections, Quantities

LEMMA InvInit == Init => IInv
<1> SUFFICES ASSUME Init PROVE IInv
  OBVIOUS
<1> USE DEF Init
<1>1. TypeOK
  <2>1. order \in [Orders -> OrderRecord]
    BY DEF OrderRecord, OrderStatuses
  <2>2. request \in [Orders -> Request] /\ tx \in [Sessions -> Transaction]
    BY NoRequestType, IdleType
  <2>3. failures \in 0 .. MaxFailures
    BY BoundsAssumption
  <2> QED
    BY <2>1, <2>2, <2>3, ItemsAssumption DEF TypeOK
<1>2. SessionsOwnRows
  BY DEF SessionsOwnRows, OwnsOrder, OwnsRequest, IdleTx
<1>3. RequestsAreSound
  BY NoUnitsType, ItemsAssumption DEF RequestsAreSound, Sound, NoRequest
<1>4. FilesInv
  BY DEF FilesInv, SavedFilesAreOwn, EvidenceIsKept, FilesAreAccounted, IdleTx, NoRequest
<1> QED
  BY <1>1, <1>2, <1>3, <1>4 DEF IInv

-----------------------------------------------------------------------------
(***************************************************************************)
(* Locking and the end of a transaction.                                   *)
(***************************************************************************)
LEMMA Locking ==
    ASSUME TypeOK, NEW s \in Sessions, NEW taken, taken \subseteq Rows,
           lock' = Locks!WithRows(lock, taken, s)
    PROVE  /\ lock' \in [Rows -> Sessions \cup {Nobody}]
           /\ \A r \in Rows : lock'[r] = IF r \in taken THEN s ELSE lock[r]
  BY DEF Locks!WithRows, TypeOK

LEMMA EndEffect ==
    ASSUME TypeOK, NEW s \in Sessions, EndTx(s)
    PROVE  /\ lock' \in [Rows -> Sessions \cup {Nobody}]
           /\ \A r \in Rows : lock'[r] = IF lock[r] = s THEN Nobody ELSE lock[r]
           /\ tx' \in [Sessions -> Transaction]
           /\ tx'[s] = IdleTx
           /\ \A t \in Sessions \ {s} : tx'[t] = tx[t]
<1>1. /\ lock' \in [Rows -> Sessions \cup {Nobody}]
      /\ \A r \in Rows : lock'[r] = IF lock[r] = s THEN Nobody ELSE lock[r]
  BY DEF EndTx, Locks!WithoutSession, TypeOK
<1>2. /\ tx' \in [Sessions -> Transaction]
      /\ tx'[s] = IdleTx
      /\ \A t \in Sessions \ {s} : tx'[t] = tx[t]
  BY IdleType DEF EndTx, TypeOK
<1> QED
  BY <1>1, <1>2

LEMMA EndFreesFiles ==
    ASSUME TypeOK, NEW s \in Sessions, EndTx(s)
    PROVE  \A t \in Sessions : tx'[t].saved = IF t = s THEN {} ELSE tx[t].saved
<1>1. IdleTx.saved = {}
  BY DEF IdleTx
<1>2. tx'[s] = IdleTx /\ \A t \in Sessions \ {s} : tx'[t] = tx[t]
  BY EndEffect
<1> HIDE DEF IdleTx
<1> QED
  BY <1>1, <1>2

(***************************************************************************)
(* Sessions other than s keep what they own when s respects their locks.   *)
(***************************************************************************)
LEMMA OthersKeepRows ==
    ASSUME IInv, NEW s \in Sessions,
           \A t \in Sessions \ {s} : tx'[t] = tx[t],
           \A r \in Rows : lock[r] \in Sessions \ {s} => lock'[r] = lock[r],
           \A o \in Orders : request'[o] # request[o] =>
              /\ request[o].status = "absent" => lock[OrderRow(o)] \notin Sessions \ {s}
              /\ request[o].status = "APPROVED" => lock[ReturnRow(o)] \notin Sessions \ {s}
    PROVE  \A t \in Sessions \ {s} : OwnsOrder(t)' /\ OwnsRequest(t)'
<1> SUFFICES ASSUME NEW t \in Sessions \ {s} PROVE OwnsOrder(t)' /\ OwnsRequest(t)'
  OBVIOUS
<1>1. tx'[t] = tx[t] /\ OwnsOrder(t) /\ OwnsRequest(t)
  BY DEF IInv, SessionsOwnRows
<1>2. OwnsOrder(t)'
  BY <1>1, RowsAreRows DEF OwnsOrder
<1>3. OwnsRequest(t)'
  BY <1>1, RowsAreRows DEF OwnsRequest
<1> QED
  BY <1>2, <1>3

LEMMA EndKeepsRows ==
    ASSUME IInv, NEW s \in Sessions, EndTx(s),
           \A o \in Orders : request'[o] # request[o] =>
              /\ request[o].status = "absent" => lock[OrderRow(o)] \notin Sessions \ {s}
              /\ request[o].status = "APPROVED" => lock[ReturnRow(o)] \notin Sessions \ {s}
    PROVE  SessionsOwnRows'
<1>1. TypeOK
  BY DEF IInv
<1>2. /\ \A r \in Rows : lock'[r] = IF lock[r] = s THEN Nobody ELSE lock[r]
      /\ tx'[s] = IdleTx
      /\ \A t \in Sessions \ {s} : tx'[t] = tx[t]
  BY <1>1, EndEffect
<1>3. \A t \in Sessions \ {s} : OwnsOrder(t)' /\ OwnsRequest(t)'
  BY <1>2, OthersKeepRows
<1>4. OwnsOrder(s)' /\ OwnsRequest(s)'
  BY <1>2 DEF OwnsOrder, OwnsRequest, IdleTx
<1> QED
  BY <1>3, <1>4 DEF SessionsOwnRows

-----------------------------------------------------------------------------
(***************************************************************************)
(* Steps of the rest of the shop: no request, session or file changes.     *)
(***************************************************************************)
LEMMA QuietKeepsInv ==
    ASSUME IInv, TypeOK', UNCHANGED <<request, lock, tx, volume>>
    PROVE  IInv'
<1>1. SessionsOwnRows'
  BY DEF IInv, SessionsOwnRows, OwnsOrder, OwnsRequest
<1>2. RequestsAreSound'
  BY DEF IInv, RequestsAreSound, Sound
<1>3. FilesInv'
  BY DEF IInv, FilesInv, SavedFilesAreOwn, EvidenceIsKept, FilesAreAccounted, volume
<1> QED
  BY <1>1, <1>2, <1>3 DEF IInv

LEMMA ShopKeepsInv ==
    ASSUME IInv,
           \/ \E o \in Orders, status \in SellerStatuses : SetOrderStatus(o, status)
           \/ \E o \in Orders : WindowCloses(o)
           \/ \E v \in Variants, d \in {-1, 1} : ChangeElsewhere(v, d)
    PROVE  IInv'
<1> USE DEF volume
<1>1. TypeOK
  BY DEF IInv
<1>2. CASE \E o \in Orders, status \in SellerStatuses : SetOrderStatus(o, status)
  <2>1. PICK o \in Orders, status \in SellerStatuses : SetOrderStatus(o, status)
    BY <1>2
  <2>2. OrderAfter(order[o], status) \in OrderRecord
    BY <1>1, SellerStatusesAssumption DEF TypeOK, OrderAfter, OrderRecord, OrderStatuses
  <2>3. TypeOK'
    BY <1>1, <2>1, <2>2 DEF SetOrderStatus, TypeOK
  <2> QED
    BY <2>1, <2>3, QuietKeepsInv DEF SetOrderStatus
<1>3. CASE \E o \in Orders : WindowCloses(o)
  <2>1. PICK o \in Orders : WindowCloses(o)
    BY <1>3
  <2>2. TypeOK'
    BY <1>1, <2>1 DEF WindowCloses, TypeOK, OrderRecord
  <2> QED
    BY <2>1, <2>2, QuietKeepsInv DEF WindowCloses
<1>4. CASE \E v \in Variants, d \in {-1, 1} : ChangeElsewhere(v, d)
  <2>1. PICK v \in Variants, d \in {-1, 1} : ChangeElsewhere(v, d)
    BY <1>4
  <2>2. elsewhere[v] + d \in Int
    BY <1>1 DEF TypeOK
  <2>3. TypeOK'
    BY <1>1, <2>1, <2>2 DEF ChangeElsewhere, TypeOK
  <2> QED
    BY <2>1, <2>3, QuietKeepsInv DEF ChangeElsewhere
<1> QED
  BY <1>2, <1>3, <1>4

-----------------------------------------------------------------------------
(***************************************************************************)
(* A request begins: session s takes the row it works on.                  *)
(***************************************************************************)
LEMMA BeginKeepsFiles ==
    ASSUME IInv, NEW s \in Sessions, UNCHANGED <<request, volume>>,
           tx'[s].saved = tx[s].saved, tx[s].kind = "create" => tx'[s].kind = "create",
           \A t \in Sessions \ {s} : tx'[t] = tx[t]
    PROVE  FilesInv'
<1>1. /\ SavedFilesAreOwn /\ EvidenceIsKept /\ FilesAreAccounted
      /\ files' = files /\ misled' = misled /\ debris' = debris /\ request' = request
  BY DEF IInv, FilesInv, volume
<1>2. \A t \in Sessions : tx'[t].saved = tx[t].saved
  OBVIOUS
<1>3. \A t \in Sessions : tx'[t].kind # "create" => tx[t].kind # "create"
  OBVIOUS
<1>4. SavedFilesAreOwn'
  BY <1>1, <1>2, <1>3 DEF SavedFilesAreOwn
<1>5. EvidenceIsKept' /\ FilesAreAccounted'
  BY <1>1, <1>2 DEF EvidenceIsKept, FilesAreAccounted
<1> QED
  BY <1>4, <1>5 DEF FilesInv

LEMMA CreateBeginKeepsInv ==
    ASSUME IInv, NEW s \in Sessions, NEW o \in Orders, NEW q \in Selections, CreateBegin(s, o, q)
    PROVE  IInv'
<1> DEFINE new == [IdleTx EXCEPT !.kind = "create", !.order = o, !.quantity = q]
<1>1. /\ TypeOK /\ q \in Quantities
      /\ order' = order /\ request' = request /\ stock' = stock /\ elsewhere' = elsewhere
      /\ files' = files /\ debris' = debris /\ misled' = misled /\ failures' = failures
      /\ tx' = [tx EXCEPT ![s] = new] /\ lock' = Locks!WithRows(lock, {OrderRow(o)}, s)
      /\ lock[OrderRow(o)] = Nobody /\ ~Busy(s) /\ request[o].status = "absent"
  BY SelectionsType DEF CreateBegin, IInv, rows, volume, Eligible
<1>2. new \in Transaction
  BY <1>1, IdleType DEF Transaction, Kinds
<1>3. new.kind = "create" /\ new.order = o /\ new.quantity = q /\ new.saved = {}
  BY DEF IdleTx
<1> HIDE DEF new
<1>4. /\ lock' \in [Rows -> Sessions \cup {Nobody}]
      /\ \A r \in Rows : lock'[r] = IF r = OrderRow(o) THEN s ELSE lock[r]
  <2> DEFINE taken == {OrderRow(o)}
  <2>1. taken \subseteq Rows
    BY RowsAreRows
  <2>2. lock' = Locks!WithRows(lock, taken, s)
    BY <1>1
  <2>3. \A r : r \in taken <=> r = OrderRow(o)
    OBVIOUS
  <2>4. TypeOK
    BY <1>1
  <2> HIDE DEF taken
  <2>5. /\ lock' \in [Rows -> Sessions \cup {Nobody}]
        /\ \A r \in Rows : lock'[r] = IF r \in taken THEN s ELSE lock[r]
    BY <2>1, <2>2, <2>4, Locking
  <2> QED
    BY <2>3, <2>5
<1>5. /\ tx' \in [Sessions -> Transaction] /\ tx'[s] = new
      /\ \A t \in Sessions \ {s} : tx'[t] = tx[t]
  BY <1>1, <1>2 DEF TypeOK
<1>6. TypeOK'
  BY <1>1, <1>4, <1>5 DEF TypeOK
<1>7. \A r \in Rows : lock[r] \in Sessions \ {s} => lock'[r] = lock[r]
  BY <1>1, <1>4, NullsAssumption
<1>8. \A t \in Sessions \ {s} : OwnsOrder(t)' /\ OwnsRequest(t)'
  BY <1>1, <1>5, <1>7, OthersKeepRows
<1>9. OwnsOrder(s)' /\ OwnsRequest(s)'
  <2>1. \A i \in Items : q[i] <= Bought[i] /\ (q[i] > 0 => OrderOf[i] = o)
    BY DEF CreateBegin, Selection
  <2> QED
    BY <1>1, <1>3, <1>4, <1>5, <2>1, RowsAreRows DEF OwnsOrder, OwnsRequest
<1>10. RequestsAreSound'
  BY <1>1 DEF IInv, RequestsAreSound, Sound
<1>11. FilesInv'
  <2>1. tx[s].kind = "idle" /\ tx[s].saved = {}
    BY <1>1 DEF Busy, IInv, FilesInv, SavedFilesAreOwn
  <2> QED
    BY <1>1, <1>3, <1>5, <2>1, BeginKeepsFiles DEF volume
<1> QED
  BY <1>6, <1>8, <1>9, <1>10, <1>11 DEF IInv, SessionsOwnRows

LEMMA ProcessBeginKeepsInv ==
    ASSUME IInv, NEW s \in Sessions, NEW o \in Orders, NEW target \in Selections,
           NEW completes \in BOOLEAN, ProcessBegin(s, o, target, completes)
    PROVE  IInv'
<1> DEFINE new == ProcessOf(o, target, completes)
<1>1. /\ TypeOK /\ target \in Quantities
      /\ order' = order /\ request' = request /\ stock' = stock /\ elsewhere' = elsewhere
      /\ files' = files /\ debris' = debris /\ misled' = misled /\ failures' = failures
      /\ tx' = [tx EXCEPT ![s] = new] /\ lock' = Locks!WithRows(lock, {ReturnRow(o)}, s)
      /\ lock[ReturnRow(o)] = Nobody /\ ~Busy(s) /\ request[o].status = "APPROVED"
      /\ ValidPlan(o, target)
  BY SelectionsType DEF ProcessBegin, IInv, rows, volume
<1>2. new \in Transaction
  <2>1. request[o].restocked \in Quantities
    BY <1>1 DEF TypeOK, Request
  <2>2. Delta(o, target) \in Quantities
    BY <1>1, <2>1 DEF Delta, ValidPlan, Quantities
  <2>3. {VariantOf[i] : i \in {j \in Items : Delta(o, target)[j] > 0}} \subseteq Variants
    BY ItemsAssumption
  <2> QED
    BY <1>1, <2>2, <2>3, IdleType DEF ProcessOf, Transaction, Kinds
<1>3. new.kind = "process" /\ new.order = o /\ new.target = target /\ new.saved = {}
  BY DEF IdleTx, ProcessOf
<1> HIDE DEF new
<1>4. /\ lock' \in [Rows -> Sessions \cup {Nobody}]
      /\ \A r \in Rows : lock'[r] = IF r = ReturnRow(o) THEN s ELSE lock[r]
  <2> DEFINE taken == {ReturnRow(o)}
  <2>1. taken \subseteq Rows
    BY RowsAreRows
  <2>2. lock' = Locks!WithRows(lock, taken, s)
    BY <1>1
  <2>3. \A r : r \in taken <=> r = ReturnRow(o)
    OBVIOUS
  <2>4. TypeOK
    BY <1>1
  <2> HIDE DEF taken
  <2>5. /\ lock' \in [Rows -> Sessions \cup {Nobody}]
        /\ \A r \in Rows : lock'[r] = IF r \in taken THEN s ELSE lock[r]
    BY <2>1, <2>2, <2>4, Locking
  <2> QED
    BY <2>3, <2>5
<1>5. /\ tx' \in [Sessions -> Transaction] /\ tx'[s] = new
      /\ \A t \in Sessions \ {s} : tx'[t] = tx[t]
  BY <1>1, <1>2 DEF TypeOK
<1>6. TypeOK'
  BY <1>1, <1>4, <1>5 DEF TypeOK
<1>7. \A r \in Rows : lock[r] \in Sessions \ {s} => lock'[r] = lock[r]
  BY <1>1, <1>4, NullsAssumption
<1>8. \A t \in Sessions \ {s} : OwnsOrder(t)' /\ OwnsRequest(t)'
  BY <1>1, <1>5, <1>7, OthersKeepRows
<1>9. OwnsOrder(s)' /\ OwnsRequest(s)'
  <2>1. \A i \in Items : target[i] <= request[o].quantity[i]
    BY <1>1 DEF ValidPlan
  <2> QED
    BY <1>1, <1>3, <1>4, <1>5, <2>1, RowsAreRows DEF OwnsOrder, OwnsRequest
<1>10. RequestsAreSound'
  BY <1>1 DEF IInv, RequestsAreSound, Sound
<1>11. FilesInv'
  <2>1. tx[s].kind = "idle" /\ tx[s].saved = {}
    BY <1>1 DEF Busy, IInv, FilesInv, SavedFilesAreOwn
  <2> QED
    BY <1>1, <1>3, <1>5, <2>1, BeginKeepsFiles DEF volume
<1> QED
  BY <1>6, <1>8, <1>9, <1>10, <1>11 DEF IInv, SessionsOwnRows

LEMMA LockVariantKeepsInv ==
    ASSUME IInv, NEW s \in Sessions, NEW v \in Variants, LockVariant(s, v)
    PROVE  IInv'
<1>1. /\ TypeOK
      /\ order' = order /\ request' = request /\ stock' = stock /\ elsewhere' = elsewhere
      /\ files' = files /\ debris' = debris /\ misled' = misled /\ failures' = failures
      /\ tx' = [tx EXCEPT ![s].need = @ \ {v}]
      /\ lock' = Locks!WithRows(lock, {VariantLock(v)}, s)
      /\ lock[VariantLock(v)] = Nobody
  BY DEF LockVariant, IInv, rows, volume
<1>2. /\ lock' \in [Rows -> Sessions \cup {Nobody}]
      /\ \A r \in Rows : lock'[r] = IF r = VariantLock(v) THEN s ELSE lock[r]
  BY <1>1, RowsAreRows, Locking
<1>3. /\ tx' \in [Sessions -> Transaction]
      /\ \A t \in Sessions \ {s} : tx'[t] = tx[t]
      /\ tx'[s].kind = tx[s].kind /\ tx'[s].order = tx[s].order
      /\ tx'[s].quantity = tx[s].quantity /\ tx'[s].target = tx[s].target
      /\ tx'[s].saved = tx[s].saved
  BY <1>1 DEF TypeOK, Transaction
<1>4. TypeOK'
  BY <1>1, <1>2, <1>3 DEF TypeOK
<1>5. \A r \in Rows : lock[r] \in Sessions => lock'[r] = lock[r]
  BY <1>1, <1>2, NullsAssumption
<1>6. \A t \in Sessions \ {s} : OwnsOrder(t)' /\ OwnsRequest(t)'
  BY <1>1, <1>3, <1>5, OthersKeepRows
<1>7. OwnsOrder(s)' /\ OwnsRequest(s)'
  <2>1. OwnsOrder(s) /\ OwnsRequest(s)
    BY DEF IInv, SessionsOwnRows
  <2>2. tx[s].order \in Orders => /\ OrderRow(tx[s].order) \in Rows
                                 /\ ReturnRow(tx[s].order) \in Rows
    BY RowsAreRows
  <2>3. OwnsOrder(s)'
    <3> SUFFICES ASSUME tx[s].kind = "create" PROVE OwnsOrder(s)'
      BY <1>3 DEF OwnsOrder
    <3>1. lock'[OrderRow(tx[s].order)] = s
      BY <1>5, <2>1, <2>2 DEF OwnsOrder
    <3> QED
      BY <1>1, <1>3, <2>1, <3>1 DEF OwnsOrder
  <2>4. OwnsRequest(s)'
    <3> SUFFICES ASSUME tx[s].kind = "process" PROVE OwnsRequest(s)'
      BY <1>3 DEF OwnsRequest
    <3>1. lock'[ReturnRow(tx[s].order)] = s
      BY <1>5, <2>1, <2>2 DEF OwnsRequest
    <3> QED
      BY <1>1, <1>3, <2>1, <3>1 DEF OwnsRequest
  <2> QED
    BY <2>3, <2>4
<1>8. RequestsAreSound'
  BY <1>1 DEF IInv, RequestsAreSound, Sound
<1>9. FilesInv'
  BY <1>1, <1>3, BeginKeepsFiles DEF volume
<1> QED
  BY <1>4, <1>6, <1>7, <1>8, <1>9 DEF IInv, SessionsOwnRows

-----------------------------------------------------------------------------
(***************************************************************************)
(* Files.                                                                  *)
(***************************************************************************)
LEMMA SaveFileKeepsInv ==
    ASSUME IInv, NEW s \in Sessions, NEW f \in Files, SaveFile(s, f)
    PROVE  IInv'
<1>1. /\ TypeOK
      /\ order' = order /\ request' = request /\ stock' = stock /\ elsewhere' = elsewhere
      /\ lock' = lock /\ debris' = debris /\ misled' = misled /\ failures' = failures
      /\ tx[s].kind = "create" /\ f \notin files /\ files' = files \cup {f}
      /\ tx' = [tx EXCEPT ![s].saved = @ \cup {f}]
  BY DEF SaveFile, IInv, rows
<1>2. /\ tx' \in [Sessions -> Transaction]
      /\ \A t \in Sessions \ {s} : tx'[t] = tx[t]
      /\ tx'[s].kind = tx[s].kind /\ tx'[s].order = tx[s].order
      /\ tx'[s].quantity = tx[s].quantity /\ tx'[s].target = tx[s].target
      /\ tx'[s].saved = tx[s].saved \cup {f}
  BY <1>1 DEF TypeOK, Transaction
<1>3. TypeOK'
  BY <1>1, <1>2 DEF TypeOK
<1>4. SessionsOwnRows'
  BY <1>1, <1>2 DEF IInv, SessionsOwnRows, OwnsOrder, OwnsRequest
<1>5. RequestsAreSound'
  BY <1>1 DEF IInv, RequestsAreSound, Sound
<1>6. SavedFilesAreOwn /\ EvidenceIsKept /\ FilesAreAccounted
  BY DEF IInv, FilesInv
<1>7. SavedFilesAreOwn'
  <2>1. \A t \in Sessions : /\ tx'[t].saved \subseteq files'
                            /\ tx'[t].kind # "create" => tx'[t].saved = {}
    BY <1>1, <1>2, <1>6 DEF SavedFilesAreOwn
  <2>2. \A t \in Sessions : f \notin tx[t].saved
    BY <1>1, <1>6 DEF SavedFilesAreOwn
  <2>3. \A t, u \in Sessions : t # u => tx'[t].saved \cap tx'[u].saved = {}
    BY <1>2, <1>6, <2>2 DEF SavedFilesAreOwn
  <2>4. \A o \in Orders \ misled : f \notin request[o].files
    BY <1>1, <1>6 DEF EvidenceIsKept
  <2>5. \A t \in Sessions : \A o \in Orders \ misled : tx'[t].saved \cap request[o].files = {}
    BY <1>2, <1>6, <2>4 DEF SavedFilesAreOwn
  <2> QED
    BY <1>1, <2>1, <2>3, <2>5 DEF SavedFilesAreOwn
<1>8. EvidenceIsKept'
  BY <1>1, <1>6 DEF EvidenceIsKept
<1>9. FilesAreAccounted'
  BY <1>1, <1>2, <1>6 DEF FilesAreAccounted
<1> QED
  BY <1>3, <1>4, <1>5, <1>7, <1>8, <1>9 DEF IInv, FilesInv

(***************************************************************************)
(* Creation fails or the process dies: what the session saved is deleted   *)
(* or becomes debris.                                                      *)
(***************************************************************************)
LEMMA FailureKeepsInv ==
    ASSUME IInv, NEW s \in Sessions, EndTx(s), UNCHANGED <<rows, elsewhere, misled>>,
           failures' \in 0 .. MaxFailures,
           NEW left \in SUBSET (Files \ files), NEW kept \in SUBSET tx[s].saved,
           files' = (files \ (tx[s].saved \ kept)) \cup left,
           debris' = debris \cup left \cup kept
    PROVE  IInv'
<1>1. /\ TypeOK
      /\ order' = order /\ request' = request /\ stock' = stock /\ elsewhere' = elsewhere
      /\ misled' = misled
  BY DEF IInv, rows
<1>2. /\ lock' \in [Rows -> Sessions \cup {Nobody}]
      /\ tx' \in [Sessions -> Transaction]
      /\ tx'[s] = IdleTx
      /\ \A t \in Sessions \ {s} : tx'[t] = tx[t]
  BY <1>1, EndEffect
<1>3. tx[s].saved \subseteq Files
  BY <1>1 DEF TypeOK, Transaction
<1>4. TypeOK'
  BY <1>1, <1>2, <1>3 DEF TypeOK
<1>5. SessionsOwnRows'
  BY <1>1, EndKeepsRows
<1>6. RequestsAreSound'
  BY <1>1 DEF IInv, RequestsAreSound, Sound
<1>7. SavedFilesAreOwn /\ EvidenceIsKept /\ FilesAreAccounted
  BY DEF IInv, FilesInv
<1>8. \A t \in Sessions : tx'[t].saved = IF t = s THEN {} ELSE tx[t].saved
  BY <1>1, EndFreesFiles
<1>9. SavedFilesAreOwn'
  <2>1. \A t \in Sessions : /\ tx'[t].saved \subseteq files'
                            /\ tx'[t].kind # "create" => tx'[t].saved = {}
    BY <1>2, <1>7, <1>8 DEF SavedFilesAreOwn
  <2>2. \A t, u \in Sessions : t # u => tx'[t].saved \cap tx'[u].saved = {}
    BY <1>7, <1>8 DEF SavedFilesAreOwn
  <2>3. \A t \in Sessions : \A o \in Orders \ misled : tx'[t].saved \cap request[o].files = {}
    BY <1>7, <1>8 DEF SavedFilesAreOwn
  <2> QED
    BY <1>1, <2>1, <2>2, <2>3 DEF SavedFilesAreOwn
<1>10. EvidenceIsKept'
  BY <1>1, <1>7 DEF EvidenceIsKept, SavedFilesAreOwn
<1>11. FilesAreAccounted'
  BY <1>1, <1>7, <1>8 DEF FilesAreAccounted
<1> QED
  BY <1>4, <1>5, <1>6, <1>9, <1>10, <1>11 DEF IInv, FilesInv

LEMMA FailuresKeepInv ==
    ASSUME IInv, NEW s \in Sessions,
           Abort(s) \/ \E left \in SUBSET Files : SaveFails(s, left)
    PROVE  IInv'
<1>1. Fails => failures' \in 0 .. MaxFailures
  BY BoundsAssumption DEF Fails, IInv, TypeOK
<1>2. tx[s].saved \subseteq files
  BY DEF IInv, FilesInv, SavedFilesAreOwn
<1>3. CASE Abort(s)
  <2>1. files' = (files \ (tx[s].saved \ tx[s].saved)) \cup {}
    BY <1>3 DEF Abort
  <2>2. debris' = debris \cup {} \cup tx[s].saved
    BY <1>3 DEF Abort
  <2>3. {} \in SUBSET (Files \ files) /\ tx[s].saved \in SUBSET tx[s].saved
    OBVIOUS
  <2>4. EndTx(s) /\ UNCHANGED <<rows, elsewhere, misled>> /\ Fails
    BY <1>3 DEF Abort
  <2> QED
    BY <1>1, <2>1, <2>2, <2>3, <2>4, FailureKeepsInv
<1>4. CASE \E left \in SUBSET Files : SaveFails(s, left)
  <2>1. PICK left \in SUBSET Files : SaveFails(s, left)
    BY <1>4
  <2>2. files' = (files \ (tx[s].saved \ {})) \cup left
    BY <2>1 DEF SaveFails, AfterDeletion
  <2>3. debris' = debris \cup left \cup {}
    BY <2>1 DEF SaveFails
  <2>4. left \in SUBSET (Files \ files) /\ {} \in SUBSET tx[s].saved
    BY <2>1 DEF SaveFails
  <2>5. EndTx(s) /\ UNCHANGED <<rows, elsewhere, misled>> /\ Fails
    BY <2>1 DEF SaveFails
  <2> QED
    BY <1>1, <2>2, <2>3, <2>4, <2>5, FailureKeepsInv
<1> QED
  BY <1>3, <1>4

-----------------------------------------------------------------------------
(***************************************************************************)
(* The request of session s is committed, and its customer learns of it or *)
(* is told that it failed.                                                 *)
(***************************************************************************)
LEMMA CreationKeepsInv ==
    ASSUME IInv, NEW s \in Sessions, tx[s].kind = "create", EndTx(s),
           UNCHANGED <<order, stock, elsewhere, debris>>, failures' \in 0 .. MaxFailures,
           request' = [request EXCEPT ![tx[s].order] = CreatedRequest(s)],
           \/ files' = files /\ misled' = misled
           \/ files' = AfterDeletion(s) /\ misled' = misled \cup {tx[s].order}
    PROVE  IInv'
<1> DEFINE o == tx[s].order
           new == CreatedRequest(s)
<1>1. TypeOK /\ OwnsOrder(s) /\ tx[s].saved \subseteq files
  BY DEF IInv, SessionsOwnRows, FilesInv, SavedFilesAreOwn
<1>2. /\ o \in Orders /\ lock[OrderRow(o)] = s /\ request[o].status = "absent"
      /\ \A i \in Items : tx[s].quantity[i] <= Bought[i] /\ (tx[s].quantity[i] > 0 => OrderOf[i] = o)
  BY <1>1 DEF OwnsOrder
<1>3. /\ new \in Request /\ new.status = "PENDING" /\ new.files = tx[s].saved
      /\ new.quantity = tx[s].quantity /\ new.restocked = NoUnits
  <2>1. tx[s].quantity \in Quantities /\ tx[s].saved \subseteq Files
    BY <1>1 DEF TypeOK, Transaction
  <2> QED
    BY <2>1, NoUnitsType DEF CreatedRequest, NoRequest, Request, OpenStatuses
<1> HIDE DEF new
<1>4. /\ request' \in [Orders -> Request] /\ request'[o] = new
      /\ \A p \in Orders \ {o} : request'[p] = request[p]
  BY <1>1, <1>2, <1>3 DEF TypeOK, new
<1>5. /\ lock' \in [Rows -> Sessions \cup {Nobody}]
      /\ tx' \in [Sessions -> Transaction]
      /\ tx'[s] = IdleTx
      /\ \A t \in Sessions \ {s} : tx'[t] = tx[t]
  BY <1>1, EndEffect
<1>6. TypeOK'
  <2>1. files' \subseteq Files /\ misled' \subseteq Orders
    BY <1>1, <1>2 DEF TypeOK, AfterDeletion
  <2> QED
    BY <1>1, <1>4, <1>5, <2>1 DEF TypeOK
<1>7. SessionsOwnRows'
  BY <1>2, <1>4, EndKeepsRows
<1>8. RequestsAreSound'
  <2>1. \A p \in Orders \ {o} : Sound(p, request'[p])
    BY <1>4 DEF IInv, RequestsAreSound
  <2>2. Sound(o, new)
    <3>1. tx[s].quantity \in Quantities
      BY <1>1 DEF TypeOK, Transaction
    <3>2. \A i \in Items : tx[s].quantity[i] \in Nat /\ NoUnits[i] = 0
      BY <3>1, NoUnitsType DEF Quantities
    <3> QED
      BY <1>2, <1>3, <3>2 DEF Sound
  <2> QED
    BY <1>4, <2>1, <2>2 DEF RequestsAreSound
<1>9. SavedFilesAreOwn /\ EvidenceIsKept /\ FilesAreAccounted
  BY DEF IInv, FilesInv
<1>10. \A t \in Sessions : tx'[t].saved = IF t = s THEN {} ELSE tx[t].saved
  BY <1>1, EndFreesFiles
<1>11. request[o].files = {}
  BY <1>2 DEF IInv, RequestsAreSound, Sound
<1>12. \A p \in Orders : request'[p].files = IF p = o THEN tx[s].saved ELSE request[p].files
  BY <1>3, <1>4
<1>13. SavedFilesAreOwn'
  <2>1. \A t \in Sessions : tx'[t].saved \subseteq files'
    BY <1>9, <1>10 DEF SavedFilesAreOwn, AfterDeletion
  <2>2. \A t \in Sessions : tx'[t].kind # "create" => tx'[t].saved = {}
    BY <1>5, <1>9, <1>10 DEF SavedFilesAreOwn
  <2>3. \A t, u \in Sessions : t # u => tx'[t].saved \cap tx'[u].saved = {}
    BY <1>9, <1>10 DEF SavedFilesAreOwn
  <2>4. \A t \in Sessions : \A p \in Orders \ misled' : tx'[t].saved \cap request'[p].files = {}
    BY <1>9, <1>10, <1>12 DEF SavedFilesAreOwn
  <2> QED
    BY <2>1, <2>2, <2>3, <2>4 DEF SavedFilesAreOwn
<1>14. EvidenceIsKept'
  BY <1>1, <1>9, <1>12 DEF EvidenceIsKept, SavedFilesAreOwn, AfterDeletion
<1>15. FilesAreAccounted'
  <2> SUFFICES ASSUME NEW f \in files'
               PROVE  f \in (UNION {request'[p].files : p \in Orders})
                             \cup (UNION {tx'[t].saved : t \in Sessions}) \cup debris'
    BY DEF FilesAreAccounted
  <2>1. f \in files
    BY DEF AfterDeletion
  <2>2. CASE f \in debris
    BY <2>2
  <2>3. CASE \E t \in Sessions : f \in tx[t].saved
    <3>1. PICK t \in Sessions : f \in tx[t].saved
      BY <2>3
    <3>2. CASE t = s
      BY <1>2, <1>12, <3>1, <3>2
    <3>3. CASE t # s
      BY <1>10, <3>1, <3>3
    <3> QED
      BY <3>2, <3>3
  <2>4. CASE \E p \in Orders : f \in request[p].files
    <3>1. PICK p \in Orders : f \in request[p].files
      BY <2>4
    <3>2. f \in request'[p].files
      BY <1>11, <1>12, <3>1
    <3> QED
      BY <3>2
  <2> QED
    BY <1>9, <2>1, <2>2, <2>3, <2>4 DEF FilesAreAccounted
<1> QED
  BY <1>6, <1>7, <1>8, <1>13, <1>14, <1>15 DEF IInv, FilesInv

LEMMA CommitsKeepInv ==
    ASSUME IInv, NEW s \in Sessions,
           CreateCommit(s) \/ \E applied \in BOOLEAN : CommitFails(s, applied)
    PROVE  IInv'
<1>1. Fails => failures' \in 0 .. MaxFailures
  BY BoundsAssumption DEF Fails, IInv, TypeOK
<1>2. failures \in 0 .. MaxFailures /\ request \in [Orders -> Request]
  BY DEF IInv, TypeOK
<1>3. CASE CreateCommit(s)
  <2>1. /\ tx[s].kind = "create" /\ EndTx(s) /\ UNCHANGED <<order, stock, elsewhere, debris>>
        /\ failures' = failures /\ files' = files /\ misled' = misled
        /\ request' = [request EXCEPT ![tx[s].order] = CreatedRequest(s)]
    BY <1>3 DEF CreateCommit, volume
  <2> QED
    BY <1>2, <2>1, CreationKeepsInv
<1>4. CASE CommitFails(s, TRUE)
  <2>1. /\ tx[s].kind = "create" /\ EndTx(s) /\ UNCHANGED <<order, stock, elsewhere, debris>>
        /\ Fails /\ files' = AfterDeletion(s) /\ misled' = misled \cup {tx[s].order}
        /\ request' = [request EXCEPT ![tx[s].order] = CreatedRequest(s)]
    BY <1>4 DEF CommitFails
  <2> QED
    BY <1>1, <2>1, CreationKeepsInv
<1>5. CASE CommitFails(s, FALSE)
  <2>1. /\ EndTx(s) /\ UNCHANGED <<order, stock, elsewhere, debris, misled>> /\ Fails
        /\ files' = files \ tx[s].saved
    BY <1>5 DEF CommitFails, AfterDeletion
  <2>2. request' = request
    BY <1>2, <1>5 DEF CommitFails
  <2>3. files' = (files \ (tx[s].saved \ {})) \cup {} /\ debris' = debris \cup {} \cup {}
    BY <2>1
  <2>4. {} \in SUBSET (Files \ files) /\ {} \in SUBSET tx[s].saved
    OBVIOUS
  <2>5. UNCHANGED <<rows, elsewhere, misled>>
    BY <2>1, <2>2 DEF rows
  <2> QED
    BY <1>1, <2>1, <2>3, <2>4, <2>5, FailureKeepsInv
<1> QED
  BY <1>3, <1>4, <1>5

-----------------------------------------------------------------------------
(***************************************************************************)
(* Decisions and processing.                                               *)
(***************************************************************************)
LEMMA FilesOfRequestsKept ==
    ASSUME FilesInv, UNCHANGED volume,
           \A o \in Orders : request'[o].files = request[o].files,
           \A s \in Sessions : /\ tx'[s].saved = tx[s].saved
                               /\ tx[s].saved # {} => tx'[s].kind = tx[s].kind
    PROVE  FilesInv'
<1>1. files' = files /\ misled' = misled /\ debris' = debris
  BY DEF volume
<1>2. SavedFilesAreOwn'
  BY <1>1 DEF FilesInv, SavedFilesAreOwn
<1>3. EvidenceIsKept' /\ FilesAreAccounted'
  BY <1>1 DEF FilesInv, EvidenceIsKept, FilesAreAccounted
<1> QED
  BY <1>2, <1>3 DEF FilesInv

LEMMA DecideKeepsInv ==
    ASSUME IInv, NEW o \in Orders, NEW status \in OpenStatuses \cup FinalStatuses,
           Decide(o, status)
    PROVE  IInv'
<1>1. /\ TypeOK
      /\ order' = order /\ stock' = stock /\ elsewhere' = elsewhere /\ lock' = lock /\ tx' = tx
      /\ files' = files /\ debris' = debris /\ misled' = misled /\ failures' = failures
      /\ lock[ReturnRow(o)] = Nobody
      /\ request' = [request EXCEPT ![o].status = status]
  BY DEF Decide, IInv, volume
<1>2. /\ request[o].status \in OpenStatuses
      /\ status # "absent"
      /\ status \in {"PENDING", "REJECTED"} => request[o].status = "PENDING"
  BY DEF Decide, Transitions, OpenStatuses, FinalStatuses
<1>3. /\ request' \in [Orders -> Request]
      /\ \A p \in Orders \ {o} : request'[p] = request[p]
      /\ request'[o].status = status /\ request'[o].quantity = request[o].quantity
      /\ request'[o].restocked = request[o].restocked /\ request'[o].files = request[o].files
  BY <1>1 DEF TypeOK, Request
<1>4. TypeOK'
  BY <1>1, <1>3 DEF TypeOK
<1>5. SessionsOwnRows'
  <2> SUFFICES ASSUME NEW s \in Sessions PROVE OwnsOrder(s)' /\ OwnsRequest(s)'
    BY DEF SessionsOwnRows
  <2>1. OwnsOrder(s) /\ OwnsRequest(s)
    BY DEF IInv, SessionsOwnRows
  <2>2. OwnsOrder(s)'
    <3>1. tx[s].kind = "create" => tx[s].order # o
      BY <1>2, <2>1 DEF OwnsOrder, OpenStatuses
    <3> QED
      BY <1>1, <1>3, <2>1, <3>1 DEF OwnsOrder
  <2>3. OwnsRequest(s)'
    <3>1. tx[s].kind = "process" => tx[s].order # o
      BY <1>1, <2>1, NullsAssumption DEF OwnsRequest
    <3> QED
      BY <1>1, <1>3, <2>1, <3>1 DEF OwnsRequest
  <2> QED
    BY <2>2, <2>3
<1>6. RequestsAreSound'
  <2>1. Sound(o, request[o]) /\ \A p \in Orders \ {o} : Sound(p, request'[p])
    BY <1>3 DEF IInv, RequestsAreSound
  <2>2. Sound(o, request'[o])
    BY <1>2, <1>3, <2>1 DEF Sound
  <2> QED
    BY <2>1, <2>2 DEF RequestsAreSound
<1>7. FilesInv'
  BY <1>1, <1>3, FilesOfRequestsKept DEF IInv, volume
<1> QED
  BY <1>4, <1>5, <1>6, <1>7 DEF IInv

LEMMA ProcessCommitKeepsInv ==
    ASSUME IInv, NEW s \in Sessions, ProcessCommit(s)
    PROVE  IInv'
<1> DEFINE o == tx[s].order
           status == IF tx[s].completes THEN "COMPLETED" ELSE request[o].status
<1>1. /\ TypeOK /\ OwnsRequest(s) /\ tx[s].kind = "process" /\ EndTx(s)
      /\ order' = order /\ elsewhere' = elsewhere /\ failures' = failures
      /\ files' = files /\ debris' = debris /\ misled' = misled
      /\ \A v \in Variants : stock[v] + UnitsOf(tx[s].delta, v) \in Nat
      /\ stock' = [v \in Variants |-> stock[v] + UnitsOf(tx[s].delta, v)]
      /\ request' = [request EXCEPT ![o].restocked = tx[s].target, ![o].refunded = TRUE,
                                    ![o].status = IF tx[s].completes THEN "COMPLETED" ELSE @]
  BY DEF ProcessCommit, IInv, SessionsOwnRows, volume
<1>2. /\ o \in Orders /\ lock[ReturnRow(o)] = s /\ request[o].status = "APPROVED"
      /\ \A i \in Items : tx[s].target[i] <= request[o].quantity[i]
  BY <1>1 DEF OwnsRequest
<1>3. status \in {"APPROVED", "COMPLETED"} /\ tx[s].target \in Quantities
  BY <1>1, <1>2 DEF TypeOK, Transaction
<1>4. /\ request' \in [Orders -> Request]
      /\ \A p \in Orders \ {o} : request'[p] = request[p]
      /\ request'[o].status = status /\ request'[o].quantity = request[o].quantity
      /\ request'[o].restocked = tx[s].target /\ request'[o].files = request[o].files
  <2>1. status \in OpenStatuses \cup FinalStatuses \cup {"absent"}
    BY <1>3 DEF OpenStatuses, FinalStatuses
  <2>2. request[o] \in Request
    BY <1>1, <1>2 DEF TypeOK
  <2> DEFINE new == [request[o] EXCEPT !.restocked = tx[s].target, !.refunded = TRUE,
                                       !.status = status]
  <2>3. request' = [request EXCEPT ![o] = new]
    BY <1>1, <1>2 DEF TypeOK, Request
  <2>4. new \in Request /\ new.status = status /\ new.quantity = request[o].quantity
        /\ new.restocked = tx[s].target /\ new.files = request[o].files
    BY <1>3, <2>1, <2>2 DEF Request
  <2> HIDE DEF new, status
  <2>5. request \in [Orders -> Request]
    BY <1>1 DEF TypeOK
  <2>6. /\ request' \in [Orders -> Request] /\ request'[o] = new
        /\ \A p \in Orders \ {o} : request'[p] = request[p]
    BY <1>2, <2>3, <2>4, <2>5
  <2> QED
    BY <2>4, <2>6
<1> HIDE DEF status
<1>5. /\ lock' \in [Rows -> Sessions \cup {Nobody}]
      /\ tx' \in [Sessions -> Transaction]
      /\ tx'[s] = IdleTx
      /\ \A t \in Sessions \ {s} : tx'[t] = tx[t]
  BY <1>1, EndEffect
<1>6. TypeOK'
  BY <1>1, <1>4, <1>5 DEF TypeOK
<1>7. SessionsOwnRows'
  BY <1>1, <1>2, <1>4, EndKeepsRows
<1>8. RequestsAreSound'
  <2>1. Sound(o, request[o]) /\ \A p \in Orders \ {o} : Sound(p, request'[p])
    BY <1>2, <1>4 DEF IInv, RequestsAreSound
  <2>2. Sound(o, request'[o])
    BY <1>2, <1>3, <1>4, <2>1 DEF Sound
  <2> QED
    BY <2>1, <2>2 DEF RequestsAreSound
<1>9. FilesInv'
  <2>1. tx[s].saved = {} /\ FilesInv
    BY <1>1 DEF IInv, FilesInv, SavedFilesAreOwn
  <2>2. \A t \in Sessions : tx'[t].saved = IF t = s THEN {} ELSE tx[t].saved
    BY <1>1, EndFreesFiles
  <2>3. \A t \in Sessions : /\ tx'[t].saved = tx[t].saved
                            /\ tx[t].saved # {} => tx'[t].kind = tx[t].kind
    BY <1>5, <2>1, <2>2
  <2>4. \A p \in Orders : request'[p].files = request[p].files
    BY <1>4
  <2>5. UNCHANGED volume
    BY <1>1 DEF volume
  <2> QED
    BY <2>1, <2>3, <2>4, <2>5, FilesOfRequestsKept
<1> QED
  BY <1>6, <1>7, <1>8, <1>9 DEF IInv

-----------------------------------------------------------------------------
LEMMA InvStep == IInv /\ [Next]_vars => IInv'
<1> SUFFICES ASSUME IInv, [Next]_vars PROVE IInv'
  OBVIOUS
<1>1. CASE UNCHANGED vars
  BY <1>1, QuietKeepsInv DEF vars, rows, volume, IInv, TypeOK
<1>2. CASE \E s \in Sessions : SessionStep(s)
  <2>1. PICK s \in Sessions : SessionStep(s)
    BY <1>2
  <2>2. CASE \E o \in Orders, q \in Selections : CreateBegin(s, o, q)
    BY <2>2, CreateBeginKeepsInv
  <2>3. CASE \E f \in Files : SaveFile(s, f)
    BY <2>3, SaveFileKeepsInv
  <2>4. CASE Abort(s) \/ \E left \in SUBSET Files : SaveFails(s, left)
    BY <2>4, FailuresKeepInv
  <2>5. CASE CreateCommit(s) \/ \E applied \in BOOLEAN : CommitFails(s, applied)
    BY <2>5, CommitsKeepInv
  <2>6. CASE \E o \in Orders, target \in Selections, completes \in BOOLEAN :
                ProcessBegin(s, o, target, completes)
    BY <2>6, ProcessBeginKeepsInv
  <2>7. CASE \E v \in Variants : LockVariant(s, v)
    BY <2>7, LockVariantKeepsInv
  <2>8. CASE ProcessCommit(s)
    BY <2>8, ProcessCommitKeepsInv
  <2> QED
    BY <2>1, <2>2, <2>3, <2>4, <2>5, <2>6, <2>7, <2>8 DEF SessionStep
<1>3. CASE \E o \in Orders, status \in OpenStatuses \cup FinalStatuses : Decide(o, status)
  BY <1>3, DecideKeepsInv
<1>4. CASE \/ \E o \in Orders, status \in SellerStatuses : SetOrderStatus(o, status)
           \/ \E o \in Orders : WindowCloses(o)
           \/ \E v \in Variants, d \in {-1, 1} : ChangeElsewhere(v, d)
  BY <1>4, ShopKeepsInv
<1> QED
  BY <1>1, <1>2, <1>3, <1>4 DEF Next

(***************************************************************************)
(* The invariant holds in every state the service can reach.               *)
(***************************************************************************)
THEOREM Invariance == Spec => []IInv
<1> QED
  BY InvInit, InvStep, PTL DEF Spec

(***************************************************************************)
(* Rows, locks, transactions and files always have their types.            *)
(***************************************************************************)
THEOREM TypeCorrect == Spec => []TypeOK
<1>1. IInv => TypeOK
  BY DEF IInv
<1> QED
  BY Invariance, <1>1, PTL

(***************************************************************************)
(* Never more is put back for an order than was bought in it, and only of  *)
(* a request that was approved.                                            *)
(***************************************************************************)
THEOREM RestockIsWithinPurchase == Spec => []RestockedWithinPurchase
<1>1. IInv => RestockedWithinPurchase
  <2> SUFFICES ASSUME IInv, NEW o \in Orders, NEW i \in Items, request[o].restocked[i] > 0
               PROVE  /\ OrderOf[i] = o
                      /\ request[o].restocked[i] <= Bought[i]
                      /\ request[o].status \in {"APPROVED", "COMPLETED", "CANCELLED"}
    BY DEF RestockedWithinPurchase
  <2>1. Sound(o, request[o])
    BY DEF IInv, RequestsAreSound
  <2>2. /\ request[o].status \in OpenStatuses \cup FinalStatuses \cup {"absent"}
        /\ request[o].restocked[i] \in Nat /\ request[o].quantity[i] \in Nat
        /\ Bought[i] \in Nat
    BY ItemsAssumption DEF IInv, TypeOK, Request, Quantities
  <2> QED
    BY <2>1, <2>2 DEF Sound, OpenStatuses, FinalStatuses
<1> QED
  BY Invariance, <1>1, PTL

(***************************************************************************)
(* The files of every committed request stay on the volume, unless its     *)
(* customer was told that the request was lost.                            *)
(***************************************************************************)
THEOREM EvidenceStays == Spec => []EvidenceIsKept
<1>1. IInv => EvidenceIsKept
  BY DEF IInv, FilesInv
<1> QED
  BY Invariance, <1>1, PTL

(***************************************************************************)
(* No file is on the volume without a request, a request being created, a  *)
(* crash or a failed write that explains it.                               *)
(***************************************************************************)
THEOREM FilesHaveReasons == Spec => []FilesAreAccounted
<1>1. IInv => FilesAreAccounted
  BY DEF IInv, FilesInv
<1> QED
  BY Invariance, <1>1, PTL

(***************************************************************************)
(* A rejected, completed or cancelled request is never changed, whatever   *)
(* was processing it when it was decided.                                  *)
(***************************************************************************)
THEOREM SettledStaysFinal == Spec => SettledRequestIsFinal
<1> DEFINE Final == \A o \in Orders : request[o].status \in FinalStatuses => request'[o] = request[o]
<1>1. IInv /\ [Next]_vars => Final
  <2> SUFFICES ASSUME IInv, [Next]_vars PROVE Final
    OBVIOUS
  <2>1. request \in [Orders -> Request]
    BY DEF IInv, TypeOK
  <2>2. CASE request' = request
    BY <2>2
  <2>3. CASE \E s \in Sessions : CreateCommit(s) \/ \E applied \in BOOLEAN : CommitFails(s, applied)
    <3>1. PICK s \in Sessions : CreateCommit(s) \/ \E applied \in BOOLEAN : CommitFails(s, applied)
      BY <2>3
    <3>2. /\ tx[s].order \in Orders /\ request[tx[s].order].status = "absent"
      BY <3>1 DEF IInv, SessionsOwnRows, OwnsOrder, CreateCommit, CommitFails
    <3>3. \A o \in Orders \ {tx[s].order} : request'[o] = request[o]
      BY <2>1, <3>1 DEF CreateCommit, CommitFails
    <3> QED
      BY <3>2, <3>3 DEF FinalStatuses
  <2>4. CASE \E s \in Sessions : ProcessCommit(s)
    <3>1. PICK s \in Sessions : ProcessCommit(s)
      BY <2>4
    <3>2. /\ tx[s].order \in Orders /\ request[tx[s].order].status = "APPROVED"
      BY <3>1 DEF IInv, SessionsOwnRows, OwnsRequest, ProcessCommit
    <3>3. \A o \in Orders \ {tx[s].order} : request'[o] = request[o]
      BY <2>1, <3>1 DEF ProcessCommit
    <3> QED
      BY <3>2, <3>3 DEF FinalStatuses
  <2>5. CASE \E o \in Orders, status \in OpenStatuses \cup FinalStatuses : Decide(o, status)
    BY <2>1, <2>5 DEF Decide, Transitions, FinalStatuses
  <2>6. \/ request' = request
        \/ \E s \in Sessions : CreateCommit(s) \/ \E applied \in BOOLEAN : CommitFails(s, applied)
        \/ \E s \in Sessions : ProcessCommit(s)
        \/ \E o \in Orders, status \in OpenStatuses \cup FinalStatuses : Decide(o, status)
    BY DEF Next, SessionStep, vars, rows, CreateBegin, SaveFile, SaveFails, ProcessBegin,
           LockVariant, Abort, SetOrderStatus, WindowCloses, ChangeElsewhere
  <2> QED
    BY <2>2, <2>3, <2>4, <2>5, <2>6
<1> QED
  BY Invariance, <1>1, PTL DEF Spec, SettledRequestIsFinal

(***************************************************************************)
(* After twenty-four hours no request for the order begins, however often  *)
(* the seller sets it to delivered again.                                  *)
(***************************************************************************)
THEOREM WindowStaysClosed == Spec => ClosedWindowStaysClosed
<1> DEFINE NewCreation(s, o) ==
              ~Busy(s) /\ Busy(s)' /\ tx'[s].kind = "create" /\ tx'[s].order = o
           Closed == \A o \in Orders : order[o].over =>
                        /\ order'[o].over
                        /\ \A s \in Sessions :
                              ~Busy(s) /\ Busy(s)' => ~(tx'[s].kind = "create" /\ tx'[s].order = o)
<1>1. IInv /\ [Next]_vars => Closed
  <2> SUFFICES ASSUME IInv, [Next]_vars, NEW o \in Orders, order[o].over
               PROVE  order'[o].over /\ \A s \in Sessions : ~NewCreation(s, o)
    OBVIOUS
  <2>1. order \in [Orders -> OrderRecord] /\ tx \in [Sessions -> Transaction]
    BY DEF IInv, TypeOK
  <2>2. CASE UNCHANGED vars
    BY <2>2 DEF vars, rows, Busy
  <2>3. CASE \E t \in Sessions : SessionStep(t)
    <3>1. PICK t \in Sessions : SessionStep(t)
      BY <2>3
    <3>2. order' = order /\ \A s \in Sessions \ {t} : tx'[s] = tx[s]
      BY <2>1, <3>1 DEF SessionStep, CreateBegin, SaveFile, SaveFails, CreateCommit, CommitFails,
         ProcessBegin, LockVariant, ProcessCommit, Abort, EndTx, rows
    <3>3. \A s \in Sessions \ {t} : ~NewCreation(s, o)
      BY <3>2 DEF Busy
    <3>4. ~NewCreation(t, o)
      <4>1. CASE \E p \in Orders, q \in Selections : CreateBegin(t, p, q)
        <5>1. PICK p \in Orders, q \in Selections : CreateBegin(t, p, q)
          BY <4>1
        <5>2. p # o
          BY <5>1 DEF CreateBegin, Eligible
        <5>3. tx'[t].order = p
          BY <2>1, <5>1 DEF CreateBegin, IdleTx
        <5> QED
          BY <5>2, <5>3
      <4>2. CASE \E p \in Orders, target \in Selections, completes \in BOOLEAN :
                    ProcessBegin(t, p, target, completes)
        <5>1. tx'[t].kind = "process"
          BY <2>1, <4>2 DEF ProcessBegin, ProcessOf, IdleTx
        <5> QED
          BY <5>1
      <4>3. CASE \E v \in Variants : LockVariant(t, v)
        BY <2>1, <4>3 DEF LockVariant, Busy, Transaction
      <4>4. CASE \E f \in Files : SaveFile(t, f)
        BY <4>4 DEF SaveFile, Busy
      <4>5. CASE tx'[t] = IdleTx
        BY <4>5 DEF IdleTx, Busy
      <4>6. \/ tx'[t] = IdleTx
            \/ \E p \in Orders, q \in Selections : CreateBegin(t, p, q)
            \/ \E f \in Files : SaveFile(t, f)
            \/ \E p \in Orders, target \in Selections, completes \in BOOLEAN :
                  ProcessBegin(t, p, target, completes)
            \/ \E v \in Variants : LockVariant(t, v)
        BY <2>1, <3>1 DEF SessionStep, SaveFails, CreateCommit, CommitFails, ProcessCommit, Abort,
           EndTx
      <4> QED
        BY <4>1, <4>2, <4>3, <4>4, <4>5, <4>6
    <3> QED
      BY <3>2, <3>3, <3>4
  <2>4. CASE \E p \in Orders, status \in SellerStatuses : SetOrderStatus(p, status)
    BY <2>1, <2>4 DEF SetOrderStatus, OrderAfter, OrderRecord, Busy
  <2>5. CASE \E p \in Orders : WindowCloses(p)
    BY <2>1, <2>5 DEF WindowCloses, OrderRecord, Busy
  <2>6. CASE \/ \E p \in Orders, status \in OpenStatuses \cup FinalStatuses : Decide(p, status)
             \/ \E v \in Variants, d \in {-1, 1} : ChangeElsewhere(v, d)
    BY <2>6 DEF Decide, ChangeElsewhere, Busy
  <2> QED
    BY <2>2, <2>3, <2>4, <2>5, <2>6 DEF Next
<1> QED
  BY Invariance, <1>1, PTL DEF Spec, ClosedWindowStaysClosed

-----------------------------------------------------------------------------
(***************************************************************************)
(* Stock.  What a session that processes a return will add to the shelf is *)
(* what its target adds to the restocked units as they are now: nobody     *)
(* else changes them while it has the row of the request.                  *)
(***************************************************************************)
PlanIsCurrent(s) ==
    tx[s].kind = "process" =>
       \A i \in Items : tx[s].delta[i] = tx[s].target[i] - request[tx[s].order].restocked[i]

StockInv == StockMatchesRestocks /\ \A s \in Sessions : PlanIsCurrent(s)

LEMMA UnitsType ==
    ASSUME NEW q \in Quantities, NEW v \in Variants
    PROVE  UnitsOf(q, v) \in Nat
<1> DEFINE f == [i \in Items |-> IF VariantOf[i] = v THEN q[i] ELSE 0]
<1>1. \A i \in Items : f[i] \in Nat
  BY DEF Quantities
<1>2. SumFunctionOnSet(f, Items) \in Nat
  <2> HIDE DEF f
  <2> QED
    BY <1>1, FinitenessAssumption, SumTypeNat
<1> QED
  BY <1>2 DEF UnitsOf, SumFunction

LEMMA UnitsOfNone ==
    ASSUME NEW q \in Quantities, NEW v \in Variants, \A i \in Items : q[i] = 0
    PROVE  UnitsOf(q, v) = 0
<1> DEFINE f == [i \in Items |-> IF VariantOf[i] = v THEN q[i] ELSE 0]
<1>1. \A i \in Items : f[i] = 0
  OBVIOUS
<1>2. SumFunctionOnSet(f, Items) = 0
  <2> HIDE DEF f
  <2> QED
    BY <1>1, FinitenessAssumption, SumOfZeros
<1> QED
  BY <1>2 DEF UnitsOf, SumFunction

(***************************************************************************)
(* Units of a plan are the units there were and the units it adds.         *)
(***************************************************************************)
LEMMA UnitsOfPlan ==
    ASSUME NEW was \in Quantities, NEW more \in Quantities, NEW target \in Quantities,
           \A i \in Items : more[i] = target[i] - was[i], NEW v \in Variants
    PROVE  UnitsOf(target, v) = UnitsOf(was, v) + UnitsOf(more, v)
<1> DEFINE f == [i \in Items |-> IF VariantOf[i] = v THEN was[i] ELSE 0]
           g == [i \in Items |-> IF VariantOf[i] = v THEN more[i] ELSE 0]
           h == [i \in Items |-> IF VariantOf[i] = v THEN target[i] ELSE 0]
<1>1. \A i \in Items : f[i] \in Int /\ g[i] \in Int /\ h[i] = f[i] + g[i]
  BY DEF Quantities
<1>2. SumFunctionOnSet(h, Items) = SumFunctionOnSet(f, Items) + SumFunctionOnSet(g, Items)
  <2> HIDE DEF f, g, h
  <2> QED
    BY <1>1, FinitenessAssumption, SumOfSums
<1> QED
  BY <1>2 DEF UnitsOf, SumFunction

LEMMA RestockedType ==
    ASSUME TypeOK, NEW o \in Orders, NEW v \in Variants
    PROVE  UnitsOf(request[o].restocked, v) \in Nat
<1>1. request[o].restocked \in Quantities
  BY DEF TypeOK, Request
<1> QED
  BY <1>1, UnitsType

(***************************************************************************)
(* Restocked units change with the request of one order, by what its       *)
(* units change.                                                           *)
(***************************************************************************)
LEMMA RestockedAfterChange ==
    ASSUME TypeOK, TypeOK', NEW o \in Orders, NEW v \in Variants,
           \A p \in Orders \ {o} : request'[p].restocked = request[p].restocked
    PROVE  /\ RestockedUnits(v) \in Int
           /\ RestockedUnits(v)' = RestockedUnits(v) - UnitsOf(request[o].restocked, v)
                                                    + UnitsOf(request'[o].restocked, v)
<1> DEFINE f == [p \in Orders |-> UnitsOf(request[p].restocked, v)]
           g == [p \in Orders |-> UnitsOf(request'[p].restocked, v)]
<1>1. \A p \in Orders : f[p] \in Int /\ g[p] \in Int /\ (p # o => g[p] = f[p])
  <2>1. \A p \in Orders : request[p].restocked \in Quantities /\ request'[p].restocked \in Quantities
    BY DEF TypeOK, Request
  <2>2. \A p \in Orders : UnitsOf(request[p].restocked, v) \in Nat /\ UnitsOf(request'[p].restocked, v) \in Nat
    BY <2>1, UnitsType
  <2> QED
    BY <2>2
<1>2. /\ SumFunctionOnSet(f, Orders) \in Int
      /\ SumFunctionOnSet(g, Orders) = SumFunctionOnSet(f, Orders) - f[o] + g[o]
  <2> HIDE DEF f, g
  <2> QED
    BY <1>1, FinitenessAssumption, SumType, SumAfterChange
<1> QED
  BY <1>2 DEF RestockedUnits, SumFunction

LEMMA RestockedKept ==
    ASSUME TypeOK, TypeOK', NEW v \in Variants,
           \A p \in Orders : request'[p].restocked = request[p].restocked
    PROVE  RestockedUnits(v) \in Int /\ RestockedUnits(v)' = RestockedUnits(v)
<1> DEFINE f == [p \in Orders |-> UnitsOf(request[p].restocked, v)]
           g == [p \in Orders |-> UnitsOf(request'[p].restocked, v)]
<1>1. f = g /\ \A p \in Orders : f[p] \in Int
  BY RestockedType
<1>2. SumFunctionOnSet(f, Orders) \in Int
  <2> HIDE DEF f
  <2> QED
    BY <1>1, FinitenessAssumption, SumType
<1> QED
  BY <1>1, <1>2 DEF RestockedUnits, SumFunction

LEMMA StockInvInit == Init => StockInv
<1> SUFFICES ASSUME Init PROVE StockInv
  OBVIOUS
<1>1. TypeOK
  BY InvInit DEF IInv
<1>2. \A s \in Sessions : PlanIsCurrent(s)
  BY DEF Init, PlanIsCurrent, IdleTx
<1>3. ASSUME NEW v \in Variants
      PROVE  stock[v] = InitialStock[v] + elsewhere[v] + RestockedUnits(v)
  <2> DEFINE f == [o \in Orders |-> UnitsOf(request[o].restocked, v)]
  <2>1. \A o \in Orders : f[o] = 0
    <3>1. \A o \in Orders : request[o].restocked = NoUnits
      BY DEF Init, NoRequest
    <3> QED
      BY <3>1, NoUnitsType, UnitsOfNone
  <2>2. SumFunctionOnSet(f, Orders) = 0
    <3> HIDE DEF f
    <3> QED
      BY <2>1, FinitenessAssumption, SumOfZeros
  <2>3. RestockedUnits(v) = 0
    BY <2>2 DEF RestockedUnits, SumFunction
  <2>4. stock[v] = InitialStock[v] /\ elsewhere[v] = 0 /\ InitialStock[v] \in Nat
    BY ItemsAssumption DEF Init
  <2> QED
    BY <2>3, <2>4
<1> QED
  BY <1>2, <1>3 DEF StockInv, StockMatchesRestocks

-----------------------------------------------------------------------------
(***************************************************************************)
(* Two ways in which a step keeps the books: it changes neither stock nor  *)
(* restocked units; or it changes both alike.  And two in which a plan     *)
(* stays current.                                                          *)
(***************************************************************************)
LEMMA QuietKeepsStock ==
    ASSUME TypeOK, TypeOK', StockMatchesRestocks, UNCHANGED <<stock, elsewhere>>,
           \A o \in Orders : request'[o].restocked = request[o].restocked
    PROVE  StockMatchesRestocks'
<1> SUFFICES ASSUME NEW v \in Variants
             PROVE  stock'[v] = InitialStock[v] + elsewhere'[v] + RestockedUnits(v)'
  BY DEF StockMatchesRestocks
<1>1. RestockedUnits(v)' = RestockedUnits(v)
  BY RestockedKept
<1> QED
  BY <1>1 DEF StockMatchesRestocks

LEMMA PlanKept ==
    ASSUME IInv, NEW s \in Sessions, PlanIsCurrent(s),
           /\ tx'[s].kind = tx[s].kind /\ tx'[s].order = tx[s].order
           /\ tx'[s].target = tx[s].target /\ tx'[s].delta = tx[s].delta,
           \A o \in Orders : lock[ReturnRow(o)] = s /\ request[o].status = "APPROVED" =>
                                 request'[o].restocked = request[o].restocked
    PROVE  PlanIsCurrent(s)'
<1> SUFFICES ASSUME tx[s].kind = "process" PROVE PlanIsCurrent(s)'
  BY DEF PlanIsCurrent
<1>1. /\ tx[s].order \in Orders /\ lock[ReturnRow(tx[s].order)] = s
      /\ request[tx[s].order].status = "APPROVED"
  BY DEF IInv, SessionsOwnRows, OwnsRequest
<1>2. request'[tx[s].order].restocked = request[tx[s].order].restocked
  BY <1>1
<1> QED
  BY <1>2 DEF PlanIsCurrent

LEMMA EndKeepsPlans ==
    ASSUME IInv, StockInv, NEW s \in Sessions, EndTx(s),
           \A o \in Orders : request[o].status = "APPROVED" /\ lock[ReturnRow(o)] # s =>
                                 request'[o].restocked = request[o].restocked
    PROVE  \A t \in Sessions : PlanIsCurrent(t)'
<1> SUFFICES ASSUME NEW t \in Sessions PROVE PlanIsCurrent(t)'
  OBVIOUS
<1>1. TypeOK
  BY DEF IInv
<1>2. tx'[s] = IdleTx /\ \A u \in Sessions \ {s} : tx'[u] = tx[u]
  BY <1>1, EndEffect
<1>3. CASE t = s
  BY <1>2, <1>3 DEF PlanIsCurrent, IdleTx
<1>4. CASE t # s
  <2>1. PlanIsCurrent(t) /\ tx'[t] = tx[t]
    BY <1>2, <1>4 DEF StockInv
  <2>2. \A o \in Orders : lock[ReturnRow(o)] = t /\ request[o].status = "APPROVED" =>
                              request'[o].restocked = request[o].restocked
    BY <1>4
  <2> QED
    BY <2>1, <2>2, PlanKept
<1> QED
  BY <1>3, <1>4

LEMMA ElsewhereKeepsStock ==
    ASSUME IInv, IInv', StockInv, NEW v \in Variants, NEW d \in {-1, 1}, ChangeElsewhere(v, d)
    PROVE  StockInv'
<1>1. /\ TypeOK /\ TypeOK' /\ request' = request /\ tx' = tx
      /\ stock' = [stock EXCEPT ![v] = @ + d] /\ elsewhere' = [elsewhere EXCEPT ![v] = @ + d]
  BY DEF IInv, ChangeElsewhere
<1>2. \A t \in Sessions : PlanIsCurrent(t)'
  BY <1>1 DEF StockInv, PlanIsCurrent
<1>3. ASSUME NEW w \in Variants
      PROVE  stock'[w] = InitialStock[w] + elsewhere'[w] + RestockedUnits(w)'
  <2>1. RestockedUnits(w) \in Int /\ RestockedUnits(w)' = RestockedUnits(w)
    BY <1>1, RestockedKept
  <2>2. stock[w] = InitialStock[w] + elsewhere[w] + RestockedUnits(w)
    BY DEF StockInv, StockMatchesRestocks
  <2>3. InitialStock[w] \in Nat /\ elsewhere[w] \in Int /\ stock[w] \in Nat
    BY <1>1, ItemsAssumption DEF TypeOK
  <2>4. /\ stock'[w] = IF w = v THEN stock[w] + d ELSE stock[w]
        /\ elsewhere'[w] = IF w = v THEN elsewhere[w] + d ELSE elsewhere[w]
    BY <1>1 DEF TypeOK
  <2> QED
    BY <2>1, <2>2, <2>3, <2>4
<1> QED
  BY <1>2, <1>3 DEF StockInv, StockMatchesRestocks

LEMMA ProcessBeginKeepsStock ==
    ASSUME IInv, IInv', StockInv, NEW s \in Sessions, NEW o \in Orders,
           NEW target \in Selections, NEW completes \in BOOLEAN,
           ProcessBegin(s, o, target, completes)
    PROVE  StockInv'
<1>1. /\ TypeOK /\ TypeOK' /\ request' = request /\ UNCHANGED <<stock, elsewhere>>
      /\ tx' = [tx EXCEPT ![s] = ProcessOf(o, target, completes)]
  BY DEF IInv, ProcessBegin, rows
<1>2. /\ tx'[s].order = o /\ tx'[s].target = target /\ tx'[s].delta = Delta(o, target)
      /\ \A t \in Sessions \ {s} : tx'[t] = tx[t]
  BY <1>1 DEF TypeOK, ProcessOf, IdleTx
<1>3. PlanIsCurrent(s)'
  BY <1>1, <1>2 DEF PlanIsCurrent, Delta
<1>4. \A t \in Sessions \ {s} : PlanIsCurrent(t)'
  BY <1>1, <1>2 DEF StockInv, PlanIsCurrent
<1>5. StockMatchesRestocks'
  BY <1>1, QuietKeepsStock DEF StockInv
<1> QED
  BY <1>3, <1>4, <1>5 DEF StockInv

(***************************************************************************)
(* The units of the plan are put on the shelf and recorded as put back.    *)
(***************************************************************************)
LEMMA ProcessCommitKeepsStock ==
    ASSUME IInv, IInv', StockInv, NEW s \in Sessions, ProcessCommit(s)
    PROVE  StockInv'
<1> DEFINE o == tx[s].order
<1>1. /\ TypeOK /\ TypeOK' /\ EndTx(s) /\ tx[s].kind = "process" /\ elsewhere' = elsewhere
      /\ stock' = [v \in Variants |-> stock[v] + UnitsOf(tx[s].delta, v)]
  BY DEF IInv, ProcessCommit
<1>2. /\ o \in Orders /\ lock[ReturnRow(o)] = s
  BY <1>1 DEF IInv, SessionsOwnRows, OwnsRequest
<1>3. /\ request'[o].restocked = tx[s].target
      /\ \A p \in Orders \ {o} : request'[p] = request[p]
  BY <1>1, <1>2 DEF ProcessCommit, TypeOK, Request
<1>4. \A t \in Sessions : PlanIsCurrent(t)'
  BY <1>1, <1>2, <1>3, EndKeepsPlans
<1>5. /\ request[o].restocked \in Quantities /\ tx[s].target \in Quantities
      /\ tx[s].delta \in Quantities
  BY <1>1, <1>2 DEF TypeOK, Request, Transaction
<1>6. \A i \in Items : tx[s].delta[i] = tx[s].target[i] - request[o].restocked[i]
  BY <1>1 DEF StockInv, PlanIsCurrent
<1>7. ASSUME NEW v \in Variants
      PROVE  stock'[v] = InitialStock[v] + elsewhere'[v] + RestockedUnits(v)'
  <2> DEFINE was == UnitsOf(request[o].restocked, v)
             more == UnitsOf(tx[s].delta, v)
  <2>1. UnitsOf(tx[s].target, v) = was + more /\ was \in Nat /\ more \in Nat
    BY <1>5, <1>6, UnitsOfPlan, UnitsType
  <2>2. /\ RestockedUnits(v) \in Int
        /\ RestockedUnits(v)' = RestockedUnits(v) - was + UnitsOf(tx[s].target, v)
    BY <1>1, <1>2, <1>3, RestockedAfterChange
  <2>3. stock'[v] = stock[v] + more
    BY <1>1
  <2>4. stock[v] = InitialStock[v] + elsewhere[v] + RestockedUnits(v)
    BY DEF StockInv, StockMatchesRestocks
  <2>5. InitialStock[v] \in Nat /\ elsewhere[v] \in Int /\ stock[v] \in Nat
    BY <1>1, ItemsAssumption DEF TypeOK
  <2> HIDE DEF was, more
  <2> QED
    BY <1>1, <2>1, <2>2, <2>3, <2>4, <2>5
<1> QED
  BY <1>4, <1>7 DEF StockInv, StockMatchesRestocks

(***************************************************************************)
(* A request that is created has nothing restocked, like none at all.      *)
(***************************************************************************)
LEMMA CreationKeepsStock ==
    ASSUME IInv, IInv', StockInv, NEW s \in Sessions, tx[s].kind = "create", EndTx(s),
           UNCHANGED <<stock, elsewhere>>,
           request' = [request EXCEPT ![tx[s].order] = CreatedRequest(s)]
    PROVE  StockInv'
<1> DEFINE o == tx[s].order
<1>1. TypeOK /\ TypeOK'
  BY DEF IInv
<1>2. o \in Orders /\ request[o].status = "absent"
  BY DEF IInv, SessionsOwnRows, OwnsOrder
<1>3. request[o].restocked = NoUnits
  <2>1. request[o].restocked \in [Items -> Nat]
    BY <1>1, <1>2 DEF TypeOK, Request, Quantities
  <2>2. \A i \in Items : request[o].restocked[i] = 0
    BY <1>2 DEF IInv, RequestsAreSound, Sound
  <2> QED
    BY <2>1, <2>2 DEF NoUnits
<1>4. /\ request'[o].restocked = NoUnits
      /\ \A p \in Orders \ {o} : request'[p] = request[p]
  BY <1>1, <1>2 DEF TypeOK, CreatedRequest, NoRequest
<1>5. \A p \in Orders : request'[p].restocked = request[p].restocked
  BY <1>3, <1>4
<1>6. StockMatchesRestocks'
  BY <1>1, <1>5, QuietKeepsStock DEF StockInv
<1>7. \A t \in Sessions : PlanIsCurrent(t)'
  BY <1>5, EndKeepsPlans
<1> QED
  BY <1>6, <1>7 DEF StockInv

LEMMA EndKeepsStock ==
    ASSUME IInv, IInv', StockInv, NEW s \in Sessions, EndTx(s),
           UNCHANGED <<request, stock, elsewhere>>
    PROVE  StockInv'
<1>1. \A t \in Sessions : PlanIsCurrent(t)'
  BY EndKeepsPlans
<1>2. StockMatchesRestocks'
  BY QuietKeepsStock DEF StockInv, IInv
<1> QED
  BY <1>1, <1>2 DEF StockInv

LEMMA WaitingKeepsStock ==
    ASSUME IInv, IInv', StockInv, UNCHANGED <<stock, elsewhere>>,
           \A o \in Orders : request'[o].restocked = request[o].restocked,
           \A t \in Sessions : \/ tx'[t].kind = "create"
                               \/ /\ tx'[t].kind = tx[t].kind /\ tx'[t].order = tx[t].order
                                  /\ tx'[t].target = tx[t].target /\ tx'[t].delta = tx[t].delta
    PROVE  StockInv'
<1>1. StockMatchesRestocks'
  BY QuietKeepsStock DEF StockInv, IInv
<1>2. ASSUME NEW t \in Sessions PROVE PlanIsCurrent(t)'
  <2>1. CASE tx'[t].kind = "create"
    BY <2>1 DEF PlanIsCurrent
  <2>2. CASE tx'[t].kind # "create"
    BY <2>2, PlanKept DEF StockInv
  <2> QED
    BY <2>1, <2>2
<1> QED
  BY <1>1, <1>2 DEF StockInv

LEMMA StockInvStep == IInv /\ IInv' /\ StockInv /\ [Next]_vars => StockInv'
<1> SUFFICES ASSUME IInv, IInv', StockInv, [Next]_vars PROVE StockInv'
  OBVIOUS
<1>0. request \in [Orders -> Request] /\ tx \in [Sessions -> Transaction]
  BY DEF IInv, TypeOK
<1>1. CASE UNCHANGED <<request, stock, elsewhere, tx>>
  BY <1>1, WaitingKeepsStock
<1>2. CASE \E s \in Sessions : SessionStep(s)
  <2>1. PICK s \in Sessions : SessionStep(s)
    BY <1>2
  <2>2. CASE \E o \in Orders, q \in Selections : CreateBegin(s, o, q)
    <3>1. /\ UNCHANGED <<request, stock, elsewhere>> /\ tx'[s].kind = "create"
          /\ \A t \in Sessions \ {s} : tx'[t] = tx[t]
      BY <1>0, <2>2 DEF CreateBegin, rows, IdleTx
    <3> QED
      BY <3>1, WaitingKeepsStock
  <2>3. CASE \E f \in Files : SaveFile(s, f)
    <3>1. /\ UNCHANGED <<request, stock, elsewhere>> /\ tx'[s].kind = "create"
          /\ \A t \in Sessions \ {s} : tx'[t] = tx[t]
      BY <1>0, <2>3 DEF SaveFile, rows, Transaction
    <3> QED
      BY <3>1, WaitingKeepsStock
  <2>4. CASE Abort(s) \/ (\E left \in SUBSET Files : SaveFails(s, left)) \/ CommitFails(s, FALSE)
    <3>1. EndTx(s) /\ UNCHANGED <<request, stock, elsewhere>>
      BY <1>0, <2>4 DEF Abort, SaveFails, CommitFails, rows
    <3> QED
      BY <3>1, EndKeepsStock
  <2>5. CASE CreateCommit(s) \/ CommitFails(s, TRUE)
    <3>1. /\ tx[s].kind = "create" /\ EndTx(s) /\ UNCHANGED <<stock, elsewhere>>
          /\ request' = [request EXCEPT ![tx[s].order] = CreatedRequest(s)]
      BY <2>5 DEF CreateCommit, CommitFails
    <3> QED
      BY <3>1, CreationKeepsStock
  <2>6. CASE \E o \in Orders, target \in Selections, completes \in BOOLEAN :
                ProcessBegin(s, o, target, completes)
    BY <2>6, ProcessBeginKeepsStock
  <2>7. CASE \E v \in Variants : LockVariant(s, v)
    <3>1. /\ UNCHANGED <<request, stock, elsewhere>>
          /\ \A t \in Sessions : /\ tx'[t].kind = tx[t].kind /\ tx'[t].order = tx[t].order
                                 /\ tx'[t].target = tx[t].target /\ tx'[t].delta = tx[t].delta
      BY <1>0, <2>7 DEF LockVariant, rows, Transaction
    <3> QED
      BY <3>1, WaitingKeepsStock
  <2>8. CASE ProcessCommit(s)
    BY <2>8, ProcessCommitKeepsStock
  <2> QED
    BY <2>1, <2>2, <2>3, <2>4, <2>5, <2>6, <2>7, <2>8 DEF SessionStep
<1>3. CASE \E o \in Orders, status \in OpenStatuses \cup FinalStatuses : Decide(o, status)
  <2>1. /\ UNCHANGED <<stock, elsewhere, tx>>
        /\ \A o \in Orders : request'[o].restocked = request[o].restocked
    BY <1>0, <1>3 DEF Decide, Request
  <2> QED
    BY <2>1, WaitingKeepsStock
<1>4. CASE \E v \in Variants, d \in {-1, 1} : ChangeElsewhere(v, d)
  BY <1>4, ElsewhereKeepsStock
<1>5. CASE \/ \E o \in Orders, status \in SellerStatuses : SetOrderStatus(o, status)
           \/ \E o \in Orders : WindowCloses(o)
  BY <1>1, <1>5 DEF SetOrderStatus, WindowCloses
<1> QED
  BY <1>1, <1>2, <1>3, <1>4, <1>5 DEF Next, vars, rows

(***************************************************************************)
(* Stock is always what the rest of the shop made of it plus the units     *)
(* recorded as put back: no interleaving of processings, decisions, sales  *)
(* and crashes puts a unit back twice or loses one.                        *)
(***************************************************************************)
THEOREM StockIsAccounted == Spec => []StockMatchesRestocks
<1>1. Init => IInv /\ StockInv
  BY InvInit, StockInvInit
<1>2. (IInv /\ StockInv) /\ [Next]_vars => (IInv /\ StockInv)'
  BY InvStep, StockInvStep
<1>3. IInv /\ StockInv => StockMatchesRestocks
  BY DEF StockInv
<1> QED
  BY <1>1, <1>2, <1>3, PTL DEF Spec
=============================================================================
