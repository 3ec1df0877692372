------------------------------- MODULE Returns -------------------------------
(***************************************************************************)
(* Returns of delivered orders: the customer's request with its evidence   *)
(* files, the decisions about it, and its processing, which records the    *)
(* refund and puts units back on the shelf.                                *)
(*                                                                         *)
(* order, request and stock are committed rows; an order has at most one   *)
(* request, so requests go by their order.  files is the upload volume,    *)
(* which no transaction covers.  Decisions lock the row of the request,    *)
(* write and commit: each is one action.  Creating and processing take     *)
(* several steps, with the request in tx.                                  *)
(***************************************************************************)
EXTENDS Integers, FiniteSets, Functions

CONSTANTS
    Orders,
    Items,            \* order items
    OrderOf,          \* the order of each item
    VariantOf,        \* the product variant of each item
    Bought,           \* the quantity of each item
    Returnable,       \* items with is_returnable
    Variants,
    InitialStock,
    SellerStatuses,   \* the order statuses a seller may assign
    Sessions,
    Nobody,
    NoOrder,
    Files,            \* names on the upload volume, uuid4 in the code
    MaxAttachments,   \* MAX_RETURN_ATTACHMENTS
    MaxElsewhere,     \* bound: units that others add or take
    MaxFailures       \* bound: crashes, failed writes and lost connections

ASSUME ItemsAssumption ==
    /\ OrderOf \in [Items -> Orders]
    /\ VariantOf \in [Items -> Variants]
    /\ Bought \in [Items -> Nat \ {0}]
    /\ Returnable \subseteq Items
    /\ InitialStock \in [Variants -> Nat]
ASSUME FinitenessAssumption == IsFiniteSet(Orders) /\ IsFiniteSet(Items)
ASSUME SellerStatusesAssumption ==
    SellerStatuses \subseteq {"NEW", "PROCESSING", "SHIPPED", "DELIVERED", "CANCELLED"}
ASSUME NullsAssumption == Nobody \notin Sessions /\ NoOrder \notin Orders
ASSUME BoundsAssumption ==
    MaxAttachments \in Nat /\ MaxElsewhere \in Nat /\ MaxFailures \in Nat

VARIABLES
    order,       \* status and delivery of each order
    request,     \* return request of each order
    stock,       \* stock_quantity of each variant
    elsewhere,   \* history: what sales, releases and recounts did to stock
    lock,        \* the session that holds each row
    tx,          \* the request each session is serving
    files,       \* files on the volume
    debris,      \* history: files left by a crash or by a write that failed
    misled,      \* history: orders whose request was committed but reported lost
    failures

rows == <<order, request, stock>>
volume == <<files, debris, misled>>
vars == <<rows, elsewhere, lock, tx, volume, failures>>

OrderRow(o) == <<"order", o>>
ReturnRow(o) == <<"return", o>>
VariantLock(v) == <<"variant", v>>
Rows == {OrderRow(o) : o \in Orders} \cup {ReturnRow(o) : o \in Orders}
          \cup {VariantLock(v) : v \in Variants}

Locks == INSTANCE RowLocks

-----------------------------------------------------------------------------
Quantities == [Items -> Nat]
NoUnits == [i \in Items |-> 0]

(***************************************************************************)
(* The orders here are paid for: the status endpoint may assign any status *)
(* to them.                                                                *)
(***************************************************************************)
OrderStatuses == {"NEW", "PROCESSING", "SHIPPED", "DELIVERED", "CANCELLED"}
OrderRecord == [status : OrderStatuses,
                delivered : BOOLEAN,      \* delivered_at is set
                over : BOOLEAN]           \* now > delivered_at + RETURN_WINDOW

OpenStatuses == {"PENDING", "APPROVED"}
FinalStatuses == {"REJECTED", "COMPLETED", "CANCELLED"}
Request == [status : OpenStatuses \cup FinalStatuses \cup {"absent"},
            quantity : Quantities,
            restocked : Quantities,       \* restocked_quantity
            refunded : BOOLEAN,           \* a refund is RECORDED
            files : SUBSET Files]
NoRequest == [status |-> "absent", quantity |-> NoUnits, restocked |-> NoUnits,
              refunded |-> FALSE, files |-> {}]

Kinds == {"idle", "create", "process"}
Transaction == [kind : Kinds,
                order : Orders \cup {NoOrder},
                quantity : Quantities,    \* create: units to return
                saved : SUBSET Files,     \* create: saved_paths
                target : Quantities,      \* process: target quantities
                delta : Quantities,       \* process: units to put back
                need : SUBSET Variants,   \* process: variants still to be locked
                completes : BOOLEAN]      \* process: payload.complete
IdleTx == [kind |-> "idle", order |-> NoOrder, quantity |-> NoUnits, saved |-> {},
           target |-> NoUnits, delta |-> NoUnits, need |-> {}, completes |-> FALSE]

Busy(s) == tx[s].kind # "idle"

TypeOK ==
    /\ order \in [Orders -> OrderRecord]
    /\ request \in [Orders -> Request]
    /\ stock \in [Variants -> Nat]
    /\ elsewhere \in [Variants -> Int]
    /\ lock \in [Rows -> Sessions \cup {Nobody}]
    /\ tx \in [Sessions -> Transaction]
    /\ files \subseteq Files
    /\ debris \subseteq Files
    /\ misled \subseteq Orders
    /\ failures \in 0 .. MaxFailures

Init ==
    /\ order = [o \in Orders |-> [status |-> "SHIPPED", delivered |-> FALSE, over |-> FALSE]]
    /\ request = [o \in Orders |-> NoRequest]
    /\ stock = InitialStock
    /\ elsewhere = [v \in Variants |-> 0]
    /\ lock = [r \in Rows |-> Nobody]
    /\ tx = [s \in Sessions |-> IdleTx]
    /\ files = {}
    /\ debris = {}
    /\ misled = {}
    /\ failures = 0

EndTx(s) ==
    /\ tx' = [tx EXCEPT ![s] = IdleTx]
    /\ lock' = Locks!WithoutSession(lock, s)

Fails == failures < MaxFailures /\ failures' = failures + 1

-----------------------------------------------------------------------------
(* Mutant: each delivery restarts the window. *)
RedeliveredOrder(row, status) ==
    [status |-> status,
     delivered |-> row.delivered \/ status = "DELIVERED",
     over |-> row.over /\ status # "DELIVERED"]

(***************************************************************************)
(* The status endpoint.  The first delivery sets delivered_at; later ones  *)
(* keep it.                                                                *)
(***************************************************************************)
OrderAfter(row, status) ==
    [row EXCEPT !.status = status, !.delivered = @ \/ status = "DELIVERED"]

SetOrderStatus(o, status) ==
    /\ lock[OrderRow(o)] = Nobody
    /\ order' = [order EXCEPT ![o] = OrderAfter(@, status)]
    /\ UNCHANGED <<request, stock, elsewhere, lock, tx, volume, failures>>

(***************************************************************************)
(* Twenty-four hours have passed since the delivery.                       *)
(***************************************************************************)
WindowCloses(o) ==
    /\ order[o].delivered
    /\ ~order[o].over
    /\ order' = [order EXCEPT ![o].over = TRUE]
    /\ UNCHANGED <<request, stock, elsewhere, lock, tx, volume, failures>>

(***************************************************************************)
(* Checkouts, releases and recounts of the rest of the shop, which hold    *)
(* the row of the variant while they change it.                            *)
(***************************************************************************)
ChangeElsewhere(v, d) ==
    /\ lock[VariantLock(v)] = Nobody
    /\ stock[v] + d \in Nat
    /\ elsewhere[v] + d \in -MaxElsewhere .. MaxElsewhere
    /\ stock' = [stock EXCEPT ![v] = @ + d]
    /\ elsewhere' = [elsewhere EXCEPT ![v] = @ + d]
    /\ UNCHANGED <<order, request, lock, tx, volume, failures>>

-----------------------------------------------------------------------------
(***************************************************************************)
(* Creating a request.  The row of the order is locked before the service  *)
(* looks for an earlier request and at the window.                         *)
(***************************************************************************)
Eligible(o) ==
    /\ request[o].status = "absent"
    /\ order[o].status = "DELIVERED"
    /\ order[o].delivered
    /\ ~order[o].over

(* Mutant: items of other orders may be returned, too. *)
AnySelection(o, q) == q # NoUnits

Selection(o, q) ==
    /\ q # NoUnits
    /\ \A i \in Items : /\ q[i] <= Bought[i]
                        /\ q[i] > 0 => OrderOf[i] = o /\ i \in Returnable

CreateBegin(s, o, q) ==
    /\ ~Busy(s)
    /\ lock[OrderRow(o)] = Nobody
    /\ Eligible(o)
    /\ Selection(o, q)
    /\ lock' = Locks!WithRows(lock, {OrderRow(o)}, s)
    /\ tx' = [tx EXCEPT ![s] = [IdleTx EXCEPT !.kind = "create", !.order = o, !.quantity = q]]
    /\ UNCHANGED <<rows, elsewhere, volume, failures>>

(* Mutant: files are stored under the names the customer gave them. *)
SaveFileByName(s, f) ==
    /\ tx[s].kind = "create"
    /\ Cardinality(tx[s].saved) < MaxAttachments
    /\ files' = files \cup {f}
    /\ tx' = [tx EXCEPT ![s].saved = @ \cup {f}]
    /\ UNCHANGED <<rows, elsewhere, lock, debris, misled, failures>>

SaveFile(s, f) ==
    /\ tx[s].kind = "create"
    /\ Cardinality(tx[s].saved) < MaxAttachments
    /\ f \in Files \ files
    /\ files' = files \cup {f}
    /\ tx' = [tx EXCEPT ![s].saved = @ \cup {f}]
    /\ UNCHANGED <<rows, elsewhere, lock, debris, misled, failures>>

(* Mutant: the files of a failed request are left. *)
NothingDeleted(s) == files

(***************************************************************************)
(* _rollback_and_delete                                                    *)
(***************************************************************************)
AfterDeletion(s) == files \ tx[s].saved

(***************************************************************************)
(* A write fails, the disk being full: the handler rolls back and deletes  *)
(* what it saved, but not the file whose write failed, if it is there.     *)
(***************************************************************************)
SaveFails(s, left) ==
    /\ tx[s].kind = "create"
    /\ Cardinality(left) <= 1
    /\ left \subseteq Files \ files
    /\ Fails
    /\ files' = AfterDeletion(s) \cup left
    /\ debris' = debris \cup left
    /\ EndTx(s)
    /\ UNCHANGED <<rows, elsewhere, misled>>

CreatedRequest(s) ==
    [NoRequest EXCEPT !.status = "PENDING", !.quantity = tx[s].quantity, !.files = tx[s].saved]

CreateCommit(s) ==
    /\ tx[s].kind = "create"
    /\ tx[s].saved # {}
    /\ request' = [request EXCEPT ![tx[s].order] = CreatedRequest(s)]
    /\ EndTx(s)
    /\ UNCHANGED <<order, stock, elsewhere, volume, failures>>

(***************************************************************************)
(* The connection is lost in the commit: the handler deletes the files,    *)
(* although the database may have committed the request.                   *)
(***************************************************************************)
CommitFails(s, applied) ==
    LET o == tx[s].order
    IN  /\ tx[s].kind = "create"
        /\ tx[s].saved # {}
        /\ Fails
        /\ files' = AfterDeletion(s)
        /\ request' = [request EXCEPT ![o] = IF applied THEN CreatedRequest(s) ELSE @]
        /\ misled' = IF applied THEN misled \cup {o} ELSE misled
        /\ EndTx(s)
        /\ UNCHANGED <<order, stock, elsewhere, debris>>

-----------------------------------------------------------------------------
(***************************************************************************)
(* Decisions: approve and reject, cancel (customer and seller), complete.  *)
(***************************************************************************)
Transitions == {<<"PENDING", "APPROVED">>, <<"PENDING", "REJECTED">>,
                <<"PENDING", "CANCELLED">>, <<"APPROVED", "CANCELLED">>,
                <<"APPROVED", "COMPLETED">>}

Decide(o, status) ==
    /\ lock[ReturnRow(o)] = Nobody
    /\ <<request[o].status, status>> \in Transitions
    /\ request' = [request EXCEPT ![o].status = status]
    /\ UNCHANGED <<order, stock, elsewhere, lock, tx, volume, failures>>

-----------------------------------------------------------------------------
(* Mutant: nobody looks at what has been put back already. *)
PlanAboveNothing(o, target) == \A i \in Items : target[i] <= request[o].quantity[i]

(***************************************************************************)
(* Processing an approved request.  A target below what was put back       *)
(* already, or above what is returned, is refused; an item the seller does *)
(* not list keeps its quantity.  The difference is computed here, and only *)
(* the variants of items that grow are locked.                             *)
(***************************************************************************)
ValidPlan(o, target) ==
    \A i \in Items : /\ request[o].restocked[i] <= target[i]
                     /\ target[i] <= request[o].quantity[i]

Delta(o, target) == [i \in Items |-> target[i] - request[o].restocked[i]]

ProcessOf(o, target, completes) ==
    [IdleTx EXCEPT !.kind = "process", !.order = o, !.target = target,
                   !.delta = Delta(o, target),
                   !.need = {VariantOf[i] : i \in {j \in Items : Delta(o, target)[j] > 0}},
                   !.completes = completes]

(* Mutant: processing reads the request without a lock. *)
ProcessBeginUnlocked(s, o, target, completes) ==
    /\ ~Busy(s)
    /\ request[o].status = "APPROVED"
    /\ ValidPlan(o, target)
    /\ tx' = [tx EXCEPT ![s] = ProcessOf(o, target, completes)]
    /\ UNCHANGED <<rows, elsewhere, lock, volume, failures>>

ProcessBegin(s, o, target, completes) ==
    /\ ~Busy(s)
    /\ lock[ReturnRow(o)] = Nobody
    /\ request[o].status = "APPROVED"
    /\ ValidPlan(o, target)
    /\ lock' = Locks!WithRows(lock, {ReturnRow(o)}, s)
    /\ tx' = [tx EXCEPT ![s] = ProcessOf(o, target, completes)]
    /\ UNCHANGED <<rows, elsewhere, volume, failures>>

LockVariant(s, v) ==
    /\ v \in tx[s].need
    /\ lock[VariantLock(v)] = Nobody
    /\ lock' = Locks!WithRows(lock, {VariantLock(v)}, s)
    /\ tx' = [tx EXCEPT ![s].need = @ \ {v}]
    /\ UNCHANGED <<rows, elsewhere, volume, failures>>

(***************************************************************************)
(* The service reads the variants only after it has locked them, so the    *)
(* units are added to the committed stock, under the CHECK constraint of   *)
(* the column.                                                             *)
(***************************************************************************)
UnitsOf(quantity, v) ==
    SumFunction([i \in Items |-> IF VariantOf[i] = v THEN quantity[i] ELSE 0])

ProcessCommit(s) ==
    LET o == tx[s].order
    IN  /\ tx[s].kind = "process"
        /\ tx[s].need = {}
        /\ \A v \in Variants : stock[v] + UnitsOf(tx[s].delta, v) \in Nat
        /\ stock' = [v \in Variants |-> stock[v] + UnitsOf(tx[s].delta, v)]
        /\ request' = [request EXCEPT
                         ![o].restocked = tx[s].target,
                         ![o].refunded = TRUE,
                         ![o].status = IF tx[s].completes THEN "COMPLETED" ELSE @]
        /\ EndTx(s)
        /\ UNCHANGED <<order, elsewhere, volume, failures>>

(***************************************************************************)
(* The process dies, or PostgreSQL aborts the transaction.                 *)
(***************************************************************************)
Abort(s) ==
    /\ Busy(s)
    /\ Fails
    /\ debris' = debris \cup tx[s].saved
    /\ EndTx(s)
    /\ UNCHANGED <<rows, elsewhere, files, misled>>

-----------------------------------------------------------------------------
Selections == {q \in [Items -> UNION {0 .. Bought[i] : i \in Items}] :
                 \A i \in Items : q[i] <= Bought[i]}

SessionStep(s) ==
    \/ \E o \in Orders, q \in Selections : CreateBegin(s, o, q)
    \/ \E f \in Files : SaveFile(s, f)
    \/ \E left \in SUBSET Files : SaveFails(s, left)
    \/ CreateCommit(s)
    \/ \E applied \in BOOLEAN : CommitFails(s, applied)
    \/ \E o \in Orders, target \in Selections, completes \in BOOLEAN :
          ProcessBegin(s, o, target, completes)
    \/ \E v \in Variants : LockVariant(s, v)
    \/ ProcessCommit(s)
    \/ Abort(s)

Next ==
    \/ \E s \in Sessions : SessionStep(s)
    \/ \E o \in Orders :
          \/ \E status \in SellerStatuses : SetOrderStatus(o, status)
          \/ \E status \in OpenStatuses \cup FinalStatuses : Decide(o, status)
          \/ WindowCloses(o)
    \/ \E v \in Variants, d \in {-1, 1} : ChangeElsewhere(v, d)

Spec == Init /\ [][Next]_vars

-----------------------------------------------------------------------------
(***************************************************************************)
(* Stock is what the rest of the shop made of it, plus every unit recorded *)
(* as put back, once: processing a return twice, at the same time or in    *)
(* parts, beside sales of the same variant, adds no unit twice and loses   *)
(* none.                                                                   *)
(***************************************************************************)
RestockedUnits(v) == SumFunction([o \in Orders |-> UnitsOf(request[o].restocked, v)])

StockMatchesRestocks ==
    \A v \in Variants : stock[v] = InitialStock[v] + elsewhere[v] + RestockedUnits(v)

(***************************************************************************)
(* No more is put back than was bought in that order, and only of a        *)
(* request that was approved.                                              *)
(***************************************************************************)
RestockedWithinPurchase ==
    \A o \in Orders, i \in Items :
       request[o].restocked[i] > 0 =>
          /\ OrderOf[i] = o
          /\ request[o].restocked[i] <= Bought[i]
          /\ request[o].status \in {"APPROVED", "COMPLETED", "CANCELLED"}

(***************************************************************************)
(* A request that was rejected, completed or cancelled never changes: no   *)
(* processing that began before the decision puts units back after it.     *)
(***************************************************************************)
SettledRequestIsFinal ==
    [][\A o \in Orders : request[o].status \in FinalStatuses => request'[o] = request[o]]_vars

(***************************************************************************)
(* Once the window of an order has closed no request for it begins,        *)
(* whatever statuses the seller assigns afterwards; one that had begun     *)
(* before may still commit.                                                *)
(***************************************************************************)
ClosedWindowStaysClosed ==
    [][\A o \in Orders : order[o].over =>
          /\ order'[o].over
          /\ \A s \in Sessions :
                ~Busy(s) /\ Busy(s)' => ~(tx'[s].kind = "create" /\ tx'[s].order = o)]_vars

(***************************************************************************)
(* The evidence of a committed request is on the volume, unless its        *)
(* customer was told that the request was lost.                            *)
(***************************************************************************)
EvidenceIsKept == \A o \in Orders \ misled : request[o].files \subseteq files

(***************************************************************************)
(* Every file belongs to a committed request, to one that is being         *)
(* created, or is debris of a crash or a failed write.                     *)
(***************************************************************************)
FilesAreAccounted ==
    files \subseteq (UNION {request[o].files : o \in Orders})
                      \cup (UNION {tx[s].saved : s \in Sessions}) \cup debris
=============================================================================
