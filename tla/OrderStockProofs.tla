-------------------------- MODULE OrderStockProofs --------------------------
(***************************************************************************)
(* Proofs about the units of OrderFlow: those a customer put into the cart *)
(* and bought, those in stock and held by orders, and the stock ledger     *)
(* that the purchase path is when one transaction runs at a time.          *)
(***************************************************************************)
EXTENDS OrderFlowProofs, SumLemmas

-----------------------------------------------------------------------------
(***************************************************************************)
(* Units of finite sets of items.                                          *)
(***************************************************************************)
Qty == [i \in CartItem |-> i.qty]
QtyOf(v) == [i \in CartItem |-> IF i.variant = v THEN i.qty ELSE 0]

LEMMA QtyType ==
    /\ \A i \in CartItem : Qty[i] = i.qty /\ i.qty \in Nat \ {0}
    /\ \A i \in CartItem : \A v : QtyOf(v)[i] = IF i.variant = v THEN i.qty ELSE 0
  BY DEF Qty, QtyOf, CartItem

LEMMA UnitsOfIsSum ==
    ASSUME NEW S \in SUBSET CartItem, IsFiniteSet(S)
    PROVE  UnitsOf(S) = SumFunctionOnSet(Qty, S) /\ UnitsOf(S) \in Nat
<1> DEFINE f == [i \in S |-> i.qty]
<1>1. \A i \in S : f[i] \in Nat /\ Qty[i] = f[i]
  BY QtyType
<1>2. SumFunctionOnSet(f, S) = SumFunctionOnSet(Qty, S) /\ SumFunctionOnSet(f, S) \in Nat
  <2> HIDE DEF f
  <2>1. \A i \in S : f[i] \in Int
    BY <1>1
  <2> QED
    BY <1>1, <2>1, SumSame, SumTypeNat
<1> QED
  BY <1>2 DEF UnitsOf, SumFunction

LEMMA UnitsIsSum ==
    ASSUME NEW S \in SUBSET CartItem, IsFiniteSet(S), NEW v
    PROVE  Units(S, v) = SumFunctionOnSet(QtyOf(v), S) /\ Units(S, v) \in Nat
<1> DEFINE f == [i \in S |-> IF i.variant = v THEN i.qty ELSE 0]
           g == QtyOf(v)
<1>1. \A i \in S : f[i] \in Nat /\ g[i] = f[i]
  BY QtyType
<1>2. SumFunctionOnSet(f, S) = SumFunctionOnSet(g, S) /\ SumFunctionOnSet(f, S) \in Nat
  <2> HIDE DEF f, g
  <2>1. \A i \in S : f[i] \in Int
    BY <1>1
  <2> QED
    BY <1>1, <2>1, SumSame, SumTypeNat
<1> QED
  BY <1>2 DEF Units, SumFunction

LEMMA UnitsOfOthers ==
    ASSUME NEW S \in SUBSET CartItem, IsFiniteSet(S), NEW v, v \notin VariantsOf(S)
    PROVE  Units(S, v) = 0
<1> DEFINE g == QtyOf(v)
<1>1. \A i \in S : g[i] = 0
  BY QtyType DEF VariantsOf
<1>2. SumFunctionOnSet(g, S) = 0
  <2> HIDE DEF g
  <2> QED
    BY <1>1, SumOfZeros
<1> QED
  BY <1>2, UnitsIsSum

LEMMA UnitsWithinAll ==
    ASSUME NEW S \in SUBSET CartItem, IsFiniteSet(S), NEW v
    PROVE  Units(S, v) <= UnitsOf(S)
<1> DEFINE g == QtyOf(v)
<1>1. \A i \in S : g[i] \in Int /\ Qty[i] \in Int /\ g[i] <= Qty[i]
  BY QtyType
<1>2. SumFunctionOnSet(g, S) <= SumFunctionOnSet(Qty, S)
  <2> HIDE DEF g
  <2> QED
    BY <1>1, SumMonotone
<1> QED
  BY <1>2, UnitsIsSum, UnitsOfIsSum

LEMMA UnitsOfNothing == UnitsOf({}) = 0 /\ \A v : Units({}, v) = 0
<1>1. IsFiniteSet({}) /\ {} \in SUBSET CartItem
  BY FS_EmptySet
<1>2. UnitsOf({}) = 0
  BY <1>1, UnitsOfIsSum, SumOfNothing
<1>3. \A v : Units({}, v) = 0
  BY <1>1, UnitsOfOthers DEF VariantsOf
<1> QED
  BY <1>2, <1>3

LEMMA UnitsOfParts ==
    ASSUME NEW S \in SUBSET CartItem, IsFiniteSet(S), NEW P \in SUBSET S
    PROVE  /\ UnitsOf(S) = UnitsOf(P) + UnitsOf(S \ P)
           /\ UnitsOf(P) <= UnitsOf(S)
<1>1. /\ P \in SUBSET CartItem /\ S \ P \in SUBSET CartItem
      /\ IsFiniteSet(P) /\ IsFiniteSet(S \ P)
  BY FS_Subset
<1>2. \A i \in S : Qty[i] \in Int
  BY QtyType
<1>3. SumFunctionOnSet(Qty, S) = SumFunctionOnSet(Qty, P) + SumFunctionOnSet(Qty, S \ P)
  BY <1>2, SumInParts
<1>4. UnitsOf(S) = UnitsOf(P) + UnitsOf(S \ P) /\ UnitsOf(P) \in Nat /\ UnitsOf(S \ P) \in Nat
  BY <1>1, <1>3, UnitsOfIsSum
<1> QED
  BY <1>4

LEMMA UnitsOfUnion ==
    ASSUME NEW S \in SUBSET CartItem, NEW T \in SUBSET CartItem, IsFiniteSet(S), IsFiniteSet(T)
    PROVE  UnitsOf(S \cup T) <= UnitsOf(S) + UnitsOf(T) /\ IsFiniteSet(S \cup T)
<1>1. IsFiniteSet(S \cup T) /\ S \cup T \in SUBSET CartItem /\ S \in SUBSET (S \cup T)
  BY FS_Union
<1>2. UnitsOf(S \cup T) = UnitsOf(S) + UnitsOf((S \cup T) \ S)
  BY <1>1, UnitsOfParts
<1>3. (S \cup T) \ S \in SUBSET T
  OBVIOUS
<1>4. UnitsOf((S \cup T) \ S) <= UnitsOf(T)
  BY <1>3, UnitsOfParts
<1>5. UnitsOf(S) \in Nat /\ UnitsOf(T) \in Nat /\ UnitsOf((S \cup T) \ S) \in Nat
  BY <1>1, UnitsOfIsSum, FS_Subset
<1> QED
  BY <1>1, <1>2, <1>4, <1>5

LEMMA UnitsOfOne ==
    ASSUME NEW j \in CartItem
    PROVE  UnitsOf({j}) = j.qty /\ IsFiniteSet({j})
<1>1. IsFiniteSet({j}) /\ IsFiniteSet({}) /\ {j} \in SUBSET CartItem
  BY FS_Singleton, FS_EmptySet
<1>2. SumFunctionOnSet(Qty, {j}) = Qty[j] + SumFunctionOnSet(Qty, {j} \ {j})
  <2>1. \A y \in {j} : Qty[y] \in Int
    BY QtyType
  <2> QED
    BY <1>1, <2>1, SumWithout
<1>3. {j} \ {j} = {}
  OBVIOUS
<1>4. SumFunctionOnSet(Qty, {j}) = Qty[j] + 0
  BY <1>2, <1>3, SumOfNothing
<1>5. Qty[j] = j.qty /\ j.qty \in Nat
  BY QtyType
<1> QED
  BY <1>1, <1>4, <1>5, UnitsOfIsSum

LEMMA UnitsOfReplacement ==
    ASSUME NEW S \in SUBSET CartItem, IsFiniteSet(S), NEW i \in S, NEW j \in CartItem
    PROVE  /\ IsFiniteSet((S \ {i}) \cup {j})
           /\ UnitsOf((S \ {i}) \cup {j}) <= UnitsOf(S) - i.qty + j.qty
<1>1. S \ {i} \in SUBSET CartItem /\ IsFiniteSet(S \ {i}) /\ i \in CartItem
  BY FS_Subset
<1>2. /\ IsFiniteSet((S \ {i}) \cup {j})
      /\ UnitsOf((S \ {i}) \cup {j}) <= UnitsOf(S \ {i}) + UnitsOf({j})
  BY <1>1, UnitsOfOne, UnitsOfUnion
<1>3. UnitsOf(S) = UnitsOf({i}) + UnitsOf(S \ {i})
  BY UnitsOfParts
<1>4. UnitsOf({i}) = i.qty /\ UnitsOf({j}) = j.qty /\ i.qty \in Nat /\ j.qty \in Nat
  BY <1>1, UnitsOfOne, QtyType
<1>5. /\ UnitsOf(S \ {i}) \in Nat
      /\ UnitsOf((S \ {i}) \cup {j}) \in Nat
  BY <1>1, <1>2, UnitsOfIsSum
<1> QED
  BY <1>2, <1>3, <1>4, <1>5

LEMMA UnitsOfImage ==
    ASSUME NEW S \in SUBSET CartItem, IsFiniteSet(S), NEW e \in [S -> CartItem],
           \A i \in S : e[i].qty = i.qty
    PROVE  /\ IsFiniteSet({e[i] : i \in S})
           /\ UnitsOf({e[i] : i \in S}) <= UnitsOf(S)
<1>1. IsFiniteSet({e[i] : i \in S}) /\ {e[i] : i \in S} \in SUBSET CartItem
  BY FiniteImage
<1>2. \A i \in S : Qty[e[i]] \in Nat /\ Qty[i] \in Nat /\ Qty[e[i]] <= Qty[i]
  BY QtyType
<1>3. SumFunctionOnSet(Qty, {e[i] : i \in S}) <= SumFunctionOnSet(Qty, S)
  BY <1>2, SumOfImage
<1> QED
  BY <1>1, <1>3, UnitsOfIsSum

-----------------------------------------------------------------------------
(***************************************************************************)
(* Sums over orders: how they change with one order.                       *)
(***************************************************************************)
FiniteItems ==
    /\ \A u \in Users : IsFiniteSet(cart[u])
    /\ \A o \in Orders : IsFiniteSet(order[o].items)
    /\ \A s \in Sessions : IsFiniteSet(tx[s].items)

LEMMA OrdersAreFinite == IsFiniteSet(Orders)
  BY BoundsAssumption, FS_Interval DEF Orders

LEMMA UnitsOfOrder ==
    ASSUME TypeOK, FiniteItems, NEW o \in Orders
    PROVE  /\ UnitsOf(order[o].items) \in Nat
           /\ \A v : Units(order[o].items, v) \in Nat
<1>1. order[o].items \in SUBSET CartItem /\ IsFiniteSet(order[o].items)
  BY DEF TypeOK, OrderRecord, FiniteItems
<1> QED
  BY <1>1, UnitsOfIsSum, UnitsIsSum

BoughtIn(u, o) == IF order[o].user = u THEN UnitsOf(order[o].items) ELSE 0
HeldBy(v, o) == IF payment[o].released THEN 0 ELSE Units(order[o].items, v)

LEMMA BoughtType ==
    ASSUME TypeOK, FiniteItems, NEW u
    PROVE  BoughtBy(u) \in Nat
<1> DEFINE f == [p \in Orders |-> BoughtIn(u, p)]
<1>1. \A p \in Orders : f[p] \in Nat
  BY UnitsOfOrder DEF BoughtIn
<1>2. SumFunctionOnSet(f, Orders) \in Nat
  <2> HIDE DEF f
  <2> QED
    BY <1>1, OrdersAreFinite, SumTypeNat
<1> QED
  BY <1>2 DEF BoughtBy, BoughtIn, SumFunction

LEMMA BoughtAfterChange ==
    ASSUME TypeOK, TypeOK', FiniteItems, FiniteItems', NEW u, NEW o \in Orders,
           \A p \in Orders \ {o} : BoughtIn(u, p)' = BoughtIn(u, p)
    PROVE  /\ BoughtBy(u) \in Nat /\ BoughtIn(u, o) \in Nat /\ BoughtIn(u, o)' \in Nat
           /\ BoughtBy(u)' = BoughtBy(u) - BoughtIn(u, o) + BoughtIn(u, o)'
<1> DEFINE f == [p \in Orders |-> BoughtIn(u, p)]
           g == [p \in Orders |-> BoughtIn(u, p)']
<1>1. \A p \in Orders : f[p] \in Nat /\ g[p] \in Nat
  <2>1. \A p \in Orders : UnitsOf(order[p].items) \in Nat
    BY UnitsOfOrder
  <2>2. \A p \in Orders : order'[p].items \in SUBSET CartItem /\ IsFiniteSet(order'[p].items)
    BY DEF TypeOK, OrderRecord, FiniteItems
  <2>3. \A p \in Orders : UnitsOf(order'[p].items) \in Nat
    BY <2>2, UnitsOfIsSum
  <2> QED
    BY <2>1, <2>3 DEF BoughtIn
<1>2. \A p \in Orders : p # o => g[p] = f[p]
  OBVIOUS
<1>3. /\ SumFunctionOnSet(f, Orders) \in Nat
      /\ SumFunctionOnSet(g, Orders) = SumFunctionOnSet(f, Orders) - f[o] + g[o]
  <2> HIDE DEF f, g
  <2>1. \A p \in Orders : f[p] \in Int /\ g[p] \in Int
    BY <1>1
  <2> QED
    BY <1>1, <1>2, <2>1, OrdersAreFinite, SumTypeNat, SumAfterChange
<1>4. BoughtBy(u) = SumFunctionOnSet(f, Orders) /\ BoughtBy(u)' = SumFunctionOnSet(g, Orders)
  BY DEF BoughtBy, BoughtIn, SumFunction
<1> QED
  BY <1>1, <1>3, <1>4

LEMMA BoughtKept ==
    ASSUME TypeOK, FiniteItems, NEW u, \A p \in Orders : BoughtIn(u, p)' = BoughtIn(u, p)
    PROVE  BoughtBy(u) \in Nat /\ BoughtBy(u)' = BoughtBy(u)
<1> DEFINE f == [p \in Orders |-> BoughtIn(u, p)]
           g == [p \in Orders |-> BoughtIn(u, p)']
<1>1. f = g /\ \A p \in Orders : f[p] \in Nat
  BY UnitsOfOrder DEF BoughtIn
<1>2. SumFunctionOnSet(f, Orders) \in Nat
  <2> HIDE DEF f
  <2> QED
    BY <1>1, OrdersAreFinite, SumTypeNat
<1>3. BoughtBy(u) = SumFunctionOnSet(f, Orders) /\ BoughtBy(u)' = SumFunctionOnSet(g, Orders)
  BY DEF BoughtBy, BoughtIn, SumFunction
<1> QED
  BY <1>1, <1>2, <1>3

LEMMA HeldType ==
    ASSUME TypeOK, FiniteItems, NEW v
    PROVE  Held(v) \in Nat
<1> DEFINE f == [p \in Orders |-> HeldBy(v, p)]
<1>1. \A p \in Orders : f[p] \in Nat
  BY UnitsOfOrder DEF HeldBy
<1>2. SumFunctionOnSet(f, Orders) \in Nat
  <2> HIDE DEF f
  <2> QED
    BY <1>1, OrdersAreFinite, SumTypeNat
<1>3. Held(v) = SumFunctionOnSet(f, Orders)
  BY DEF Held, HeldBy, SumFunction
<1> QED
  BY <1>2, <1>3

LEMMA HeldAfterChange ==
    ASSUME TypeOK, TypeOK', FiniteItems, FiniteItems', NEW v, NEW o \in Orders,
           \A p \in Orders \ {o} : HeldBy(v, p)' = HeldBy(v, p)
    PROVE  /\ Held(v) \in Nat /\ HeldBy(v, o) \in Nat /\ HeldBy(v, o)' \in Nat
           /\ Held(v)' = Held(v) - HeldBy(v, o) + HeldBy(v, o)'
<1> DEFINE f == [p \in Orders |-> HeldBy(v, p)]
           g == [p \in Orders |-> HeldBy(v, p)']
<1>1. \A p \in Orders : f[p] \in Nat /\ g[p] \in Nat
  <2>1. \A p \in Orders : Units(order[p].items, v) \in Nat
    BY UnitsOfOrder
  <2>2. \A p \in Orders : order'[p].items \in SUBSET CartItem /\ IsFiniteSet(order'[p].items)
    BY DEF TypeOK, OrderRecord, FiniteItems
  <2>3. \A p \in Orders : Units(order'[p].items, v) \in Nat
    BY <2>2, UnitsIsSum
  <2> QED
    BY <2>1, <2>3 DEF HeldBy
<1>2. \A p \in Orders : p # o => g[p] = f[p]
  OBVIOUS
<1>3. /\ SumFunctionOnSet(f, Orders) \in Nat
      /\ SumFunctionOnSet(g, Orders) = SumFunctionOnSet(f, Orders) - f[o] + g[o]
  <2> HIDE DEF f, g
  <2>1. \A p \in Orders : f[p] \in Int /\ g[p] \in Int
    BY <1>1
  <2> QED
    BY <1>1, <1>2, <2>1, OrdersAreFinite, SumTypeNat, SumAfterChange
<1>4. Held(v) = SumFunctionOnSet(f, Orders) /\ Held(v)' = SumFunctionOnSet(g, Orders)
  BY DEF Held, HeldBy, SumFunction
<1> QED
  BY <1>1, <1>3, <1>4

LEMMA HeldKept ==
    ASSUME NEW v, \A p \in Orders : HeldBy(v, p)' = HeldBy(v, p)
    PROVE  Held(v)' = Held(v)
<1>1. [p \in Orders |-> HeldBy(v, p)'] = [p \in Orders |-> HeldBy(v, p)]
  OBVIOUS
<1> QED
  BY <1>1 DEF Held, HeldBy

-----------------------------------------------------------------------------
(***************************************************************************)
(* The inductive invariant behind NothingBoughtTwice.  A checkout holds    *)
(* the row of its cart, and what it read to buy was put into the cart      *)
(* beside what the customer bought before and what the checkout will leave *)
(* there: nobody puts an item into the cart meanwhile, and one that is     *)
(* changed meanwhile is taken out by its id, whatever it has become.       *)
(***************************************************************************)
Left(s) == WithoutItems(cart[tx[s].user], tx[s].items)

HoldsCart(s) ==
    tx[s].kind = "checkout" =>
       /\ tx[s].user \in Users
       /\ lock[CartRow(tx[s].user)] = s
       /\ BoughtBy(tx[s].user) + UnitsOf(tx[s].items) + UnitsOf(Left(s)) <= added[tx[s].user]

AbsentIsBlank == \A o \in Orders : ~Placed(o) => order[o] = AbsentOrder

CountInv ==
    /\ FiniteItems
    /\ AbsentIsBlank
    /\ NothingBoughtTwice
    /\ \A s \in Sessions : HoldsCart(s)
    /\ \A u \in Users : added[u] <= MaxAdded

LEMMA CountInit == Init => CountInv
<1> SUFFICES ASSUME Init PROVE CountInv
  OBVIOUS
<1>1. TypeOK
  BY TypeInit
<1>2. FiniteItems
  BY FS_EmptySet DEF Init, FiniteItems, AbsentOrder, IdleTx
<1>3. AbsentIsBlank /\ \A s \in Sessions : HoldsCart(s)
  BY DEF Init, AbsentIsBlank, HoldsCart, IdleTx
<1>4. \A u \in Users : added[u] <= MaxAdded
  BY BoundsAssumption DEF Init
<1>5. ASSUME NEW u \in Users PROVE BoughtBy(u) + UnitsOf(cart[u]) <= added[u]
  <2> DEFINE f == [o \in Orders |-> BoughtIn(u, o)]
  <2>1. \A o \in Orders : f[o] = 0
    BY NoUserAssumption DEF Init, BoughtIn, AbsentOrder
  <2>2. SumFunctionOnSet(f, Orders) = 0
    <3> HIDE DEF f
    <3> QED
      BY <2>1, OrdersAreFinite, SumOfZeros
  <2>3. BoughtBy(u) = 0
    BY <2>2 DEF BoughtBy, BoughtIn, SumFunction
  <2> QED
    BY <2>3, UnitsOfNothing DEF Init
<1> QED
  BY <1>2, <1>3, <1>4, <1>5 DEF CountInv, NothingBoughtTwice

(***************************************************************************)
(* What the invariant says of the sets of items.                           *)
(***************************************************************************)
LEMMA ItemsOfSession ==
    ASSUME TypeOK, FiniteItems, NEW s \in Sessions
    PROVE  /\ tx[s].items \in SUBSET CartItem /\ IsFiniteSet(tx[s].items)
           /\ UnitsOf(tx[s].items) \in Nat
<1>1. tx[s].items \in SUBSET CartItem /\ IsFiniteSet(tx[s].items)
  BY DEF TypeOK, Transaction, FiniteItems
<1> QED
  BY <1>1, UnitsOfIsSum

LEMMA ItemsOfCart ==
    ASSUME TypeOK, FiniteItems, NEW u \in Users, NEW taken
    PROVE  /\ cart[u] \in SUBSET CartItem /\ IsFiniteSet(cart[u])
           /\ UnitsOf(cart[u]) \in Nat
           /\ WithoutItems(cart[u], taken) \in SUBSET cart[u]
           /\ IsFiniteSet(WithoutItems(cart[u], taken))
           /\ UnitsOf(WithoutItems(cart[u], taken)) \in Nat
<1>1. cart[u] \in SUBSET CartItem /\ IsFiniteSet(cart[u])
  BY DEF TypeOK, FiniteItems
<1>2. WithoutItems(cart[u], taken) \in SUBSET cart[u]
  BY DEF WithoutItems
<1>3. WithoutItems(cart[u], taken) \in SUBSET CartItem /\ IsFiniteSet(WithoutItems(cart[u], taken))
  BY <1>1, <1>2, FS_Subset
<1> QED
  BY <1>1, <1>2, <1>3, UnitsOfIsSum

-----------------------------------------------------------------------------
(***************************************************************************)
(* Steps that leave carts and purchases as they are.  A session keeps its  *)
(* checkout and the row of the cart, or gives both up, or begins soundly.  *)
(***************************************************************************)
KeepsCheckout(t) ==
    /\ tx'[t].items \in {tx[t].items, {}}
    /\ tx'[t].kind = "checkout" =>
          /\ tx[t].kind = "checkout" /\ tx'[t].user = tx[t].user /\ tx'[t].items = tx[t].items
          /\ \A u \in Users : lock[CartRow(u)] = t => lock'[CartRow(u)] = t

SamePurchases ==
    \A o \in Orders : \/ order'[o] = order[o]
                      \/ /\ Placed(o) /\ Placed(o)'
                         /\ order'[o].user = order[o].user
                         /\ order'[o].items = order[o].items

LEMMA SamePurchasesSameUnits ==
    ASSUME SamePurchases, NEW o \in Orders
    PROVE  /\ order'[o].items = order[o].items
           /\ \A u : BoughtIn(u, o)' = BoughtIn(u, o)
  BY DEF SamePurchases, BoughtIn

LEMMA QuietKeepsCount ==
    ASSUME IInv, IInv', CountInv, SamePurchases, UNCHANGED <<cart, added>>,
           \A t \in Sessions : KeepsCheckout(t) \/ (IsFiniteSet(tx'[t].items) /\ HoldsCart(t)')
    PROVE  CountInv'
<1>1. TypeOK /\ TypeOK' /\ FiniteItems
  BY DEF IInv, CountInv
<1>2. FiniteItems'
  <2>1. \A t \in Sessions : IsFiniteSet(tx'[t].items)
    BY <1>1, FS_EmptySet DEF KeepsCheckout, FiniteItems
  <2> QED
    BY <1>1, <2>1, SamePurchasesSameUnits DEF FiniteItems
<1>3. \A u : BoughtBy(u)' = BoughtBy(u)
  BY <1>1, SamePurchasesSameUnits, BoughtKept
<1>4. AbsentIsBlank'
  BY DEF CountInv, AbsentIsBlank, SamePurchases, Placed
<1>5. NothingBoughtTwice'
  BY <1>3 DEF CountInv, NothingBoughtTwice
<1>6. ASSUME NEW t \in Sessions PROVE HoldsCart(t)'
  <2> SUFFICES ASSUME tx'[t].kind = "checkout" PROVE HoldsCart(t)'
    BY DEF HoldsCart
  <2>1. HoldsCart(t)
    BY DEF CountInv
  <2>2. CASE KeepsCheckout(t)
    BY <1>3, <2>1, <2>2 DEF HoldsCart, KeepsCheckout, Left
  <2> QED
    BY <2>2
<1> QED
  BY <1>2, <1>4, <1>5, <1>6 DEF CountInv

-----------------------------------------------------------------------------
(***************************************************************************)
(* Steps of customer u on the cart.  The customer puts more units into it, *)
(* and neither the cart nor what a checkout will leave of it grows by more *)
(* than that.                                                              *)
(***************************************************************************)
GrowsBy(u, more, new) ==
    /\ IsFiniteSet(new)
    /\ UnitsOf(new) <= UnitsOf(cart[u]) + more
    /\ \A s \in Sessions : tx[s].kind = "checkout" /\ tx[s].user = u =>
          UnitsOf(WithoutItems(new, tx[s].items)) <= UnitsOf(Left(s)) + more

LEMMA CartKeepsCount ==
    ASSUME IInv, IInv', CountInv, NEW u \in Users, NEW more \in Nat,
           UNCHANGED <<order, tx, lock>>,
           NEW new, new \in SUBSET CartItem, cart' = [cart EXCEPT ![u] = new], GrowsBy(u, more, new),
           added' = [added EXCEPT ![u] = @ + more], added[u] + more <= MaxAdded
    PROVE  CountInv'
<1>1. /\ TypeOK /\ TypeOK' /\ FiniteItems /\ IsFiniteSet(new)
      /\ cart'[u] = new /\ added'[u] = added[u] + more /\ added[u] \in Nat
      /\ \A w \in Users \ {u} : cart'[w] = cart[w] /\ added'[w] = added[w]
  BY DEF IInv, CountInv, TypeOK, GrowsBy
<1>2. FiniteItems'
  BY <1>1 DEF FiniteItems
<1>3. \A w : BoughtBy(w) \in Nat /\ BoughtBy(w)' = BoughtBy(w)
  <2>1. \A w : \A p \in Orders : BoughtIn(w, p)' = BoughtIn(w, p)
    BY DEF BoughtIn
  <2> QED
    BY <1>1, <2>1, BoughtKept
<1>4. AbsentIsBlank'
  BY DEF CountInv, AbsentIsBlank, Placed
<1>5. \A w \in Users : added'[w] <= MaxAdded
  BY <1>1 DEF CountInv
<1>6. UnitsOf(new) \in Nat /\ \A taken : UnitsOf(WithoutItems(new, taken)) \in Nat
  <2>1. \A taken : WithoutItems(new, taken) \in SUBSET CartItem /\ IsFiniteSet(WithoutItems(new, taken))
    BY <1>1, FS_Subset DEF WithoutItems
  <2> QED
    BY <1>1, <2>1, UnitsOfIsSum
<1>7. NothingBoughtTwice'
  <2> SUFFICES ASSUME NEW w \in Users PROVE BoughtBy(w)' + UnitsOf(cart'[w]) <= added'[w]
    BY DEF NothingBoughtTwice
  <2>1. CASE w = u
    <3>1. /\ BoughtBy(u) + UnitsOf(cart[u]) <= added[u] /\ UnitsOf(cart[u]) \in Nat
          /\ UnitsOf(new) <= UnitsOf(cart[u]) + more
      BY <1>1, ItemsOfCart DEF CountInv, NothingBoughtTwice, GrowsBy
    <3>2. BoughtBy(u) \in Nat /\ BoughtBy(u)' = BoughtBy(u)
      BY <1>3
    <3>3. BoughtBy(u) + UnitsOf(new) <= added[u] + more
      BY <1>1, <1>6, <3>1, <3>2
    <3> QED
      BY <1>1, <2>1, <3>2, <3>3
  <2>2. CASE w # u
    BY <1>1, <1>3, <2>2 DEF CountInv, NothingBoughtTwice
  <2> QED
    BY <2>1, <2>2
<1>8. ASSUME NEW s \in Sessions PROVE HoldsCart(s)'
  <2> SUFFICES ASSUME tx[s].kind = "checkout" PROVE HoldsCart(s)'
    BY DEF HoldsCart
  <2>1. HoldsCart(s)
    BY DEF CountInv
  <2>2. CASE tx[s].user = u
    <3>1. /\ BoughtBy(u) + UnitsOf(tx[s].items) + UnitsOf(Left(s)) <= added[u]
          /\ UnitsOf(WithoutItems(new, tx[s].items)) <= UnitsOf(Left(s)) + more
      BY <2>1, <2>2 DEF HoldsCart, GrowsBy
    <3>2. BoughtBy(u) \in Nat /\ BoughtBy(u)' = BoughtBy(u)
      BY <1>3
    <3>3. UnitsOf(tx[s].items) \in Nat /\ UnitsOf(Left(s)) \in Nat
      BY <1>1, <2>2, ItemsOfSession, ItemsOfCart DEF Left
    <3>4. UnitsOf(WithoutItems(new, tx[s].items)) \in Nat
      BY <1>6
    <3>5. BoughtBy(u) + UnitsOf(tx[s].items) + UnitsOf(WithoutItems(new, tx[s].items))
            <= added[u] + more
      BY <1>1, <3>1, <3>2, <3>3, <3>4
    <3> QED
      BY <1>1, <2>1, <2>2, <3>2, <3>5 DEF HoldsCart, Left
  <2>3. CASE tx[s].user # u
    BY <1>1, <1>3, <2>1, <2>3 DEF HoldsCart, Left
  <2> QED
    BY <2>2, <2>3
<1> QED
  BY <1>2, <1>4, <1>5, <1>7, <1>8 DEF CountInv

(***************************************************************************)
(* New items: no checkout has the row of the cart.                         *)
(***************************************************************************)
LEMMA InsertionGrows ==
    ASSUME IInv, CountInv, NEW u \in Users, NEW more \in Nat, lock[CartRow(u)] = Nobody,
           NEW items \in SUBSET CartItem, IsFiniteSet(items), UnitsOf(items) <= more
    PROVE  GrowsBy(u, more, cart[u] \cup items)
<1>1. cart[u] \in SUBSET CartItem /\ IsFiniteSet(cart[u]) /\ UnitsOf(cart[u]) \in Nat
  BY ItemsOfCart DEF IInv, CountInv
<1>2. /\ IsFiniteSet(cart[u] \cup items)
      /\ UnitsOf(cart[u] \cup items) <= UnitsOf(cart[u]) + UnitsOf(items)
      /\ UnitsOf(cart[u] \cup items) \in Nat /\ UnitsOf(items) \in Nat
  <2>1. /\ IsFiniteSet(cart[u] \cup items)
        /\ UnitsOf(cart[u] \cup items) <= UnitsOf(cart[u]) + UnitsOf(items)
    BY <1>1, UnitsOfUnion
  <2> QED
    BY <1>1, <2>1, UnitsOfIsSum
<1>3. UnitsOf(cart[u] \cup items) <= UnitsOf(cart[u]) + more
  BY <1>1, <1>2
<1>4. \A s \in Sessions : ~(tx[s].kind = "checkout" /\ tx[s].user = u)
  BY NobodyAssumption DEF CountInv, HoldsCart
<1> QED
  BY <1>2, <1>3, <1>4 DEF GrowsBy

(***************************************************************************)
(* An item changes and keeps its id.  A checkout that bought the item will *)
(* take it out as it is now; to any other it is an item that stays.        *)
(***************************************************************************)
LEMMA ChangeGrows ==
    ASSUME IInv, CountInv, NEW u \in Users, NEW more \in Nat,
           NEW i \in cart[u], NEW j \in CartItem,
           j.group = i.group, j.variant = i.variant, j.qty <= i.qty + more
    PROVE  GrowsBy(u, more, (cart[u] \ {i}) \cup {j})
<1> DEFINE new == (cart[u] \ {i}) \cup {j}
<1>0. TypeOK /\ FiniteItems
  BY DEF IInv, CountInv
<1>1. cart[u] \in SUBSET CartItem /\ IsFiniteSet(cart[u]) /\ UnitsOf(cart[u]) \in Nat
  BY <1>0, ItemsOfCart
<1>2. i \in CartItem /\ i.qty \in Nat /\ j.qty \in Nat
  BY <1>1, QtyType
<1>3. ASSUME NEW S \in SUBSET CartItem, IsFiniteSet(S), NEW k \in S, k = i
      PROVE  /\ IsFiniteSet((S \ {k}) \cup {j})
             /\ UnitsOf((S \ {k}) \cup {j}) <= UnitsOf(S) + more
  <2>1. /\ IsFiniteSet((S \ {k}) \cup {j})
        /\ UnitsOf((S \ {k}) \cup {j}) <= UnitsOf(S) - k.qty + j.qty
    BY <1>3, UnitsOfReplacement
  <2>2. UnitsOf(S) \in Nat /\ UnitsOf((S \ {k}) \cup {j}) \in Nat
    BY <1>3, <2>1, UnitsOfIsSum
  <2> QED
    BY <1>2, <1>3, <2>1, <2>2
<1>4. IsFiniteSet(new) /\ UnitsOf(new) <= UnitsOf(cart[u]) + more
  BY <1>1, <1>3
<1>5. ASSUME NEW s \in Sessions, tx[s].user = u
      PROVE  UnitsOf(WithoutItems(new, tx[s].items)) <= UnitsOf(Left(s)) + more
  <2> DEFINE taken == tx[s].items
             rest == WithoutItems(cart[u], taken)
  <2>1. rest \in SUBSET CartItem /\ IsFiniteSet(rest) /\ UnitsOf(rest) \in Nat /\ rest = Left(s)
    BY <1>0, <1>1, <1>5, ItemsOfCart DEF Left
  <2>2. CASE \A k \in taken : <<i.group, i.variant>> # <<k.group, k.variant>>
    <3>1. i \in rest /\ WithoutItems(new, taken) = (rest \ {i}) \cup {j}
      BY <2>2 DEF WithoutItems
    <3> HIDE DEF rest, new
    <3> QED
      BY <1>3, <2>1, <3>1
  <2>3. CASE \E k \in taken : <<i.group, i.variant>> = <<k.group, k.variant>>
    <3>1. WithoutItems(new, taken) = rest
      BY <2>3 DEF WithoutItems
    <3> HIDE DEF rest, new
    <3> QED
      BY <2>1, <3>1
  <2> QED
    BY <2>2, <2>3
<1> QED
  BY <1>4, <1>5 DEF GrowsBy

LEMMA RemovalGrows ==
    ASSUME IInv, CountInv, NEW u \in Users, NEW new \in SUBSET cart[u]
    PROVE  GrowsBy(u, 0, new)
<1>0. TypeOK /\ FiniteItems
  BY DEF IInv, CountInv
<1>1. cart[u] \in SUBSET CartItem /\ IsFiniteSet(cart[u]) /\ UnitsOf(cart[u]) \in Nat
  BY <1>0, ItemsOfCart
<1>2. IsFiniteSet(new) /\ UnitsOf(new) <= UnitsOf(cart[u]) + 0
  <2>1. IsFiniteSet(new) /\ new \in SUBSET CartItem
    BY <1>1, FS_Subset
  <2>2. UnitsOf(new) <= UnitsOf(cart[u]) /\ UnitsOf(new) \in Nat
    BY <1>1, <2>1, UnitsOfParts, UnitsOfIsSum
  <2> QED
    BY <1>1, <2>1, <2>2
<1>3. ASSUME NEW s \in Sessions, tx[s].user = u
      PROVE  UnitsOf(WithoutItems(new, tx[s].items)) <= UnitsOf(Left(s)) + 0
  <2> DEFINE rest == WithoutItems(cart[u], tx[s].items)
  <2>1. rest \in SUBSET CartItem /\ IsFiniteSet(rest) /\ UnitsOf(rest) \in Nat /\ rest = Left(s)
    BY <1>0, <1>1, <1>3, ItemsOfCart DEF Left
  <2>2. WithoutItems(new, tx[s].items) \in SUBSET rest
    BY DEF WithoutItems
  <2> DEFINE left == WithoutItems(new, tx[s].items)
  <2>3. left \in SUBSET CartItem /\ IsFiniteSet(left) /\ left \in SUBSET rest
    BY <2>1, <2>2, FS_Subset
  <2> HIDE DEF rest, left
  <2>4. UnitsOf(left) <= UnitsOf(rest) /\ UnitsOf(left) \in Nat
    BY <2>1, <2>3, UnitsOfParts, UnitsOfIsSum
  <2> QED
    BY <2>1, <2>4 DEF left
<1> QED
  BY <1>2, <1>3 DEF GrowsBy

LEMMA SelectionGrows ==
    ASSUME IInv, CountInv, NEW u \in Users, NEW items \in SUBSET cart[u], NEW selected \in BOOLEAN
    PROVE  GrowsBy(u, 0, (cart[u] \ items) \cup {[i EXCEPT !.selected = selected] : i \in items})
<1> DEFINE e == [i \in CartItem |-> [i EXCEPT !.selected = selected]]
           After(S, A) == (S \ A) \cup {e[i] : i \in A}
<1>0. TypeOK /\ FiniteItems
  BY DEF IInv, CountInv
<1>1. cart[u] \in SUBSET CartItem /\ IsFiniteSet(cart[u]) /\ UnitsOf(cart[u]) \in Nat
  BY <1>0, ItemsOfCart
<1>2. \A i \in CartItem : /\ e[i] \in CartItem /\ e[i].qty = i.qty
                          /\ e[i].group = i.group /\ e[i].variant = i.variant
  BY DEF CartItem
<1>3. ASSUME NEW S \in SUBSET CartItem, IsFiniteSet(S), NEW A \in SUBSET S
      PROVE  IsFiniteSet(After(S, A)) /\ UnitsOf(After(S, A)) <= UnitsOf(S)
  <2> DEFINE im == [i \in A |-> e[i]]
             image == {im[i] : i \in A}
  <2>1. im \in [A -> CartItem] /\ \A i \in A : im[i].qty = i.qty
    BY <1>2
  <2>2. image \in SUBSET CartItem /\ {e[i] : i \in A} = image
    BY <2>1
  <2>3. A \in SUBSET CartItem /\ IsFiniteSet(A) /\ S \ A \in SUBSET CartItem /\ IsFiniteSet(S \ A)
    BY <1>3, FS_Subset
  <2>4. IsFiniteSet(image) /\ UnitsOf(image) <= UnitsOf(A)
    <3> HIDE DEF im
    <3> QED
      BY <2>1, <2>3, UnitsOfImage
  <2> HIDE DEF im, image, e
  <2>5. IsFiniteSet((S \ A) \cup image) /\ UnitsOf((S \ A) \cup image) <= UnitsOf(S \ A) + UnitsOf(image)
    BY <2>2, <2>3, <2>4, UnitsOfUnion
  <2>6. UnitsOf(S) = UnitsOf(A) + UnitsOf(S \ A)
    BY <1>3, UnitsOfParts
  <2>7. /\ UnitsOf(A) \in Nat /\ UnitsOf(S \ A) \in Nat /\ UnitsOf(image) \in Nat
        /\ UnitsOf((S \ A) \cup image) \in Nat
    BY <2>2, <2>3, <2>4, <2>5, UnitsOfIsSum
  <2>8. IsFiniteSet((S \ A) \cup image) /\ UnitsOf((S \ A) \cup image) <= UnitsOf(S)
    BY <2>4, <2>5, <2>6, <2>7
  <2>9. After(S, A) = (S \ A) \cup image
    BY <2>2
  <2> HIDE DEF After
  <2> QED
    BY <2>8, <2>9
<1> DEFINE new == After(cart[u], items)
<1>4. new = (cart[u] \ items) \cup {[i EXCEPT !.selected = selected] : i \in items}
  BY <1>1
<1>5. IsFiniteSet(new) /\ UnitsOf(new) <= UnitsOf(cart[u])
  BY <1>1, <1>3
<1>6. ASSUME NEW s \in Sessions, tx[s].user = u
      PROVE  UnitsOf(WithoutItems(new, tx[s].items)) <= UnitsOf(Left(s))
  <2> DEFINE rest == WithoutItems(cart[u], tx[s].items)
             moved == items \cap rest
  <2>1. rest \in SUBSET CartItem /\ IsFiniteSet(rest) /\ UnitsOf(rest) \in Nat /\ rest = Left(s)
    BY <1>0, <1>1, <1>6, ItemsOfCart DEF Left
  <2>2. WithoutItems(new, tx[s].items) = After(rest, moved)
    <3>1. \A i \in items : (e[i] \in WithoutItems(new, tx[s].items)) <=> i \in rest
      BY <1>1, <1>2 DEF WithoutItems
    <3>2. \A i \in cart[u] \ items : (i \in WithoutItems(new, tx[s].items)) <=> i \in rest
      BY DEF WithoutItems
    <3>3. \A i \in WithoutItems(new, tx[s].items) : i \in cart[u] \ items \/ \E k \in items : i = e[k]
      BY DEF WithoutItems
    <3>4. rest \in SUBSET cart[u]
      BY DEF WithoutItems
    <3> DEFINE left == WithoutItems(new, tx[s].items)
    <3>5. \A i : i \in After(rest, moved) <=> i \in rest \ items \/ \E k \in items : k \in rest /\ i = e[k]
      OBVIOUS
    <3>6. ASSUME NEW i \in left PROVE i \in After(rest, moved)
      <4> HIDE DEF e, rest, After, new
      <4>1. CASE i \in cart[u] \ items
        BY <3>2, <3>5, <4>1
      <4>2. CASE \E k \in items : i = e[k]
        <5>1. PICK k \in items : i = e[k]
          BY <4>2
        <5>2. k \in rest
          BY <3>1, <5>1
        <5> QED
          BY <3>5, <5>1, <5>2
      <4> QED
        BY <3>3, <4>1, <4>2
    <3>7. \A i \in After(rest, moved) : i \in left
      <4> HIDE DEF e, rest, After, new
      <4> QED
        BY <3>1, <3>2, <3>3, <3>4, <3>5
    <3> HIDE DEF e, rest, After, new
    <3> QED
      BY <3>6, <3>7
  <2>3. moved \in SUBSET rest
    OBVIOUS
  <2>4. UnitsOf(After(rest, moved)) <= UnitsOf(rest)
    <3> HIDE DEF rest, moved, After
    <3> QED
      BY <1>3, <2>1, <2>3
  <2> QED
    BY <2>1, <2>2, <2>4
<1>7. UnitsOf(new) \in Nat
  <2>1. new \in SUBSET CartItem
    BY <1>1, <1>2
  <2> QED
    BY <1>5, <2>1, UnitsOfIsSum
<1>8. \A s \in Sessions : tx[s].user = u =>
         UnitsOf(WithoutItems(new, tx[s].items)) <= UnitsOf(Left(s)) + 0
  <2> SUFFICES ASSUME NEW s \in Sessions, tx[s].user = u
               PROVE  UnitsOf(WithoutItems(new, tx[s].items)) <= UnitsOf(Left(s)) + 0
    OBVIOUS
  <2>1. UnitsOf(Left(s)) \in Nat
    BY <1>0, ItemsOfCart DEF Left
  <2> HIDE DEF new
  <2>2. UnitsOf(WithoutItems(new, tx[s].items)) <= UnitsOf(Left(s))
    BY <1>6
  <2> QED
    BY <2>1, <2>2
<1>9. UnitsOf(new) <= UnitsOf(cart[u]) + 0
  BY <1>1, <1>5
<1>10. GrowsBy(u, 0, new)
  BY <1>5, <1>8, <1>9 DEF GrowsBy
<1> QED
  BY <1>4, <1>10

(***************************************************************************)
(* One case for each change that a customer makes to the cart.             *)
(***************************************************************************)
LEMMA CartStepKeepsCount ==
    ASSUME IInv, IInv', CountInv, CartStep
    PROVE  CountInv'
<1>0. TypeOK
  BY DEF IInv
<1>1. ASSUME NEW u \in Users, NEW q \in Quantities, NEW v \in Variants, AddItem(u, v, q)
      PROVE  CountInv'
  <2>1. q \in Nat /\ added' = [added EXCEPT ![u] = @ + q] /\ added[u] + q <= MaxAdded
        /\ UNCHANGED <<order, tx, lock>>
    BY <1>1, QuantitiesAssumption DEF AddItem
  <2>2. CASE InsertItems(u, {[group |-> Normal, variant |-> v, qty |-> q, selected |-> TRUE]})
    <3> DEFINE item == [group |-> Normal, variant |-> v, qty |-> q, selected |-> TRUE]
    <3>1. item \in CartItem /\ item.qty = q
      BY QuantitiesAssumption DEF CartItem
    <3>2. lock[CartRow(u)] = Nobody /\ cart' = [cart EXCEPT ![u] = cart[u] \cup {item}]
      BY <2>2 DEF InsertItems
    <3> HIDE DEF item
    <3>3. /\ {item} \in SUBSET CartItem /\ IsFiniteSet({item}) /\ UnitsOf({item}) <= q
          /\ cart[u] \cup {item} \in SUBSET CartItem
      BY <1>0, <2>1, <3>1, UnitsOfOne DEF TypeOK
    <3>4. GrowsBy(u, q, cart[u] \cup {item})
      BY <2>1, <3>2, <3>3, InsertionGrows
    <3> QED
      BY <2>1, <3>2, <3>3, <3>4, CartKeepsCount
  <2>3. CASE \E i \in cart[u] : GrowItem(u, i, q)
    <3>1. PICK i \in cart[u] : GrowItem(u, i, q)
      BY <2>3
    <3> DEFINE j == [i EXCEPT !.qty = @ + q, !.selected = TRUE]
    <3>2. /\ i \in CartItem /\ j \in CartItem
          /\ j.group = i.group /\ j.variant = i.variant /\ j.qty = i.qty + q
      <4>1. i \in CartItem /\ q \in Nat \ {0}
        BY <1>0, QuantitiesAssumption DEF TypeOK
      <4>2. i.qty + q \in Nat \ {0}
        BY <4>1, QtyType
      <4> QED
        BY <4>1, <4>2 DEF CartItem
    <3>3. cart' = [cart EXCEPT ![u] = (cart[u] \ {i}) \cup {j}]
      BY <3>1 DEF GrowItem
    <3> HIDE DEF j
    <3>4. (cart[u] \ {i}) \cup {j} \in SUBSET CartItem /\ j.qty <= i.qty + q
      BY <1>0, <2>1, <3>2 DEF TypeOK, CartItem
    <3>5. GrowsBy(u, q, (cart[u] \ {i}) \cup {j})
      BY <2>1, <3>2, <3>4, ChangeGrows
    <3> QED
      BY <2>1, <3>3, <3>4, <3>5, CartKeepsCount
  <2> QED
    BY <1>1, <2>2, <2>3 DEF AddItem
<1>2. ASSUME NEW u \in Users, NEW q \in Quantities, NEW g \in Looks, NEW vs \in SUBSET Variants,
             AddLook(u, g, vs, q)
      PROVE  CountInv'
  <2> DEFINE e == [v \in vs |-> [group |-> g, variant |-> v, qty |-> q, selected |-> TRUE]]
             h == [v \in vs |-> q]
             items == {e[v] : v \in vs}
             more == q * Cardinality(vs)
  <2>1. q \in Nat /\ added' = [added EXCEPT ![u] = @ + more] /\ added[u] + more <= MaxAdded
        /\ UNCHANGED <<order, tx, lock>>
    BY <1>2, QuantitiesAssumption DEF AddLook
  <2>2. IsFiniteSet(vs) /\ Cardinality(vs) \in Nat
    BY VariantsAssumption, FS_Subset, FS_CardinalityType
  <2>3. more \in Nat
    BY <2>1, <2>2
  <2>4. items = {[group |-> g, variant |-> v, qty |-> q, selected |-> TRUE] : v \in vs}
    OBVIOUS
  <2>5. lock[CartRow(u)] = Nobody /\ cart' = [cart EXCEPT ![u] = cart[u] \cup items]
    BY <1>2, <2>4 DEF AddLook, InsertItems
  <2>6. \A v \in vs : e[v] \in CartItem /\ e[v].qty = q
    BY QuantitiesAssumption DEF CartItem
  <2>7. \A v \in vs : Qty[e[v]] \in Nat /\ h[v] \in Nat /\ h[v] = q /\ Qty[e[v]] <= h[v]
    BY <2>1, <2>6, QtyType
  <2> HIDE DEF e, h
  <2>8. items \in SUBSET CartItem /\ IsFiniteSet(items)
    BY <2>2, <2>6, FiniteImage
  <2>9. SumFunctionOnSet(Qty, items) <= SumFunctionOnSet(h, vs)
    BY <2>2, <2>7, SumOfImage
  <2>10. SumFunctionOnSet(h, vs) = more
    <3>1. q \in Int
      BY <2>1
    <3> QED
      BY <2>2, <2>7, <3>1, SumOfEqualParts
  <2> HIDE DEF items, more
  <2>11. UnitsOf(items) <= more
    BY <2>8, <2>9, <2>10, UnitsOfIsSum
  <2>12. GrowsBy(u, more, cart[u] \cup items) /\ cart[u] \cup items \in SUBSET CartItem
    BY <1>0, <2>3, <2>5, <2>8, <2>11, InsertionGrows DEF TypeOK
  <2> QED
    BY <2>1, <2>3, <2>5, <2>12, CartKeepsCount
<1>3. ASSUME NEW u \in Users, NEW q \in Quantities, NEW i \in cart[u], ChangeQuantity(u, i, q)
      PROVE  CountInv'
  <2> DEFINE more == IF q > i.qty THEN q - i.qty ELSE 0
             j == [i EXCEPT !.qty = q]
  <2>1. /\ added' = [added EXCEPT ![u] = @ + more] /\ added[u] + more <= MaxAdded
        /\ UNCHANGED <<order, tx, lock>>
        /\ cart' = [cart EXCEPT ![u] = (cart[u] \ {i}) \cup {j}]
    BY <1>3 DEF ChangeQuantity
  <2>2. i \in CartItem /\ i.qty \in Nat /\ q \in Nat \ {0}
    BY <1>0, QuantitiesAssumption DEF TypeOK, CartItem
  <2>3. /\ j \in CartItem /\ j.group = i.group /\ j.variant = i.variant /\ j.qty = q
    BY <2>2 DEF CartItem
  <2>4. more \in Nat /\ q <= i.qty + more
    BY <2>2
  <2> HIDE DEF more, j
  <2>5. (cart[u] \ {i}) \cup {j} \in SUBSET CartItem /\ j.qty <= i.qty + more
    BY <1>0, <2>3, <2>4 DEF TypeOK
  <2>6. GrowsBy(u, more, (cart[u] \ {i}) \cup {j})
    BY <2>3, <2>4, <2>5, ChangeGrows
  <2> QED
    BY <2>1, <2>4, <2>5, <2>6, CartKeepsCount
<1>4. ASSUME NEW u \in Users, NEW new \in SUBSET CartItem, GrowsBy(u, 0, new),
             cart' = [cart EXCEPT ![u] = new], UNCHANGED <<order, tx, lock, added>>
      PROVE  CountInv'
  <2>1. added[u] \in Nat /\ added[u] <= MaxAdded
    BY <1>0 DEF TypeOK, CountInv
  <2>2. added' = [added EXCEPT ![u] = @ + 0] /\ added[u] + 0 <= MaxAdded /\ 0 \in Nat
    BY <1>0, <1>4, <2>1 DEF TypeOK
  <2> QED
    BY <1>4, <2>2, CartKeepsCount
<1>5. ASSUME NEW u \in Users, NEW items \in SUBSET cart[u], NEW selected \in BOOLEAN,
             SelectItems(u, items, selected)
      PROVE  CountInv'
  <2> DEFINE new == (cart[u] \ items) \cup {[i EXCEPT !.selected = selected] : i \in items}
  <2>1. cart[u] \in SUBSET CartItem
    BY <1>0 DEF TypeOK
  <2>2. new \in SUBSET CartItem
    BY <2>1 DEF CartItem
  <2>3. GrowsBy(u, 0, new)
    BY SelectionGrows
  <2>4. cart' = [cart EXCEPT ![u] = new] /\ UNCHANGED <<order, tx, lock, added>>
    BY <1>5 DEF SelectItems, bounds
  <2> QED
    BY <1>4, <2>2, <2>3, <2>4
<1>6. ASSUME NEW u \in Users, NEW items \in SUBSET cart[u], RemoveItems(u, items)
      PROVE  CountInv'
  <2>1. cart[u] \ items \in SUBSET cart[u] /\ cart[u] \ items \in SUBSET CartItem
    BY <1>0 DEF TypeOK
  <2>2. cart' = [cart EXCEPT ![u] = cart[u] \ items] /\ UNCHANGED <<order, tx, lock, added>>
    BY <1>6 DEF RemoveItems, bounds
  <2> QED
    BY <1>4, <2>1, <2>2, RemovalGrows
<1> QED
  BY <1>1, <1>2, <1>3, <1>5, <1>6 DEF CartStep

-----------------------------------------------------------------------------
(***************************************************************************)
(* A checkout begins: what it reads to buy and what it will leave are two  *)
(* parts of the cart.                                                      *)
(***************************************************************************)
LEMMA CheckoutTxIs ==
    ASSUME TypeOK, NEW s \in Sessions, NEW u \in Users, CheckoutBegin(s, u)
    PROVE  /\ tx'[s].kind = "checkout" /\ tx'[s].step = "variants" /\ tx'[s].user = u
           /\ tx'[s].items = Selected(cart[u])
           /\ tx'[s].need = VariantsOf(Selected(cart[u]))
           /\ \A v \in Variants : tx'[s].seen[v] =
                 IF v \in VariantsOf(cart[u]) THEN variant[v] ELSE NoRow
           /\ \A t \in Sessions \ {s} : tx'[t] = tx[t]
<1>1. tx' = [tx EXCEPT ![s] = CheckoutOf(u)]
  BY DEF CheckoutBegin
<1>2. tx'[s] = CheckoutOf(u) /\ \A t \in Sessions \ {s} : tx'[t] = tx[t]
  BY <1>1 DEF TypeOK
<1> QED
  BY <1>2 DEF CheckoutOf, IdleTx

LEMMA BeginKeepsCount ==
    ASSUME IInv, IInv', CountInv, NEW s \in Sessions, NEW u \in Users, CheckoutBegin(s, u)
    PROVE  CountInv'
<1> DEFINE sel == Selected(cart[u])
           left == WithoutItems(cart[u], sel)
<1>1. /\ TypeOK /\ FiniteItems /\ UNCHANGED <<cart, order, added>>
      /\ lock[CartRow(u)] = Nobody /\ lock' = Locks!WithRows(lock, {CartRow(u)}, s)
  BY DEF IInv, CountInv, CheckoutBegin, shopRows, bounds
<1>2. /\ tx'[s].kind = "checkout" /\ tx'[s].user = u /\ tx'[s].items = sel
      /\ \A t \in Sessions \ {s} : tx'[t] = tx[t]
  BY <1>1, CheckoutTxIs
<1>3. \A r \in Rows : lock'[r] = IF r = CartRow(u) THEN s ELSE lock[r]
  <2> DEFINE taken == {CartRow(u)}
  <2>1. /\ \A r : r \in taken <=> r = CartRow(u)
        /\ lock' = Locks!WithRows(lock, taken, s)
    BY <1>1
  <2> HIDE DEF taken
  <2> QED
    BY <1>1, <2>1, Locking DEF TypeOK
<1>4. SamePurchases /\ BoughtBy(u) \in Nat /\ BoughtBy(u)' = BoughtBy(u)
  <2>1. \A p \in Orders : BoughtIn(u, p)' = BoughtIn(u, p)
    BY <1>1 DEF BoughtIn
  <2> QED
    BY <1>1, <2>1, BoughtKept DEF SamePurchases
<1>5. /\ cart[u] \in SUBSET CartItem /\ IsFiniteSet(cart[u])
      /\ sel \in SUBSET cart[u] /\ left \in SUBSET (cart[u] \ sel)
  BY <1>1, ItemsOfCart DEF Selected, WithoutItems
<1>6. /\ IsFiniteSet(sel) /\ UnitsOf(sel) \in Nat
      /\ UnitsOf(sel) + UnitsOf(left) <= UnitsOf(cart[u])
  <2> HIDE DEF sel, left
  <2>1. /\ sel \in SUBSET CartItem /\ cart[u] \ sel \in SUBSET CartItem /\ left \in SUBSET CartItem
        /\ IsFiniteSet(sel) /\ IsFiniteSet(cart[u] \ sel) /\ IsFiniteSet(left)
    BY <1>5, FS_Subset
  <2>2. UnitsOf(cart[u]) = UnitsOf(sel) + UnitsOf(cart[u] \ sel)
    BY <1>5, UnitsOfParts
  <2>3. UnitsOf(left) <= UnitsOf(cart[u] \ sel)
    BY <1>5, <2>1, UnitsOfParts
  <2>4. UnitsOf(sel) \in Nat /\ UnitsOf(cart[u] \ sel) \in Nat /\ UnitsOf(left) \in Nat
    BY <2>1, UnitsOfIsSum
  <2> QED
    BY <2>1, <2>2, <2>3, <2>4
<1>7. IsFiniteSet(tx'[s].items) /\ HoldsCart(s)'
  <2>1. BoughtBy(u) + UnitsOf(cart[u]) <= added[u]
    BY DEF CountInv, NothingBoughtTwice
  <2>2. UnitsOf(left) \in Nat /\ UnitsOf(cart[u]) \in Nat /\ added[u] \in Nat
    BY <1>1, ItemsOfCart DEF TypeOK
  <2>3. BoughtBy(u) + UnitsOf(sel) + UnitsOf(left) <= added[u]
    BY <1>4, <1>6, <2>1, <2>2
  <2>4. lock'[CartRow(u)] = s
    BY <1>3, RowsAreRows
  <2> QED
    BY <1>1, <1>2, <1>4, <1>6, <2>3, <2>4 DEF HoldsCart, Left
<1>8. \A t \in Sessions \ {s} : KeepsCheckout(t)
  BY <1>1, <1>2, <1>3, RowsAreRows, NobodyAssumption DEF KeepsCheckout
<1>9. \A t \in Sessions : KeepsCheckout(t) \/ (IsFiniteSet(tx'[t].items) /\ HoldsCart(t)')
  BY <1>7, <1>8
<1>10. SamePurchases /\ UNCHANGED <<cart, added>>
  BY <1>1, <1>4
<1> HIDE DEF sel, left
<1> QED
  BY <1>9, <1>10, QuietKeepsCount

(***************************************************************************)
(* A checkout commits: the order has what it read, and the cart what is    *)
(* left.  No other checkout has this cart.                                 *)
(***************************************************************************)
LEMMA PlacingEffect ==
    ASSUME IInv, CountInv, NEW s \in Sessions, CheckoutCommit(s), NEW o, o = tx[s].order
    PROVE  /\ o \in Orders /\ ~Placed(o) /\ order[o] = AbsentOrder /\ ~payment[o].released
           /\ order'[o] = [status |-> "NEW", user |-> tx[s].user, items |-> tx[s].items,
                           delivered |-> FALSE]
           /\ ~payment'[o].released /\ payment'[o].status = "PENDING"
           /\ \A p \in Orders \ {o} : order'[p] = order[p] /\ payment'[p] = payment[p]
<1>1. o \in 1 .. orderSeq /\ ~Placed(o)
  BY DEF IInv, NumbersAreFresh, Numbered, CheckoutCommit
<1>2. o \in Orders
  BY <1>1, BoundsAssumption DEF Orders, IInv, TypeOK
<1>3. order[o] = AbsentOrder
  BY <1>1, <1>2 DEF CountInv, AbsentIsBlank
<1>4. ~payment[o].released
  BY <1>1, <1>2 DEF IInv, PlacedHasPayment, ReleasedExactlyOnFailure, ReleasesStock
<1> QED
  BY <1>1, <1>2, <1>3, <1>4 DEF CheckoutCommit, IInv, TypeOK

LEMMA PlacingKeepsCount ==
    ASSUME IInv, IInv', CountInv, NEW s \in Sessions, CheckoutCommit(s),
           NEW o, o = tx[s].order, NEW u, u = tx[s].user, NEW items, items = tx[s].items
    PROVE  CountInv'
<1>1. /\ TypeOK /\ TypeOK' /\ FiniteItems /\ EndTx(s) /\ added' = added
      /\ tx[s].kind = "checkout" /\ cart' = [cart EXCEPT ![u] = Left(s)]
  BY DEF IInv, CountInv, CheckoutCommit, bounds, Left
<1>2. /\ o \in Orders /\ order[o].user = NoUser /\ order[o].items = {}
      /\ order'[o].status = "NEW" /\ order'[o].user = u /\ order'[o].items = items
      /\ \A p \in Orders \ {o} : order'[p] = order[p]
  <2>1. /\ o \in Orders /\ order[o] = AbsentOrder
        /\ order'[o] = [status |-> "NEW", user |-> u, items |-> items, delivered |-> FALSE]
        /\ \A p \in Orders \ {o} : order'[p] = order[p]
    BY PlacingEffect
  <2> QED
    BY <2>1 DEF AbsentOrder
<1>3. /\ u \in Users /\ lock[CartRow(u)] = s
      /\ BoughtBy(u) + UnitsOf(items) + UnitsOf(Left(s)) <= added[u]
  BY <1>1 DEF CountInv, HoldsCart
<1>4. /\ cart'[u] = Left(s) /\ \A w \in Users \ {u} : cart'[w] = cart[w]
      /\ tx'[s] = IdleTx /\ \A t \in Sessions \ {s} : tx'[t] = tx[t]
      /\ \A r \in Rows : lock[r] # s => lock'[r] = lock[r]
  BY <1>1, <1>3, Unlocking DEF TypeOK, EndTx
<1>5. /\ IsFiniteSet(items) /\ UnitsOf(items) \in Nat /\ IsFiniteSet(Left(s)) /\ UnitsOf(Left(s)) \in Nat
  BY <1>1, <1>3, ItemsOfSession, ItemsOfCart DEF Left
<1>6. FiniteItems'
  <2>1. \A t \in Sessions : IsFiniteSet(tx'[t].items)
    <3> SUFFICES ASSUME NEW t \in Sessions PROVE IsFiniteSet(tx'[t].items)
      OBVIOUS
    <3>1. CASE t = s
      BY <1>4, <3>1, FS_EmptySet DEF IdleTx
    <3>2. CASE t # s
      BY <1>1, <1>4, <3>2 DEF FiniteItems
    <3> QED
      BY <3>1, <3>2
  <2>2. \A w \in Users : IsFiniteSet(cart'[w])
    BY <1>1, <1>4, <1>5 DEF FiniteItems
  <2>3. \A p \in Orders : IsFiniteSet(order'[p].items)
    BY <1>1, <1>2, <1>5 DEF FiniteItems
  <2> QED
    BY <2>1, <2>2, <2>3 DEF FiniteItems
<1>7. ASSUME NEW w \in Users
      PROVE  BoughtBy(w) \in Nat /\ BoughtBy(w)' = BoughtBy(w) + (IF w = u THEN UnitsOf(items) ELSE 0)
  <2>1. \A p \in Orders \ {o} : BoughtIn(w, p)' = BoughtIn(w, p)
    BY <1>2 DEF BoughtIn
  <2>2. BoughtIn(w, o) = 0
    BY <1>2, NoUserAssumption DEF BoughtIn
  <2>3. order'[o].user = u /\ order'[o].items = items
    BY <1>2
  <2>4. BoughtIn(w, o)' = IF w = u THEN UnitsOf(items) ELSE 0
    BY <2>3 DEF BoughtIn
  <2>5. o \in Orders /\ TypeOK /\ TypeOK' /\ FiniteItems /\ FiniteItems'
    BY <1>1, <1>2, <1>6
  <2>6. /\ BoughtBy(w) \in Nat
        /\ BoughtBy(w)' = BoughtBy(w) - BoughtIn(w, o) + BoughtIn(w, o)'
    BY <2>1, <2>5, BoughtAfterChange
  <2> QED
    BY <1>5, <2>2, <2>4, <2>6
<1>8. AbsentIsBlank'
  BY <1>2 DEF CountInv, AbsentIsBlank, Placed
<1>9. NothingBoughtTwice'
  <2> SUFFICES ASSUME NEW w \in Users PROVE BoughtBy(w)' + UnitsOf(cart'[w]) <= added'[w]
    BY DEF NothingBoughtTwice
  <2>1. CASE w = u
    BY <1>1, <1>3, <1>4, <1>5, <1>7, <2>1
  <2>2. CASE w # u
    BY <1>1, <1>4, <1>7, <2>2 DEF CountInv, NothingBoughtTwice
  <2> QED
    BY <2>1, <2>2
<1>10. ASSUME NEW t \in Sessions PROVE HoldsCart(t)'
  <2>1. CASE t = s
    BY <1>4, <2>1 DEF HoldsCart, IdleTx
  <2>2. CASE t # s
    <3> SUFFICES ASSUME tx[t].kind = "checkout" PROVE HoldsCart(t)'
      BY <1>4, <2>2 DEF HoldsCart
    <3>1. HoldsCart(t) /\ tx[t].user \in Users /\ lock[CartRow(tx[t].user)] = t
      BY DEF CountInv, HoldsCart
    <3>2. tx[t].user # u
      BY <1>3, <2>2, <3>1
    <3>3. lock'[CartRow(tx[t].user)] = t /\ cart'[tx[t].user] = cart[tx[t].user]
      BY <1>4, <2>2, <3>1, <3>2, RowsAreRows
    <3>4. BoughtBy(tx[t].user)' = BoughtBy(tx[t].user)
      <4>1. PICK w \in Users : w = tx[t].user /\ w # u
        BY <3>1, <3>2
      <4>2. BoughtBy(w) \in Nat /\ BoughtBy(w)' = BoughtBy(w) + 0
        BY <1>7, <4>1
      <4>3. BoughtBy(w)' = BoughtBy(w)
        BY <4>2
      <4> QED
        BY <1>4, <2>2, <4>1, <4>3
    <3> QED
      BY <1>1, <1>4, <2>2, <3>1, <3>3, <3>4 DEF HoldsCart, Left
  <2> QED
    BY <2>1, <2>2
<1> QED
  BY <1>1, <1>6, <1>8, <1>9, <1>10 DEF CountInv

-----------------------------------------------------------------------------
(***************************************************************************)
(* The other steps are calm: they leave carts and purchases as they are,   *)
(* and each session keeps its checkout or gives it up.                     *)
(***************************************************************************)
Calm ==
    /\ UNCHANGED <<cart, added>>
    /\ SamePurchases
    /\ \A t \in Sessions : KeepsCheckout(t)

(***************************************************************************)
(* A step that leaves the stock and what became of the payments as they    *)
(* are.                                                                    *)
(***************************************************************************)
SameStock ==
    /\ UNCHANGED variant
    /\ \A o \in Orders : /\ payment'[o].released = payment[o].released
                         /\ payment'[o].status = payment[o].status

LEMMA EndIsCalm ==
    ASSUME TypeOK, NEW s \in Sessions, EndTx(s), SamePurchases, UNCHANGED <<cart, added>>
    PROVE  Calm
<1>1. tx'[s] = IdleTx /\ \A t \in Sessions \ {s} : tx'[t] = tx[t]
  BY DEF EndTx, TypeOK
<1>2. \A r \in Rows : lock[r] # s => lock'[r] = lock[r]
  BY Unlocking DEF EndTx, TypeOK
<1>3. ASSUME NEW t \in Sessions PROVE KeepsCheckout(t)
  <2>1. CASE t = s
    BY <1>1, <2>1 DEF KeepsCheckout, IdleTx
  <2>2. CASE t # s
    BY <1>1, <1>2, <2>2, RowsAreRows DEF KeepsCheckout
  <2> QED
    BY <2>1, <2>2
<1> QED
  BY <1>3 DEF Calm

LEMMA LockingIsCalm ==
    ASSUME TypeOK, NEW s \in Sessions, NEW rows,
           lock' = lock \/ (/\ lock' = Locks!WithRows(lock, rows, s)
                            /\ \A u \in Users : CartRow(u) \notin rows),
           \A t \in Sessions \ {s} : tx'[t] = tx[t],
           \/ tx'[s].kind = tx[s].kind /\ tx'[s].user = tx[s].user /\ tx'[s].items = tx[s].items
           \/ tx'[s].kind # "checkout" /\ tx'[s].items = {},
           UNCHANGED <<cart, added, order>>
    PROVE  Calm
<1>1. \A u \in Users : lock'[CartRow(u)] = lock[CartRow(u)]
  BY Locking, RowsAreRows DEF TypeOK
<1>2. ASSUME NEW t \in Sessions PROVE KeepsCheckout(t)
  <2>1. CASE t = s
    BY <1>1, <2>1 DEF KeepsCheckout
  <2>2. CASE t # s
    BY <1>1, <2>2 DEF KeepsCheckout
  <2> QED
    BY <2>1, <2>2
<1> QED
  BY <1>2 DEF Calm, SamePurchases

LEMMA IdleIsCalm ==
    ASSUME UNCHANGED <<cart, added, order, tx, lock>>
    PROVE  Calm
  BY DEF Calm, SamePurchases, KeepsCheckout

(***************************************************************************)
(* Requests that begin: they have bought nothing.                          *)
(***************************************************************************)
LEMMA PaymentBeginIsCalm ==
    ASSUME TypeOK, NEW s \in Sessions, NEW kind \in PaymentRequests, NEW o \in Orders,
           PaymentBegin(s, kind, o)
    PROVE  Calm /\ SameStock
<1> DEFINE new == [IdleTx EXCEPT
                      !.kind = kind,
                      !.order = o,
                      !.was = order[o].status,
                      !.target = PaymentOutcome(kind, payment[o]),
                      !.step = IF PaymentOutcome(kind, payment[o]) = "SUBMITTED"
                               THEN "variants" ELSE "order"]
           rows == RowsOfRequest(kind, o)
<1>1. /\ lock' = Locks!WithRows(lock, rows, s) /\ tx' = [tx EXCEPT ![s] = new]
      /\ UNCHANGED <<cart, variant, order, payment, added>>
  BY DEF PaymentBegin, shopRows, bounds
<1>2. \A u \in Users : CartRow(u) \notin rows
  BY DEF RowsOfRequest, CartRow, PaymentRow, OrderRow
<1>3. new.kind # "checkout" /\ new.items = {}
  BY DEF IdleTx, PaymentRequests
<1> HIDE DEF new, rows
<1>4. tx'[s] = new /\ \A t \in Sessions \ {s} : tx'[t] = tx[t]
  BY <1>1 DEF TypeOK
<1>5. Calm
  BY <1>1, <1>2, <1>3, <1>4, LockingIsCalm
<1> QED
  BY <1>1, <1>5 DEF SameStock

LEMMA AdminBeginIsCalm ==
    ASSUME TypeOK, NEW s \in Sessions, NEW o \in Orders, NEW status, AdminBegin(s, o, status)
    PROVE  Calm /\ SameStock
<1> DEFINE new == [IdleTx EXCEPT !.kind = "admin", !.step = "payment", !.order = o,
                                 !.was = order[o].status, !.target = status]
           rows == {OrderRow(o)}
<1>1. /\ lock' = Locks!WithRows(lock, rows, s) /\ tx' = [tx EXCEPT ![s] = new]
      /\ UNCHANGED <<cart, variant, order, payment, added>>
  BY DEF AdminBegin, shopRows, bounds
<1>2. \A u \in Users : CartRow(u) \notin rows
  BY DEF CartRow, OrderRow
<1>3. new.kind # "checkout" /\ new.items = {}
  BY DEF IdleTx
<1> HIDE DEF new, rows
<1>4. tx'[s] = new /\ \A t \in Sessions \ {s} : tx'[t] = tx[t]
  BY <1>1 DEF TypeOK
<1>5. Calm
  BY <1>1, <1>2, <1>3, <1>4, LockingIsCalm
<1> QED
  BY <1>1, <1>5 DEF SameStock

LEMMA EditBeginIsCalm ==
    ASSUME TypeOK, NEW s \in Sessions, NEW v \in Variants, NEW row, EditBegin(s, v, row)
    PROVE  Calm /\ SameStock
<1> DEFINE new == [IdleTx EXCEPT
                      !.kind = "edit", !.step = "write", !.need = {v},
                      !.seen = [w \in Variants |-> IF w = v THEN variant[v] ELSE NoRow],
                      !.row = row]
<1>1. /\ lock' = lock /\ tx' = [tx EXCEPT ![s] = new]
      /\ UNCHANGED <<cart, variant, order, payment, added>>
  BY DEF EditBegin, shopRows
<1>2. new.kind # "checkout" /\ new.items = {}
  BY DEF IdleTx
<1> HIDE DEF new
<1>3. tx'[s] = new /\ \A t \in Sessions \ {s} : tx'[t] = tx[t]
  BY <1>1 DEF TypeOK
<1>4. Calm
  BY <1>1, <1>2, <1>3, LockingIsCalm
<1> QED
  BY <1>1, <1>4 DEF SameStock

(***************************************************************************)
(* Requests that go on: only their progress and their locks change.        *)
(***************************************************************************)
LEMMA ProgressIsCalm ==
    ASSUME TypeOK, NEW s \in Sessions,
           \/ \E v \in Variants : LockVariant(s, v)
           \/ CheckoutNumber(s) \/ FlushOrder(s) \/ AdminReadsPayment(s)
    PROVE  Calm /\ SameStock
<1>1. UNCHANGED <<cart, variant, order, payment, added>>
  BY DEF LockVariant, CheckoutNumber, FlushOrder, AdminReadsPayment, shopRows, bounds
<1>2. /\ \A t \in Sessions \ {s} : tx'[t] = tx[t]
      /\ tx'[s].kind = tx[s].kind /\ tx'[s].user = tx[s].user /\ tx'[s].items = tx[s].items
  <2>1. tx[s] \in Transaction /\ DOMAIN tx = Sessions
    BY DEF TypeOK
  <2>2. CASE \E v \in Variants : LockVariant(s, v)
    <3>1. tx' = [tx EXCEPT ![s].need = tx'[s].need]
      BY <2>1, <2>2 DEF LockVariant, Transaction
    <3> QED
      BY <2>1, <3>1 DEF Transaction
  <2>3. CASE CheckoutNumber(s)
    BY <2>1, <2>3 DEF CheckoutNumber, Transaction
  <2>4. CASE FlushOrder(s)
    BY <2>1, <2>4 DEF FlushOrder, Transaction
  <2>5. CASE AdminReadsPayment(s)
    BY <2>1, <2>5 DEF AdminReadsPayment, Transaction
  <2> QED
    BY <2>2, <2>3, <2>4, <2>5
<1>3. \E rows : lock' = lock \/ (/\ lock' = Locks!WithRows(lock, rows, s)
                                 /\ \A u \in Users : CartRow(u) \notin rows)
  <2>1. ASSUME NEW v \in Variants, LockVariant(s, v)
        PROVE  /\ lock' = Locks!WithRows(lock, {VariantLock(v)}, s)
               /\ \A u \in Users : CartRow(u) \notin {VariantLock(v)}
    BY <2>1 DEF LockVariant, CartRow, VariantLock
  <2>2. CASE FlushOrder(s)
    <3>1. /\ lock' = Locks!WithRows(lock, {OrderRow(tx[s].order)}, s)
          /\ \A u \in Users : CartRow(u) \notin {OrderRow(tx[s].order)}
      BY <2>2 DEF FlushOrder, CartRow, OrderRow
    <3> QED
      BY <3>1
  <2>3. CASE CheckoutNumber(s) \/ AdminReadsPayment(s)
    BY <2>3 DEF CheckoutNumber, AdminReadsPayment
  <2> QED
    BY <2>1, <2>2, <2>3
<1>4. Calm
  BY <1>1, <1>2, <1>3, LockingIsCalm
<1> QED
  BY <1>1, <1>4 DEF SameStock

(***************************************************************************)
(* Requests that end without a change to any stock.                        *)
(***************************************************************************)
LEMMA GivingUpIsCalm ==
    ASSUME TypeOK, NEW s \in Sessions,
           \/ CheckoutRefused(s) \/ CheckoutConflict(s) \/ AdminRefused(s)
           \/ \E v \in Variants : EditConflict(s, v)
           \/ Abort(s) \/ DeadlockVictim(s)
    PROVE  Calm /\ SameStock
<1>1. EndTx(s) /\ UNCHANGED <<cart, variant, order, payment, added>>
  BY DEF CheckoutRefused, CheckoutConflict, AdminRefused, EditConflict, Abort, DeadlockVictim,
         Rollback, shopRows
<1> QED
  BY <1>1, EndIsCalm DEF SamePurchases, SameStock

LEMMA MoveIsCalm ==
    ASSUME IInv, NEW s \in Sessions, AdminCommit(s), NEW o, o = tx[s].order
    PROVE  Calm /\ SameStock
<1>1. /\ o \in Orders /\ Placed(o) /\ order'[o].status \in OrderStatuses
      /\ \A p \in Orders \ {o} : order'[p] = order[p]
      /\ EndTx(s) /\ UNCHANGED <<cart, variant, payment, added>> /\ TypeOK
  BY MoveEffect DEF AdminCommit, bounds, IInv
<1>2. order'[o].user = order[o].user /\ order'[o].items = order[o].items
  BY <1>1 DEF AdminCommit, TypeOK, OrderRecord
<1>3. SamePurchases
  BY <1>1, <1>2 DEF SamePurchases, Placed, OrderStatuses
<1> QED
  BY <1>1, <1>3, EndIsCalm DEF SameStock

(***************************************************************************)
(* Requests that end with a change to stock and leave purchases as they    *)
(* are: the decision about a payment, and the seller's save.               *)
(***************************************************************************)
LEMMA DecisionIsCalm ==
    ASSUME IInv, NEW s \in Sessions, PaymentCommit(s), NEW o, o = tx[s].order
    PROVE  Calm
<1>1. /\ o \in Orders /\ order[o].status = "NEW" /\ order'[o].status \in OrderStatuses
      /\ \A p \in Orders \ {o} : order'[p] = order[p]
      /\ EndTx(s) /\ UNCHANGED <<cart, added>> /\ TypeOK
  BY DecisionEffect DEF PaymentCommit, bounds, IInv
<1>2. order'[o].user = order[o].user /\ order'[o].items = order[o].items
  BY <1>1 DEF PaymentCommit, TypeOK, OrderRecord
<1>3. SamePurchases
  BY <1>1, <1>2 DEF SamePurchases, Placed, OrderStatuses
<1> QED
  BY <1>1, <1>3, EndIsCalm

LEMMA SaveIsCalm ==
    ASSUME TypeOK, NEW s \in Sessions, NEW v \in Variants, EditCommit(s, v)
    PROVE  Calm /\ UNCHANGED <<order, payment>>
<1>1. EndTx(s) /\ UNCHANGED <<cart, order, payment, added>>
  BY DEF EditCommit, bounds
<1> QED
  BY <1>1, EndIsCalm DEF SamePurchases

(***************************************************************************)
(* Every step is a change to a cart, the beginning or the commit of a      *)
(* checkout, or calm; and a calm step that changes stock is a decision     *)
(* about a payment or a save.                                              *)
(***************************************************************************)
LEMMA StepsAreCalm ==
    ASSUME IInv, [Next]_vars
    PROVE  \/ CartStep
           \/ \E s \in Sessions, u \in Users : CheckoutBegin(s, u)
           \/ \E s \in Sessions : CheckoutCommit(s)
           \/ Calm /\ SameStock
           \/ Calm /\ \E s \in Sessions : PaymentCommit(s)
           \/ Calm /\ \E s \in Sessions, v \in Variants : EditCommit(s, v)
<1>0. TypeOK
  BY DEF IInv
<1>1. ASSUME NEW o \in Orders, TimePasses(o) PROVE Calm /\ SameStock
  <2>1. UNCHANGED <<cart, added, order, tx, lock, variant>>
    BY <1>1 DEF TimePasses, bounds
  <2>2. \A p \in Orders : /\ payment'[p].released = payment[p].released
                          /\ payment'[p].status = payment[p].status
    BY <1>0, <1>1 DEF TimePasses, TypeOK, PaymentRecord
  <2> QED
    BY <2>1, <2>2, IdleIsCalm DEF SameStock
<1>2. CASE WorkerPoll \/ WorkerRestart \/ UNCHANGED vars
  <2>1. UNCHANGED <<cart, added, order, tx, lock, variant, payment>>
    BY <1>2 DEF WorkerPoll, WorkerRestart, vars, shopRows, bounds
  <2> QED
    BY <2>1, IdleIsCalm DEF SameStock
<1>3. ASSUME NEW s \in Sessions, NEW o \in Orders,
             WorkerVisit(s, o) \/ \E kind \in PaymentRequests : PaymentRequest(s, kind, o)
      PROVE  Calm /\ SameStock
  <2>1. CASE UNCHANGED <<shopRows, lock, tx, bounds>>
    BY <2>1, IdleIsCalm DEF SameStock, shopRows, bounds
  <2>2. CASE \E kind \in PaymentRequests : PaymentBegin(s, kind, o)
    BY <1>0, <2>2, PaymentBeginIsCalm
  <2> QED
    BY <1>3, <2>1, <2>2 DEF WorkerVisit, PaymentRequest, PaymentRequests
<1>4. ASSUME NEW s \in Sessions, SessionStep(s)
      PROVE  \/ \E u \in Users : CheckoutBegin(s, u)
             \/ CheckoutCommit(s)
             \/ Calm /\ SameStock
             \/ Calm /\ PaymentCommit(s)
             \/ Calm /\ \E v \in Variants : EditCommit(s, v)
  <2>1. CASE CheckoutStep(s)
    BY <1>0, <2>1, GivingUpIsCalm, ProgressIsCalm DEF CheckoutStep
  <2>2. CASE PaymentStep(s)
    BY <1>0, <1>3, <2>2, ProgressIsCalm, DecisionIsCalm DEF PaymentStep
  <2>3. CASE AdminStep(s)
    BY <1>0, <2>3, AdminBeginIsCalm, GivingUpIsCalm, ProgressIsCalm, MoveIsCalm DEF AdminStep
  <2>4. CASE EditStep(s)
    BY <1>0, <2>4, EditBeginIsCalm, GivingUpIsCalm, SaveIsCalm DEF EditStep
  <2>5. CASE \/ \E v \in Variants : LockVariant(s, v)
             \/ \E o \in Orders : WorkerVisit(s, o)
             \/ Abort(s) \/ DeadlockVictim(s)
    BY <1>0, <1>3, <2>5, ProgressIsCalm, GivingUpIsCalm
  <2> QED
    BY <1>4, <2>1, <2>2, <2>3, <2>4, <2>5 DEF SessionStep
<1> QED
  BY <1>1, <1>2, <1>4 DEF Next

LEMMA CountStep == IInv /\ CountInv /\ [Next]_vars => CountInv'
<1> SUFFICES ASSUME IInv, CountInv, [Next]_vars PROVE CountInv'
  OBVIOUS
<1>1. IInv'
  BY InvStep
<1>2. CASE Calm
  <2>1. /\ SamePurchases /\ UNCHANGED <<cart, added>>
        /\ \A t \in Sessions : KeepsCheckout(t) \/ (IsFiniteSet(tx'[t].items) /\ HoldsCart(t)')
    BY <1>2 DEF Calm
  <2> QED
    BY <1>1, <2>1, QuietKeepsCount
<1> QED
  BY <1>1, <1>2, StepsAreCalm, CartStepKeepsCount, BeginKeepsCount, PlacingKeepsCount

LEMMA Counting == Spec => [](IInv /\ CountInv)
<1>1. IInv /\ CountInv /\ [Next]_vars => (IInv /\ CountInv)'
  BY CountStep, InvStep
<1> QED
  BY <1>1, InvInit, CountInit, PTL DEF Spec

(***************************************************************************)
(* A customer never gets more units, bought and still in the cart, than    *)
(* the customer put into the cart: a double tap on the checkout buys the   *)
(* cart once, and a change to the cart while a checkout runs does not      *)
(* bring back what the checkout takes out.                                 *)
(***************************************************************************)
THEOREM CartsAreBoughtOnce == Spec => []NothingBoughtTwice
<1>1. IInv /\ CountInv => NothingBoughtTwice
  BY DEF CountInv
<1> QED
  BY <1>1, Counting, PTL

-----------------------------------------------------------------------------
(***************************************************************************)
(* Stock.  What the steps that change it do to the stock of a variant and  *)
(* to what orders hold of it.                                              *)
(***************************************************************************)
LEMMA CommitEndsRequest ==
    ASSUME TypeOK, NEW s \in Sessions, EndTx(s)
    PROVE  ~Busy(s)'
<1>1. tx'[s] = IdleTx
  BY DEF EndTx, TypeOK
<1> QED
  BY <1>1 DEF Busy, IdleTx

LEMMA SaleMovesUnits ==
    ASSUME IInv, IInv', CountInv, CountInv', NEW s \in Sessions, CheckoutCommit(s),
           NEW v \in Variants, NEW o, o = tx[s].order, NEW n, n = Units(tx[s].items, v)
    PROVE  /\ n \in Nat /\ (v \notin VariantsOf(tx[s].items) => n = 0)
           /\ Units(order[o].items, v) = 0 /\ Units(order'[o].items, v) = n
           /\ variant'[v] = IF v \in VariantsOf(tx[s].items)
                            THEN [variant[v] EXCEPT !.stock = tx[s].seen[v].stock - n]
                            ELSE variant[v]
           /\ Held(v) \in Nat /\ Held(v)' = Held(v) + n
<1>1. /\ o \in Orders /\ order[o] = AbsentOrder /\ ~payment[o].released
      /\ order'[o].items = tx[s].items /\ ~payment'[o].released
      /\ \A p \in Orders \ {o} : order'[p] = order[p] /\ payment'[p] = payment[p]
  <2>1. /\ o \in Orders /\ order[o] = AbsentOrder /\ ~payment[o].released
        /\ order'[o] = [status |-> "NEW", user |-> tx[s].user, items |-> tx[s].items,
                        delivered |-> FALSE]
        /\ ~payment'[o].released
        /\ \A p \in Orders \ {o} : order'[p] = order[p] /\ payment'[p] = payment[p]
    BY PlacingEffect
  <2> QED
    BY <2>1
<1>2. /\ TypeOK /\ TypeOK' /\ FiniteItems /\ FiniteItems'
      /\ tx[s].items \in SUBSET CartItem /\ IsFiniteSet(tx[s].items)
  BY ItemsOfSession DEF IInv, CountInv
<1>3. n \in Nat /\ (v \notin VariantsOf(tx[s].items) => n = 0)
  BY <1>2, UnitsIsSum, UnitsOfOthers
<1>4. Units(order[o].items, v) = 0 /\ Units(order'[o].items, v) = n
  BY <1>1, UnitsOfNothing DEF AbsentOrder
<1>5. variant'[v] = IF v \in VariantsOf(tx[s].items)
                    THEN [variant[v] EXCEPT !.stock = tx[s].seen[v].stock - n]
                    ELSE variant[v]
  BY DEF CheckoutCommit, RowAfterSale
<1>6. \A p \in Orders \ {o} : HeldBy(v, p)' = HeldBy(v, p)
  BY <1>1 DEF HeldBy
<1>7. HeldBy(v, o) = 0 /\ HeldBy(v, o)' = n
  BY <1>1, <1>4 DEF HeldBy
<1>8. Held(v) \in Nat /\ Held(v)' = Held(v) - HeldBy(v, o) + HeldBy(v, o)'
  BY <1>1, <1>2, <1>6, HeldAfterChange
<1>9. Held(v)' = Held(v) + n
  BY <1>3, <1>7, <1>8
<1> QED
  BY <1>3, <1>4, <1>5, <1>8, <1>9

LEMMA DecisionMovesUnits ==
    ASSUME IInv, IInv', CountInv, CountInv', NEW s \in Sessions, PaymentCommit(s),
           NEW v \in Variants, NEW o, o = tx[s].order, NEW n, n = Units(order[o].items, v)
    PROVE  /\ o \in Orders /\ n \in Nat
           /\ variant'[v].stock = IF ReleasesStock(tx[s].target)
                                  THEN variant[v].stock + n ELSE variant[v].stock
           /\ order'[o].items = order[o].items
           /\ Held(v) \in Nat
           /\ Held(v)' = IF ReleasesStock(tx[s].target) THEN Held(v) - n ELSE Held(v)
<1>1. /\ o \in Orders /\ PaymentActive(o)
      /\ payment'[o].released <=> ReleasesStock(tx[s].target)
      /\ \A p \in Orders \ {o} : order'[p] = order[p] /\ payment'[p] = payment[p]
  BY DecisionEffect
<1>2. /\ TypeOK /\ TypeOK' /\ FiniteItems /\ FiniteItems'
      /\ variant[v] \in VariantRow
  BY DEF IInv, CountInv, TypeOK
<1>3. ~payment[o].released
  BY <1>1 DEF IInv, ReleasedExactlyOnFailure, PaymentActive, ReleasesStock, ActivePaymentStatuses
<1>4. order'[o].items = order[o].items
  BY <1>1, DecisionIsCalm DEF Calm, SamePurchases
<1>5. /\ order[o].items \in SUBSET CartItem /\ IsFiniteSet(order[o].items)
      /\ n \in Nat /\ (v \notin VariantsOf(order[o].items) => n = 0)
  BY <1>1, <1>2, UnitsIsSum, UnitsOfOthers DEF TypeOK, OrderRecord, FiniteItems
<1>6. variant'[v].stock = IF ReleasesStock(tx[s].target)
                          THEN variant[v].stock + n ELSE variant[v].stock
  <2>1. CASE ReleasesStock(tx[s].target)
    <3>1. ReleaseStock(o)
      BY <1>3, <2>1 DEF PaymentCommit
    <3>2. variant'[v] = IF v \in VariantsOf(order[o].items)
                        THEN [variant[v] EXCEPT !.stock = @ + n] ELSE variant[v]
      BY <3>1 DEF ReleaseStock, RowAfterRelease
    <3>3. variant'[v].stock = IF v \in VariantsOf(order[o].items)
                              THEN variant[v].stock + n ELSE variant[v].stock
      BY <1>2, <3>2 DEF VariantRow
    <3>4. variant[v].stock \in Nat
      BY <1>2 DEF VariantRow
    <3> QED
      BY <1>5, <2>1, <3>3, <3>4
  <2>2. CASE ~ReleasesStock(tx[s].target)
    BY <2>2 DEF PaymentCommit
  <2> QED
    BY <2>1, <2>2
<1>7. \A p \in Orders \ {o} : HeldBy(v, p)' = HeldBy(v, p)
  BY <1>1 DEF HeldBy
<1>8. HeldBy(v, o) = n /\ HeldBy(v, o)' = IF ReleasesStock(tx[s].target) THEN 0 ELSE n
  BY <1>1, <1>3, <1>4 DEF HeldBy
<1>9. Held(v) \in Nat /\ Held(v)' = Held(v) - HeldBy(v, o) + HeldBy(v, o)'
  BY <1>1, <1>2, <1>7, HeldAfterChange
<1>10. Held(v)' = IF ReleasesStock(tx[s].target) THEN Held(v) - n ELSE Held(v)
  BY <1>5, <1>8, <1>9
<1> QED
  BY <1>1, <1>4, <1>5, <1>6, <1>9, <1>10

LEMMA SaveKeepsOthers ==
    ASSUME TypeOK, NEW s \in Sessions, NEW w \in Variants, EditCommit(s, w)
    PROVE  /\ variant'[w] = RowAfterEdit(s, w)
           /\ \A v \in Variants \ {w} : variant'[v] = variant[v]
           /\ tx[s].kind = "edit" /\ w \in tx[s].need
           /\ ~Busy(s)'
           /\ \A v : Held(v)' = Held(v)
<1>1. UNCHANGED <<order, payment>> /\ EndTx(s)
  BY DEF EditCommit
<1>2. \A v : Held(v)' = Held(v)
  BY <1>1, HeldKept DEF HeldBy
<1>3. ~Busy(s)'
  BY <1>1, CommitEndsRequest
<1> QED
  BY <1>2, <1>3 DEF EditCommit, TypeOK

LEMMA CartStepIsCartsOnly == CartStep => UNCHANGED <<variant, order, payment, lock, tx>>
<1>1. ASSUME NEW u, NEW q, NEW v, AddItem(u, v, q)
      PROVE  UNCHANGED <<variant, order, payment, lock, tx>>
  BY <1>1 DEF AddItem
<1>2. ASSUME NEW u, NEW q, NEW g, NEW vs, AddLook(u, g, vs, q)
      PROVE  UNCHANGED <<variant, order, payment, lock, tx>>
  BY <1>2 DEF AddLook
<1>3. ASSUME NEW u, NEW q, NEW i, ChangeQuantity(u, i, q)
      PROVE  UNCHANGED <<variant, order, payment, lock, tx>>
  BY <1>3 DEF ChangeQuantity
<1>4. ASSUME NEW u, NEW items, RemoveItems(u, items) \/ \E selected : SelectItems(u, items, selected)
      PROVE  UNCHANGED <<variant, order, payment, lock, tx>>
  BY <1>4 DEF RemoveItems, SelectItems
<1> QED
  BY <1>1, <1>2, <1>3, <1>4 DEF CartStep

LEMMA SameStockHeld ==
    ASSUME SameStock, SamePurchases
    PROVE  \A v : Held(v)' = Held(v)
<1>1. \A o \in Orders : \A v : HeldBy(v, o)' = HeldBy(v, o)
  BY SamePurchasesSameUnits DEF SameStock, HeldBy
<1> QED
  BY <1>1, HeldKept

(***************************************************************************)
(* What makes units of v appear or disappear, when session s commits.      *)
(***************************************************************************)
Miscounts(s, v) ==
    /\ ~Busy(s)'
    /\ \/ /\ StaleSale(s, v)
          /\ Books(v)' = Books(v) + Overwritten(s, v)
       \/ /\ EntersCount(s, v)
          /\ Books(v)' = Books(v) + (tx[s].row.stock - tx[s].seen[v].stock)
                                  + Overwritten(s, v)

LEMMA UnitsAreKept ==
    ASSUME IInv, CountInv, [Next]_vars, NEW v \in Variants
    PROVE  \/ Books(v)' = Books(v)
           \/ \E s \in Sessions : Miscounts(s, v)
<1>1. IInv' /\ CountInv' /\ TypeOK
  BY InvStep, CountStep DEF IInv
<1>2. variant[v] \in VariantRow /\ variant[v].stock \in Nat
  BY <1>1 DEF TypeOK, VariantRow
<1>0. ASSUME NEW s \in Sessions
      PROVE  tx[s].seen[v].stock \in Nat /\ tx[s].row.stock \in Nat
  BY <1>1 DEF TypeOK, Transaction, VariantRow
<1>3. CASE CartStep \/ \E s \in Sessions, u \in Users : CheckoutBegin(s, u)
  <2>1. UNCHANGED <<variant, order, payment>>
    BY <1>3, CartStepIsCartsOnly DEF CheckoutBegin, shopRows
  <2>2. Held(v)' = Held(v)
    BY <2>1, HeldKept DEF HeldBy
  <2> QED
    BY <2>1, <2>2 DEF Books
<1>4. ASSUME NEW s \in Sessions, CheckoutCommit(s)
      PROVE  \/ Books(v)' = Books(v)
             \/ Miscounts(s, v)
  <2> DEFINE n == Units(tx[s].items, v)
             o == tx[s].order
  <2>1. /\ n \in Nat /\ (v \notin VariantsOf(tx[s].items) => n = 0)
        /\ variant'[v] = IF v \in VariantsOf(tx[s].items)
                         THEN [variant[v] EXCEPT !.stock = tx[s].seen[v].stock - n]
                         ELSE variant[v]
        /\ Held(v) \in Nat /\ Held(v)' = Held(v) + n
    BY <1>1, <1>4, SaleMovesUnits
  <2>2. CASE v \notin VariantsOf(tx[s].items)
    BY <1>2, <2>1, <2>2 DEF Books
  <2>3. CASE v \in VariantsOf(tx[s].items) /\ tx[s].seen[v].stock = variant[v].stock
    <3>1. variant'[v].stock = variant[v].stock - n
      BY <1>2, <2>1, <2>3 DEF VariantRow
    <3> HIDE DEF n
    <3> QED
      BY <1>2, <2>1, <3>1 DEF Books
  <2>4. CASE v \in VariantsOf(tx[s].items) /\ tx[s].seen[v].stock # variant[v].stock
    <3>1. StaleSale(s, v)
      BY <1>4, <2>4 DEF CheckoutCommit, StaleSale
    <3>2. ~Busy(s)'
      BY <1>1, <1>4, CommitEndsRequest DEF CheckoutCommit
    <3>3. variant'[v].stock = tx[s].seen[v].stock - n
      BY <1>2, <2>1, <2>4 DEF VariantRow
    <3> HIDE DEF n
    <3>4. Books(v)' = Books(v) + Overwritten(s, v)
      BY <1>0, <1>2, <2>1, <3>3 DEF Books, Overwritten
    <3> QED
      BY <3>1, <3>2, <3>4 DEF Miscounts
  <2> QED
    BY <2>2, <2>3, <2>4
<1>5. ASSUME NEW s \in Sessions, PaymentCommit(s)
      PROVE  Books(v)' = Books(v)
  <2> DEFINE n == Units(order[tx[s].order].items, v)
             r == ReleasesStock(tx[s].target)
  <2>1. /\ n \in Nat /\ Held(v) \in Nat
        /\ variant'[v].stock = IF r THEN variant[v].stock + n ELSE variant[v].stock
        /\ Held(v)' = IF r THEN Held(v) - n ELSE Held(v)
    BY <1>1, <1>5, DecisionMovesUnits
  <2> HIDE DEF n, r
  <2> QED
    BY <1>2, <2>1 DEF Books
<1>6. ASSUME NEW s \in Sessions, NEW w \in Variants, EditCommit(s, w)
      PROVE  \/ Books(v)' = Books(v)
             \/ Miscounts(s, v)
  <2>1. /\ variant'[w] = RowAfterEdit(s, w)
        /\ \A x \in Variants \ {w} : variant'[x] = variant[x]
        /\ tx[s].kind = "edit" /\ w \in tx[s].need
        /\ ~Busy(s)'
        /\ Held(v)' = Held(v)
    BY <1>1, <1>6, SaveKeepsOthers
  <2>2. CASE v # w
    BY <2>1, <2>2 DEF Books
  <2>3. CASE v = w /\ tx[s].row.stock = tx[s].seen[v].stock
    <3>1. variant'[v].stock = variant[v].stock
      BY <2>1, <2>3 DEF RowAfterEdit, Changed
    <3> QED
      BY <2>1, <3>1 DEF Books
  <2>4. CASE v = w /\ tx[s].row.stock # tx[s].seen[v].stock
    <3>1. variant'[v].stock = tx[s].row.stock
      BY <2>1, <2>4 DEF RowAfterEdit, Changed
    <3>2. Held(v) \in Nat
      BY <1>1, HeldType DEF CountInv
    <3>3. Books(v)' = Books(v) + (tx[s].row.stock - tx[s].seen[v].stock) + Overwritten(s, v)
      BY <1>0, <1>2, <2>1, <3>1, <3>2 DEF Books, Overwritten
    <3> QED
      BY <2>1, <2>4, <3>3 DEF Miscounts, EntersCount
  <2> QED
    BY <2>2, <2>3, <2>4
<1>7. CASE Calm /\ SameStock
  <2>1. Held(v)' = Held(v)
    BY <1>7, SameStockHeld DEF Calm
  <2> QED
    BY <1>7, <2>1 DEF SameStock, Books
<1> QED
  BY <1>3, <1>4, <1>5, <1>6, <1>7, StepsAreCalm

(***************************************************************************)
(* Units leave or enter the shop's books only when a seller enters a new   *)
(* count or when a checkout commits a stock that it computed from a row it *)
(* read before another transaction changed it, and then by the difference  *)
(* entered and the change overwritten, for any number of sessions.         *)
(***************************************************************************)
THEOREM UnitsAreLostOnlyByStaleSales == Spec => OnlyStaleSalesLoseUnits
<1>1. IInv /\ CountInv /\ [Next]_vars
        => [\A v \in Variants :
              Books(v)' # Books(v)
                => \E s \in Sessions :
                      /\ ~Busy(s)'
                      /\ \/ /\ StaleSale(s, v)
                            /\ Books(v)' = Books(v) + Overwritten(s, v)
                         \/ /\ EntersCount(s, v)
                            /\ Books(v)' = Books(v) + (tx[s].row.stock - tx[s].seen[v].stock)
                                                    + Overwritten(s, v)]_vars
  BY UnitsAreKept DEF Miscounts
<1> QED
  BY <1>1, Counting, PTL DEF Spec, OnlyStaleSalesLoseUnits

-----------------------------------------------------------------------------
(***************************************************************************)
(* The CHECK constraints hold of every committed row, whatever the commits *)
(* compute: a flush that would break them fails.                           *)
(***************************************************************************)
RowsAreLegal == \A v \in Variants : RowLegal(variant[v])

LEMMA LegalInit == Init => RowsAreLegal
  BY InitialVariantAssumption DEF Init, RowsAreLegal, RowLegal, VariantRow

LEMMA LegalStep == IInv /\ RowsAreLegal /\ [Next]_vars => RowsAreLegal'
<1> SUFFICES ASSUME IInv, RowsAreLegal, [Next]_vars PROVE RowsAreLegal'
  OBVIOUS
<1>1. ASSUME UNCHANGED variant PROVE RowsAreLegal'
  BY <1>1 DEF RowsAreLegal
<1>2. ASSUME NEW s \in Sessions, CheckoutCommit(s) PROVE RowsAreLegal'
  <2>1. \A v \in Variants : RowLegal(variant'[v])
    BY <1>2 DEF RowsAreLegal, CheckoutCommit, SaleLegal
  <2> QED
    BY <2>1 DEF RowsAreLegal
<1>3. ASSUME NEW s \in Sessions, PaymentCommit(s) PROVE RowsAreLegal'
  <2>1. variant' = variant \/ \E o : ReleaseStock(o)
    BY <1>3 DEF PaymentCommit
  <2>2. ASSUME NEW o, ReleaseStock(o) PROVE \A v \in Variants : RowLegal(variant'[v])
    BY <2>2 DEF RowsAreLegal, ReleaseStock
  <2> QED
    BY <2>1, <2>2 DEF RowsAreLegal
<1>4. ASSUME NEW s \in Sessions, NEW w \in Variants, EditCommit(s, w) PROVE RowsAreLegal'
  <2>1. /\ variant'[w] = RowAfterEdit(s, w) /\ RowLegal(RowAfterEdit(s, w))
        /\ \A v \in Variants \ {w} : variant'[v] = variant[v]
    BY <1>4, SaveKeepsOthers DEF EditCommit, IInv
  <2>2. \A v \in Variants : RowLegal(variant'[v])
    BY <2>1 DEF RowsAreLegal
  <2> QED
    BY <2>2 DEF RowsAreLegal
<1>5. CASE CartStep \/ \E s \in Sessions, u \in Users : CheckoutBegin(s, u)
  BY <1>1, <1>5, CartStepIsCartsOnly DEF CheckoutBegin, shopRows
<1> QED
  BY <1>1, <1>2, <1>3, <1>4, <1>5, StepsAreCalm DEF SameStock

-----------------------------------------------------------------------------
(***************************************************************************)
(* What a checkout sells, unless the stock it read is stale.               *)
(***************************************************************************)
LEMMA FreshSale ==
    ASSUME IInv, CountInv, RowsAreLegal, IInv', CountInv', NEW s \in Sessions, CheckoutCommit(s),
           NEW v \in Variants, ~StaleSale(s, v), NEW n, n = Units(tx[s].items, v)
    PROVE  /\ n \in 0 .. MaxAdded
           /\ n <= Available(variant[v])
           /\ n <= variant[v].stock
           /\ variant'[v].stock = variant[v].stock - n
<1>1. TypeOK /\ FiniteItems
  BY DEF IInv, CountInv
<1>2. /\ variant[v].stock \in Nat /\ variant[v].reserved \in Nat
      /\ variant[v].reserved <= variant[v].stock /\ variant[v] \in VariantRow
  BY <1>1 DEF RowsAreLegal, RowLegal, TypeOK
<1>3. /\ n \in Nat /\ (v \notin VariantsOf(tx[s].items) => n = 0)
      /\ variant'[v] = IF v \in VariantsOf(tx[s].items)
                       THEN [variant[v] EXCEPT !.stock = tx[s].seen[v].stock - n]
                       ELSE variant[v]
  BY <1>1, SaleMovesUnits
<1>4. n <= MaxAdded
  <2>1. /\ tx[s].user \in Users
        /\ BoughtBy(tx[s].user) + UnitsOf(tx[s].items) + UnitsOf(Left(s)) <= added[tx[s].user]
        /\ added[tx[s].user] <= MaxAdded /\ added[tx[s].user] \in Nat
    BY <1>1 DEF CountInv, HoldsCart, CheckoutCommit, TypeOK
  <2>2. BoughtBy(tx[s].user) \in Nat /\ UnitsOf(tx[s].items) \in Nat /\ UnitsOf(Left(s)) \in Nat
    BY <1>1, <2>1, BoughtType, ItemsOfSession, ItemsOfCart DEF Left
  <2>3. n <= UnitsOf(tx[s].items)
    BY <1>1, ItemsOfSession, UnitsWithinAll
  <2> QED
    BY <1>3, <2>1, <2>2, <2>3, BoundsAssumption
<1>5. CASE v \in VariantsOf(tx[s].items)
  <2>1. tx[s].seen[v].stock = variant[v].stock /\ RowLegal(RowAfterSale(s, v))
    BY <1>5 DEF StaleSale, CheckoutCommit, SaleLegal
  <2>2. RowLegal([variant[v] EXCEPT !.stock = variant[v].stock - n])
    BY <2>1 DEF RowAfterSale
  <2>3. variant[v].stock - n \in Nat /\ variant[v].reserved <= variant[v].stock - n
    BY <1>2, <2>2 DEF RowLegal, VariantRow
  <2>4. variant'[v].stock = variant[v].stock - n
    BY <1>2, <1>3, <1>5, <2>1 DEF VariantRow
  <2> QED
    BY <1>2, <1>3, <1>4, <2>3, <2>4, BoundsAssumption DEF Available
<1>6. CASE v \notin VariantsOf(tx[s].items)
  BY <1>2, <1>3, <1>4, <1>6, BoundsAssumption DEF Available
<1> QED
  BY <1>5, <1>6

LEMMA NewOrderIsSold ==
    ASSUME IInv, CountInv, RowsAreLegal, [Next]_vars,
           NEW o \in Orders, ~Placed(o), Placed(o)', NEW v \in Variants
    PROVE  \/ Units(order'[o].items, v) <= Available(variant[v])
           \/ \E s \in Sessions : StaleSale(s, v) /\ ~Busy(s)'
<1>1. IInv' /\ CountInv' /\ TypeOK
  BY InvStep, CountStep DEF IInv
<1>2. ~Calm
  BY DEF Calm, SamePurchases, Placed
<1>3. ~CartStep /\ ~\E s \in Sessions, u \in Users : CheckoutBegin(s, u)
  BY CartStepIsCartsOnly DEF CheckoutBegin, shopRows, Placed
<1>4. PICK s \in Sessions : CheckoutCommit(s)
  BY <1>1, <1>2, <1>3, StepsAreCalm
<1> DEFINE n == Units(tx[s].items, v)
<1>5. o = tx[s].order
  <2>1. \A p \in Orders \ {tx[s].order} : order'[p] = order[p]
    BY <1>1, <1>4, PlacingEffect
  <2> QED
    BY <2>1 DEF Placed
<1>6. Units(order'[o].items, v) = n
  <2>1. order'[o] = [status |-> "NEW", user |-> tx[s].user, items |-> tx[s].items,
                     delivered |-> FALSE]
    BY <1>1, <1>4, <1>5, PlacingEffect
  <2> QED
    BY <2>1
<1>7. CASE ~StaleSale(s, v)
  <2>1. n <= Available(variant[v])
    BY <1>1, <1>4, <1>7, FreshSale
  <2> QED
    BY <1>6, <2>1
<1>8. CASE StaleSale(s, v)
  <2>1. ~Busy(s)'
    BY <1>1, <1>4, CommitEndsRequest DEF CheckoutCommit
  <2> QED
    BY <1>8, <2>1
<1> QED
  BY <1>7, <1>8

LEMMA Legality == Spec => [](IInv /\ CountInv /\ RowsAreLegal)
<1>1. Init => IInv /\ CountInv /\ RowsAreLegal
  BY InvInit, CountInit, LegalInit
<1>2. IInv /\ CountInv /\ RowsAreLegal /\ [Next]_vars => (IInv /\ CountInv /\ RowsAreLegal)'
  BY InvStep, CountStep, LegalStep
<1> QED
  BY <1>1, <1>2, PTL DEF Spec

(***************************************************************************)
(* The only way to sell more of a variant than is available, for any       *)
(* number of sessions: the checkout computed the stock from a row it read  *)
(* before it waited for the lock, and another transaction changed it.      *)
(***************************************************************************)
OnlyStaleSalesOversell ==
    [][\A o \in Orders :
         ~Placed(o) /\ Placed(o)'
           => \A v \in Variants :
                 \/ Units(order'[o].items, v) <= Available(variant[v])
                 \/ \E s \in Sessions : StaleSale(s, v) /\ ~Busy(s)']_vars

(***************************************************************************)
(* Every other checkout sells no more than what is there, however many     *)
(* requests, releases and edits run beside it (CheckoutCommit).            *)
(***************************************************************************)
THEOREM FreshSalesNeverOversell == Spec => OnlyStaleSalesOversell
<1>1. IInv /\ CountInv /\ RowsAreLegal /\ [Next]_vars
        => [\A o \in Orders :
              ~Placed(o) /\ Placed(o)'
                => \A v \in Variants :
                      \/ Units(order'[o].items, v) <= Available(variant[v])
                      \/ \E s \in Sessions : StaleSale(s, v) /\ ~Busy(s)']_vars
  BY NewOrderIsSold
<1> QED
  BY <1>1, Legality, PTL DEF Spec, OnlyStaleSalesOversell

-----------------------------------------------------------------------------
(***************************************************************************)
(* One transaction at a time.  What a checkout or a save has read is then  *)
(* what is committed, until it commits itself.                             *)
(***************************************************************************)
OneSession == \A s, t \in Sessions : s = t

FreshReads(s) ==
    /\ tx[s].kind = "checkout" => \A v \in VariantsOf(tx[s].items) : tx[s].seen[v] = variant[v]
    /\ tx[s].kind = "edit" => /\ tx[s].row \in EditedRows
                              /\ \A v \in tx[s].need : tx[s].seen[v] = variant[v]

ReadsAreFresh == \A s \in Sessions : FreshReads(s)

KeepsReads(t) ==
    \/ tx'[t].kind \notin {"checkout", "edit"}
    \/ /\ tx'[t].kind = tx[t].kind
       /\ tx'[t].items = tx[t].items
       /\ tx'[t].seen = tx[t].seen
       /\ tx'[t].row = tx[t].row
       /\ tx'[t].need \in SUBSET tx[t].need

LEMMA FreshInit == Init => ReadsAreFresh
  BY DEF Init, ReadsAreFresh, FreshReads, IdleTx

LEMMA KeepsFresh ==
    ASSUME ReadsAreFresh, UNCHANGED variant, NEW t \in Sessions, KeepsReads(t)
    PROVE  FreshReads(t)'
<1>1. FreshReads(t)
  BY DEF ReadsAreFresh
<1> QED
  BY <1>1 DEF FreshReads, KeepsReads

LEMMA BeginReadsFresh ==
    ASSUME TypeOK, NEW s \in Sessions,
           \/ \E u \in Users : CheckoutBegin(s, u)
           \/ \E v \in Variants, row \in EditedRows : EditBegin(s, v, row)
    PROVE  FreshReads(s)' /\ UNCHANGED variant /\ \A t \in Sessions \ {s} : tx'[t] = tx[t]
<1>1. ASSUME NEW u \in Users, CheckoutBegin(s, u)
      PROVE  FreshReads(s)' /\ UNCHANGED variant /\ \A t \in Sessions \ {s} : tx'[t] = tx[t]
  <2>1. /\ tx'[s].kind = "checkout" /\ tx'[s].items = Selected(cart[u])
        /\ \A v \in Variants : tx'[s].seen[v] =
              IF v \in VariantsOf(cart[u]) THEN variant[v] ELSE NoRow
        /\ \A t \in Sessions \ {s} : tx'[t] = tx[t]
    BY <1>1, CheckoutTxIs
  <2>2. UNCHANGED variant
    BY <1>1 DEF CheckoutBegin, shopRows
  <2>3. \A v \in VariantsOf(Selected(cart[u])) : v \in Variants /\ v \in VariantsOf(cart[u])
    BY DEF TypeOK, VariantsOf, Selected, CartItem
  <2> QED
    BY <2>1, <2>2, <2>3 DEF FreshReads
<1>2. ASSUME NEW v \in Variants, NEW row \in EditedRows, EditBegin(s, v, row)
      PROVE  FreshReads(s)' /\ UNCHANGED variant /\ \A t \in Sessions \ {s} : tx'[t] = tx[t]
  <2> DEFINE new == [IdleTx EXCEPT
                        !.kind = "edit", !.step = "write", !.need = {v},
                        !.seen = [w \in Variants |-> IF w = v THEN variant[v] ELSE NoRow],
                        !.row = row]
  <2>1. UNCHANGED variant /\ tx' = [tx EXCEPT ![s] = new]
    BY <1>2 DEF EditBegin, shopRows
  <2>2. new.kind = "edit" /\ new.row = row /\ new.need = {v} /\ new.seen[v] = variant[v]
    BY DEF IdleTx
  <2> HIDE DEF new
  <2>3. tx'[s] = new /\ \A t \in Sessions \ {s} : tx'[t] = tx[t]
    BY <2>1 DEF TypeOK
  <2> QED
    BY <2>1, <2>2, <2>3 DEF FreshReads
<1> QED
  BY <1>1, <1>2

LEMMA EndKeepsReads ==
    ASSUME TypeOK, NEW s \in Sessions, EndTx(s)
    PROVE  \A t \in Sessions : KeepsReads(t) /\ (t = s => FreshReads(t)')
  BY DEF EndTx, TypeOK, KeepsReads, IdleTx, FreshReads

LEMMA ProgressKeepsReads ==
    ASSUME TypeOK, NEW s \in Sessions,
           \/ \E v \in Variants : LockVariant(s, v)
           \/ CheckoutNumber(s) \/ FlushOrder(s) \/ AdminReadsPayment(s)
           \/ \E o \in Orders, kind \in PaymentRequests : PaymentBegin(s, kind, o)
           \/ \E o \in Orders, status \in SellerStatuses : AdminBegin(s, o, status)
    PROVE  UNCHANGED variant /\ \A t \in Sessions : KeepsReads(t)
<1>1. UNCHANGED variant
  BY DEF LockVariant, CheckoutNumber, FlushOrder, AdminReadsPayment, PaymentBegin, AdminBegin,
         shopRows
<1>2. tx[s] \in Transaction /\ DOMAIN tx = Sessions
  BY DEF TypeOK
<1>3. CASE \E v \in Variants : LockVariant(s, v)
  <2>1. PICK v \in Variants : LockVariant(s, v)
    BY <1>3
  <2>2. tx' = [tx EXCEPT ![s].need = @ \ {v}]
    BY <2>1 DEF LockVariant
  <2> QED
    BY <1>1, <1>2, <2>2 DEF KeepsReads, Transaction
<1>4. CASE CheckoutNumber(s)
  BY <1>1, <1>2, <1>4 DEF CheckoutNumber, KeepsReads, Transaction
<1>5. CASE FlushOrder(s)
  BY <1>1, <1>2, <1>5 DEF FlushOrder, KeepsReads, Transaction, PaymentRequests
<1>6. CASE AdminReadsPayment(s)
  BY <1>1, <1>2, <1>6 DEF AdminReadsPayment, KeepsReads, Transaction
<1>7. CASE \E o \in Orders, kind \in PaymentRequests : PaymentBegin(s, kind, o)
  <2>1. PICK o \in Orders, kind \in PaymentRequests : PaymentBegin(s, kind, o)
    BY <1>7
  <2> DEFINE new == [IdleTx EXCEPT
                        !.kind = kind,
                        !.order = o,
                        !.was = order[o].status,
                        !.target = PaymentOutcome(kind, payment[o]),
                        !.step = IF PaymentOutcome(kind, payment[o]) = "SUBMITTED"
                                 THEN "variants" ELSE "order"]
  <2>2. tx' = [tx EXCEPT ![s] = new]
    BY <2>1 DEF PaymentBegin
  <2>3. new.kind \notin {"checkout", "edit"}
    BY DEF IdleTx, PaymentRequests
  <2> HIDE DEF new
  <2> QED
    BY <1>1, <1>2, <2>2, <2>3 DEF KeepsReads
<1>8. CASE \E o \in Orders, status \in SellerStatuses : AdminBegin(s, o, status)
  <2>1. PICK o \in Orders, status \in SellerStatuses : AdminBegin(s, o, status)
    BY <1>8
  <2> DEFINE new == [IdleTx EXCEPT !.kind = "admin", !.step = "payment", !.order = o,
                                   !.was = order[o].status, !.target = status]
  <2>2. tx' = [tx EXCEPT ![s] = new]
    BY <2>1 DEF AdminBegin
  <2>3. new.kind \notin {"checkout", "edit"}
    BY DEF IdleTx
  <2> HIDE DEF new
  <2> QED
    BY <1>1, <1>2, <2>2, <2>3 DEF KeepsReads
<1> QED
  BY <1>3, <1>4, <1>5, <1>6, <1>7, <1>8

LEMMA FreshStep ==
    ASSUME OneSession, IInv, ReadsAreFresh, [Next]_vars
    PROVE  ReadsAreFresh'
<1>0. TypeOK
  BY DEF IInv
<1>1. ASSUME UNCHANGED variant, \A t \in Sessions : KeepsReads(t)
      PROVE  ReadsAreFresh'
  BY <1>1, KeepsFresh DEF ReadsAreFresh
<1>2. CASE UNCHANGED <<variant, tx>>
  BY <1>1, <1>2 DEF KeepsReads
<1>3. CASE CartStep
  BY <1>2, <1>3, CartStepIsCartsOnly
<1>4. CASE WorkerPoll \/ WorkerRestart \/ UNCHANGED vars \/ \E o \in Orders : TimePasses(o)
  BY <1>2, <1>4 DEF WorkerPoll, WorkerRestart, TimePasses, vars, shopRows
<1>5. ASSUME NEW s \in Sessions, EndTx(s)
      PROVE  ReadsAreFresh'
  BY <1>0, <1>5, EndKeepsReads DEF ReadsAreFresh, OneSession
<1>6. ASSUME NEW s \in Sessions,
             \/ \E u \in Users : CheckoutBegin(s, u)
             \/ \E v \in Variants, row \in EditedRows : EditBegin(s, v, row)
      PROVE  ReadsAreFresh'
  BY <1>0, <1>6, BeginReadsFresh DEF ReadsAreFresh, OneSession
<1>7. ASSUME NEW s \in Sessions, NEW o \in Orders,
             WorkerVisit(s, o) \/ \E kind \in PaymentRequests : PaymentRequest(s, kind, o)
      PROVE  ReadsAreFresh'
  <2>1. CASE UNCHANGED <<shopRows, lock, tx, bounds>>
    BY <1>2, <2>1 DEF shopRows
  <2>2. CASE \E kind \in PaymentRequests : PaymentBegin(s, kind, o)
    BY <1>0, <1>1, <2>2, ProgressKeepsReads
  <2> QED
    BY <1>7, <2>1, <2>2 DEF WorkerVisit, PaymentRequest, PaymentRequests
<1>8. ASSUME NEW s \in Sessions, SessionStep(s) PROVE ReadsAreFresh'
  <2>1. CASE CheckoutStep(s)
    BY <1>0, <1>1, <1>5, <1>6, <2>1, ProgressKeepsReads
       DEF CheckoutStep, CheckoutRefused, CheckoutCommit, CheckoutConflict, Rollback
  <2>2. CASE PaymentStep(s)
    BY <1>0, <1>1, <1>5, <1>7, <2>2, ProgressKeepsReads DEF PaymentStep, PaymentCommit
  <2>3. CASE AdminStep(s)
    BY <1>0, <1>1, <1>5, <2>3, ProgressKeepsReads DEF AdminStep, AdminRefused, AdminCommit, Rollback
  <2>4. CASE EditStep(s)
    BY <1>5, <1>6, <2>4 DEF EditStep, EditCommit, EditConflict, Rollback
  <2>5. CASE Abort(s) \/ DeadlockVictim(s)
    BY <1>5, <2>5 DEF Abort, DeadlockVictim, Rollback
  <2>6. CASE \E v \in Variants : LockVariant(s, v)
    BY <1>0, <1>1, <2>6, ProgressKeepsReads
  <2> QED
    BY <1>7, <1>8, <2>1, <2>2, <2>3, <2>4, <2>5, <2>6 DEF SessionStep
<1> QED
  BY <1>3, <1>4, <1>8 DEF Next

SerialInv == IInv /\ CountInv /\ RowsAreLegal /\ ReadsAreFresh

LEMMA Serial == OneSession => (Spec => []SerialInv)
<1> SUFFICES ASSUME OneSession PROVE Spec => []SerialInv
  OBVIOUS
<1>1. Init => SerialInv
  BY InvInit, CountInit, LegalInit, FreshInit DEF SerialInv
<1>2. SerialInv /\ [Next]_vars => SerialInv'
  BY InvStep, CountStep, LegalStep, FreshStep DEF SerialInv
<1> QED
  BY <1>1, <1>2, PTL DEF Spec

LEMMA FreshIsNotStale ==
    ASSUME ReadsAreFresh, NEW s \in Sessions, NEW v
    PROVE  ~StaleSale(s, v)
  BY DEF ReadsAreFresh, FreshReads, StaleSale

(***************************************************************************)
(* With one transaction at a time a checkout sells what is there: the      *)
(* units of a variant, added up over all items of the cart, are available  *)
(* when the checkout commits.                                              *)
(***************************************************************************)
THEOREM OneSessionNeverOversells == OneSession => (Spec => SellsOnlyAvailable)
<1> SUFFICES ASSUME OneSession PROVE Spec => SellsOnlyAvailable
  OBVIOUS
<1>1. SerialInv /\ [Next]_vars
        => [\A o \in Orders :
              ~Placed(o) /\ Placed(o)'
                => \A v \in Variants :
                      Units(order'[o].items, v) <= Available(variant[v])]_vars
  BY NewOrderIsSold, FreshIsNotStale DEF SerialInv
<1>2. Spec => []SerialInv
  BY Serial
<1> QED
  BY <1>1, <1>2, PTL DEF Spec, SellsOnlyAvailable

-----------------------------------------------------------------------------
(***************************************************************************)
(* The purchase path with one transaction at a time is the stock ledger.   *)
(***************************************************************************)
AbsStock == [v \in Variants |-> variant[v].stock]
AbsPhase == [o \in Orders |-> Phase(payment[o].status)]
AbsUnits == [o \in Orders |-> [v \in Variants |-> Units(order[o].items, v)]]

LEMMA Phases ==
    /\ Phase("absent") = "none" /\ Phase("PENDING") = "held" /\ Phase("SUBMITTED") = "held"
    /\ Phase("APPROVED") = "sold" /\ Phase("REJECTED") = "returned" /\ Phase("EXPIRED") = "returned"
  BY DEF Phase, ActivePaymentStatuses, ReleasesStock

LEMMA LedgerHides ==
    ASSUME \A v \in Variants : variant'[v].stock = variant[v].stock,
           \A o \in Orders : /\ Phase(payment'[o].status) = Phase(payment[o].status)
                             /\ order'[o].items = order[o].items
    PROVE  UNCHANGED Ledger!vars
<1>1. UNCHANGED <<AbsStock, AbsPhase, AbsUnits>>
  BY DEF AbsStock, AbsPhase, AbsUnits
<1> QED
  BY <1>1 DEF Ledger!vars, AbsStock, AbsPhase, AbsUnits

LEMMA LedgerInit == Init => Ledger!Init
<1> SUFFICES ASSUME Init PROVE Ledger!Init
  OBVIOUS
<1>1. AbsStock \in [Variants -> Nat]
  BY InitialVariantAssumption DEF Init, AbsStock, VariantRow
<1>2. AbsPhase = [o \in Orders |-> "none"]
  BY Phases DEF Init, AbsPhase, AbsentPayment
<1>3. AbsUnits = [o \in Orders |-> [v \in Variants |-> 0]]
  BY UnitsOfNothing DEF Init, AbsUnits, AbsentOrder
<1> QED
  BY <1>1, <1>2, <1>3 DEF Ledger!Init, AbsStock, AbsPhase, AbsUnits

LEMMA SaleIsPlace ==
    ASSUME SerialInv, IInv', CountInv', NEW s \in Sessions, CheckoutCommit(s),
           NEW o, o = tx[s].order,
           NEW taken, taken = [v \in Variants |-> Units(tx[s].items, v)]
    PROVE  Ledger!Next
<1>1. IInv /\ CountInv
  BY DEF SerialInv
<1>2. /\ o \in Orders /\ ~Placed(o)
      /\ payment'[o].status = "PENDING"
      /\ \A p \in Orders \ {o} : order'[p] = order[p] /\ payment'[p] = payment[p]
  BY <1>1, PlacingEffect
<1>3. payment[o].status = "absent"
  BY <1>1, <1>2 DEF IInv, PlacedHasPayment
<1>4. \A v \in Variants : /\ taken[v] \in 0 .. MaxAdded /\ taken[v] <= AbsStock[v]
                          /\ variant'[v].stock = AbsStock[v] - taken[v]
  BY <1>1, FreshSale, FreshIsNotStale DEF AbsStock, SerialInv
<1>5. \A v \in Variants : Units(order'[o].items, v) = taken[v]
  <2>1. order'[o] = [status |-> "NEW", user |-> tx[s].user, items |-> tx[s].items,
                     delivered |-> FALSE]
    BY <1>1, PlacingEffect
  <2> QED
    BY <2>1
<1>6. taken \in [Variants -> 0 .. MaxAdded]
  BY <1>4
<1>7. AbsStock' = [v \in Variants |-> AbsStock[v] - taken[v]]
  BY <1>4 DEF AbsStock
<1>8. AbsPhase[o] = "none" /\ AbsPhase' = [AbsPhase EXCEPT ![o] = "held"]
  BY <1>2, <1>3, Phases DEF AbsPhase
<1>9. AbsUnits' = [AbsUnits EXCEPT ![o] = taken]
  <2>1. [v \in Variants |-> Units(order'[o].items, v)] = taken
    BY <1>5, <1>6
  <2> QED
    BY <1>2, <2>1 DEF AbsUnits
<1>10. Ledger!Place(o, taken)
  BY <1>4, <1>7, <1>8, <1>9 DEF Ledger!Place, AbsStock, AbsPhase, AbsUnits
<1> QED
  BY <1>2, <1>6, <1>10, Zenon DEF Ledger!Next

LEMMA DecisionIsConfirmOrGiveBack ==
    ASSUME IInv, CountInv, IInv', CountInv', NEW s \in Sessions, PaymentCommit(s),
           NEW o, o = tx[s].order
    PROVE  Ledger!Next \/ UNCHANGED Ledger!vars
<1> DEFINE r == ReleasesStock(tx[s].target)
<1>1. /\ o \in Orders /\ payment[o].status \in ActivePaymentStatuses
      /\ tx[s].target \in {"SUBMITTED"} \cup SettledPaymentStatuses
      /\ payment'[o].status = tx[s].target
      /\ \A p \in Orders \ {o} : order'[p] = order[p] /\ payment'[p] = payment[p]
  BY DecisionEffect DEF PaymentActive
<1>2. \A v \in Variants :
         /\ Units(order[o].items, v) \in Nat /\ variant[v].stock \in Nat
         /\ variant'[v].stock = IF r THEN variant[v].stock + Units(order[o].items, v)
                                ELSE variant[v].stock
         /\ order'[o].items = order[o].items
  BY DecisionMovesUnits DEF IInv, TypeOK, VariantRow
<1>3. order'[o].items = order[o].items
  BY DecisionIsCalm, <1>1 DEF Calm, SamePurchases
<1>4. AbsPhase[o] = "held"
  BY <1>1, Phases DEF AbsPhase, ActivePaymentStatuses
<1>5. AbsPhase' = [AbsPhase EXCEPT ![o] = Phase(tx[s].target)] /\ AbsUnits' = AbsUnits
  BY <1>1, <1>3 DEF AbsPhase, AbsUnits
<1>6. CASE tx[s].target = "SUBMITTED"
  <2>1. ~r /\ Phase(payment'[o].status) = Phase(payment[o].status)
    BY <1>1, <1>6, Phases DEF ActivePaymentStatuses, ReleasesStock
  <2>2. \A p \in Orders : /\ Phase(payment'[p].status) = Phase(payment[p].status)
                          /\ order'[p].items = order[p].items
    BY <1>1, <1>3, <2>1
  <2>3. \A v \in Variants : variant'[v].stock = variant[v].stock
    BY <1>2, <2>1
  <2> QED
    BY <2>2, <2>3, LedgerHides
<1>7. CASE tx[s].target = "APPROVED"
  <2>1. ~r
    BY <1>7 DEF ReleasesStock
  <2>2. AbsStock' = AbsStock
    BY <1>2, <2>1 DEF AbsStock
  <2>3. AbsPhase' = [AbsPhase EXCEPT ![o] = "sold"]
    BY <1>5, <1>7, Phases
  <2>4. Ledger!Confirm(o)
    BY <1>4, <1>5, <2>2, <2>3 DEF Ledger!Confirm, AbsStock, AbsPhase, AbsUnits
  <2> QED
    BY <1>1, <2>4 DEF Ledger!Next
<1>8. CASE tx[s].target \in {"REJECTED", "EXPIRED"}
  <2>1. r
    BY <1>8 DEF ReleasesStock
  <2>2. AbsStock' = [v \in Variants |-> AbsStock[v] + AbsUnits[o][v]]
    BY <1>1, <1>2, <2>1 DEF AbsStock, AbsUnits
  <2>3. AbsPhase' = [AbsPhase EXCEPT ![o] = "returned"]
    BY <1>5, <1>8, Phases
  <2>4. Ledger!GiveBack(o)
    BY <1>4, <1>5, <2>2, <2>3 DEF Ledger!GiveBack, AbsStock, AbsPhase, AbsUnits
  <2> QED
    BY <1>1, <2>4 DEF Ledger!Next
<1> QED
  BY <1>1, <1>6, <1>7, <1>8 DEF SettledPaymentStatuses

LEMMA SaveIsRecount ==
    ASSUME IInv, ReadsAreFresh, NEW s \in Sessions, NEW w \in Variants, EditCommit(s, w),
           NEW n, n = tx[s].row.stock
    PROVE  Ledger!Next
<1>1. /\ variant'[w] = RowAfterEdit(s, w)
      /\ \A v \in Variants \ {w} : variant'[v] = variant[v]
      /\ tx[s].kind = "edit" /\ w \in tx[s].need
      /\ UNCHANGED <<order, payment>>
  BY SaveKeepsOthers DEF IInv, EditCommit
<1>2. tx[s].row \in EditedRows /\ tx[s].seen[w] = variant[w]
  BY <1>1 DEF ReadsAreFresh, FreshReads
<1>3. variant'[w].stock = n
  BY <1>1, <1>2 DEF RowAfterEdit, Changed
<1>4. n \in {row.stock : row \in EditedRows}
  BY <1>2
<1>5. AbsStock' = [AbsStock EXCEPT ![w] = n] /\ UNCHANGED <<AbsPhase, AbsUnits>>
  BY <1>1, <1>3 DEF AbsStock, AbsPhase, AbsUnits
<1>6. Ledger!Recount(w, n)
  BY <1>5 DEF Ledger!Recount, AbsStock, AbsPhase, AbsUnits
<1> QED
  BY <1>4, <1>6, Zenon DEF Ledger!Next

LEMMA LedgerStep ==
    ASSUME SerialInv, [Next]_vars
    PROVE  [Ledger!Next]_(Ledger!vars)
<1>1. IInv /\ CountInv /\ ReadsAreFresh /\ IInv' /\ CountInv'
  BY InvStep, CountStep DEF SerialInv
<1>2. CASE CartStep \/ \E s \in Sessions, u \in Users : CheckoutBegin(s, u)
  <2>1. UNCHANGED <<variant, order, payment>>
    BY <1>2, CartStepIsCartsOnly DEF CheckoutBegin, shopRows
  <2> QED
    BY <2>1, LedgerHides
<1>3. CASE Calm /\ SameStock
  <2>1. \A o \in Orders : order'[o].items = order[o].items
    BY <1>3, SamePurchasesSameUnits DEF Calm
  <2> QED
    BY <1>3, <2>1, LedgerHides DEF SameStock
<1> QED
  BY <1>1, <1>2, <1>3, StepsAreCalm, SaleIsPlace, DecisionIsConfirmOrGiveBack, SaveIsRecount

(***************************************************************************)
(* With one transaction at a time the purchase path implements the ledger: *)
(* an order takes its units from the shelf in one step and only if they    *)
(* are there, and its payment keeps them sold or puts them back once.      *)
(***************************************************************************)
THEOREM OneSessionImplementsLedger == OneSession => (Spec => ImplementsLedger)
<1> SUFFICES ASSUME OneSession PROVE Spec => ImplementsLedger
  OBVIOUS
<1>1. Init => Ledger!Init
  BY LedgerInit
<1>2. SerialInv /\ [Next]_vars => [Ledger!Next]_(Ledger!vars)
  BY LedgerStep
<1>3. Spec => []SerialInv
  BY Serial
<1> QED
  BY <1>1, <1>2, <1>3, PTL DEF Spec, ImplementsLedger, Ledger!Spec
=============================================================================
