------------------------------- MODULE Orders -------------------------------
(***************************************************************************)
(* Exchanging coins for one limited item (exchange.service.ts) and what    *)
(* the back office does with the orders (admin-exchange.service.ts). An    *)
(* order is charged before the stock is counted and refunded when there is *)
(* none left; stock and limits are not counters but counts of the orders   *)
(* that are not cancelled. A request that failed may be sent again under   *)
(* its bizId, and its vouchers are then replayed.                          *)
(***************************************************************************)
EXTENDS Integers, FiniteSets, FiniteSetTheorems, TLAPS

CONSTANTS
  Requests,   \* bizIds; an order has the id of its request
  OwnerOf,    \* [Requests -> player]
  Stocks,     \* how many of the item there may be
  PerUserLimit,
  Money,      \* bound: items a player could pay for
  Regimes     \* which of "cancels", "slow", "dies", "lost" happen

Users == {OwnerOf[q] : q \in Requests}

ASSUME OrdersAssumption ==
  Stocks \cup {PerUserLimit, Money} \subseteq Nat /\ DOMAIN OwnerOf = Requests

VARIABLES
  regime,
  stock,
  kind,      \* the item: "physical", "virtual" (granted by the order itself)
  order,     \* status of each request's row
  at,        \* step of each request's handler
  desk,      \* step of the back office's cancel of each order
  wallet,    \* price of so many items
  posted     \* vouchers, and the parcels sent: <<what, request>>

vars == <<regime, stock, kind, order, at, desk, wallet, posted>>

Steps   == {"out", "look", "charge", "wait", "count", "giveback", "fulfil", "granted", "save"}

\* status <> 'cancelled', in the counts of stock and limit
Live    == {"pending", "shipped"}

InItem  == {"count", "giveback", "fulfil", "granted", "save"}
Orders(S) == {q \in S : order[q] \in Live}

TypeOK ==
  /\ regime \in Regimes /\ stock \in Stocks /\ kind \in {"physical", "virtual"}
  /\ order \in [Requests -> {"none", "pending", "shipped", "cancelled"}]
  /\ at \in [Requests -> Steps]
  /\ desk \in [Requests -> {"out", "update", "refund"}]
  /\ wallet \in [Users -> Nat]
  /\ posted \subseteq {"charge", "oversold", "grant", "parcel", "refund"} \X Requests

Init ==
  /\ regime \in Regimes /\ stock \in Stocks /\ kind \in {"physical", "virtual"}
  /\ order = [q \in Requests |-> "none"] /\ at = [q \in Requests |-> "out"]
  /\ desk = [q \in Requests |-> "out"]
  /\ wallet \in {[u \in Users |-> m] : m \in 1..Money} /\ posted = {}

-----------------------------------------------------------------------------
Mine(q) == {p \in Requests : OwnerOf[p] = OwnerOf[q]}
On(q, step) == at' = [at EXCEPT ![q] = step]
Out(q)      == On(q, "out")

\* n items' worth into the owner's wallet, under the voucher's key; a key that
\* is there already is replayed.
Post(v, n) ==
  IF v \in posted THEN UNCHANGED <<wallet, posted>>
  ELSE posted' = posted \cup {v} /\ wallet' = [wallet EXCEPT ![OwnerOf[v[2]]] = @ + n]

\* withLock("pet:{user}"); a lock runs out after 5 seconds.
Redeem(q) ==
  /\ at[q] = "out"
  /\ "slow" \in regime \/ \A p \in Mine(q) : at[p] = "out"
  /\ On(q, "look")
  /\ UNCHANGED <<regime, stock, kind, order, desk, wallet, posted>>

UnderLimit(q) == Cardinality(Orders(Mine(q))) < PerUserLimit

Look(q) ==
  /\ at[q] = "look"
  /\ IF order[q] = "none" /\ UnderLimit(q) THEN On(q, "charge") ELSE Out(q)
  /\ UNCHANGED <<regime, stock, kind, order, desk, wallet, posted>>

Affords(q) == <<"charge", q>> \in posted \/ wallet[OwnerOf[q]] > 0

Charge(q) ==
  /\ at[q] = "charge"
  /\ IF Affords(q)
     THEN Post(<<"charge", q>>, -1) /\ On(q, "wait")
     ELSE UNCHANGED <<wallet, posted>> /\ Out(q)
  /\ UNCHANGED <<regime, stock, kind, order, desk>>

\* Faulty: the stock is counted outside the item's lock.
NoItemLock(q) == TRUE

\* withLock("exchange:{item}")
ItemLock(q) == "slow" \in regime \/ \A p \in Requests : at[p] \notin InItem

Enter(q) ==
  /\ at[q] = "wait" /\ ItemLock(q)
  /\ On(q, "count")
  /\ UNCHANGED <<regime, stock, kind, order, desk, wallet, posted>>

\* Out of patience for the item's lock: charged, and no order.
GiveUp(q) ==
  /\ "dies" \in regime /\ at[q] = "wait" /\ Out(q)
  /\ UNCHANGED <<regime, stock, kind, order, desk, wallet, posted>>

Count(q) ==
  /\ at[q] = "count"
  /\ On(q, IF Cardinality(Orders(Requests)) >= stock THEN "giveback"
           ELSE IF kind = "virtual" THEN "fulfil" ELSE "save")
  /\ UNCHANGED <<regime, stock, kind, order, desk, wallet, posted>>

\* Faulty: the request is refused and keeps the coins.
KeepsCoins(q) == UNCHANGED <<wallet, posted>>

Oversold(q) == Post(<<"oversold", q>>, 1)

GiveBack(q) ==
  /\ at[q] = "giveback" /\ Oversold(q) /\ Out(q)
  /\ UNCHANGED <<regime, stock, kind, order, desk>>

\* The grant succeeds, fails, or succeeds and is taken for a failure because
\* its answer is lost; a failure leaves the order to the back office.
Fulfil(q) ==
  /\ at[q] = "fulfil"
  /\ \/ Post(<<"grant", q>>, 0) /\ On(q, "granted")
     \/ UNCHANGED <<wallet, posted>> /\ On(q, "save")
     \/ "lost" \in regime /\ Post(<<"grant", q>>, 0) /\ On(q, "save")
  /\ UNCHANGED <<regime, stock, kind, order, desk>>

StatusOf(q) == IF at[q] = "granted" THEN "shipped" ELSE "pending"

\* uq_redeem_user_biz refuses a second row.
Save(q) ==
  /\ at[q] \in {"granted", "save"}
  /\ order' = IF order[q] = "none" THEN [order EXCEPT ![q] = StatusOf(q)] ELSE order
  /\ Out(q)
  /\ UNCHANGED <<regime, stock, kind, desk, wallet, posted>>

Die(q) ==
  /\ "dies" \in regime /\ at[q] # "out" /\ Out(q)
  /\ UNCHANGED <<regime, stock, kind, order, desk, wallet, posted>>

-----------------------------------------------------------------------------
(* The back office. *)

\* UPDATE ... WHERE status = 'pending'
Ship(q) ==
  /\ order[q] = "pending"
  /\ order' = [order EXCEPT ![q] = "shipped"]
  /\ Post(<<"parcel", q>>, 0)
  /\ UNCHANGED <<regime, stock, kind, at, desk>>

\* cancel reads the order; one already cancelled is refunded again.
Cancel(q) ==
  /\ "cancels" \in regime /\ desk[q] = "out" /\ order[q] \in {"pending", "cancelled"}
  /\ desk' = [desk EXCEPT ![q] = IF order[q] = "pending" THEN "update" ELSE "refund"]
  /\ UNCHANGED <<regime, stock, kind, order, at, wallet, posted>>

\* Faulty: the UPDATE does not look at the status.
CancelsAnyway(q) == "cancelled"

\* UPDATE ... WHERE status = 'pending'
Cancelled(q) == IF order[q] = "pending" THEN "cancelled" ELSE order[q]

CancelUpdate(q) ==
  /\ desk[q] = "update"
  /\ order' = [order EXCEPT ![q] = Cancelled(q)]
  /\ desk' = [desk EXCEPT ![q] = IF Cancelled(q) = "cancelled" THEN "refund" ELSE "out"]
  /\ UNCHANGED <<regime, stock, kind, at, wallet, posted>>

Refund(q) ==
  /\ desk[q] = "refund" /\ Post(<<"refund", q>>, 1)
  /\ desk' = [desk EXCEPT ![q] = "out"]
  /\ UNCHANGED <<regime, stock, kind, order, at>>

\* The refund fails; cancel may be called again.
RefundFails(q) ==
  /\ "dies" \in regime /\ desk[q] # "out"
  /\ desk' = [desk EXCEPT ![q] = "out"]
  /\ UNCHANGED <<regime, stock, kind, order, at, wallet, posted>>

Handle(q) == Look(q) \/ Charge(q) \/ Enter(q) \/ Count(q) \/ GiveBack(q) \/ Fulfil(q) \/ Save(q)
Office(q) == Ship(q) \/ Cancel(q) \/ CancelUpdate(q) \/ Refund(q) \/ RefundFails(q)

Next == \E q \in Requests : Redeem(q) \/ Handle(q) \/ GiveUp(q) \/ Die(q) \/ Office(q)

Spec == Init /\ [][Next]_vars

-----------------------------------------------------------------------------
\* As many orders as there is stock, though it is counted after the charge and
\* the orders are cancelled meanwhile: the item's lock holds from the count to
\* the row, as long as it does not run out.
NotOversold == "slow" \notin regime => Cardinality(Orders(Requests)) <= stock

\* Goods that went out are not refunded: a cancel that read the order before
\* it was shipped loses to the shipment, and the other way round.
ShippedOrRefunded == \A q \in Requests : ~({<<"parcel", q>>, <<"refund", q>>} \subseteq posted)

\* A charge ends in an order or comes back, when no request dies on its way.
ChargedOrBack ==
  "dies" \notin regime
    => \A q \in Requests : at[q] = "out" /\ <<"charge", q>> \in posted
         => order[q] # "none" \/ <<"oversold", q>> \in posted

\* "下单即扣积分" (redeem-order.entity.ts:22): an order that is not cancelled has
\* been charged, and the charge was not given back as oversold.
OrderPaid ==
  \A q \in Requests : order[q] \in {"pending", "shipped"} => <<"charge", q>> \in posted /\ <<"oversold", q>> \notin posted

-----------------------------------------------------------------------------
(* Proofs, for any number of requests and players, any stock and limit.    *)
(*                                                                         *)
(* Vouchers stay for ever while an order's row moves on, so the invariant  *)
(* ties each voucher to the states of the row that may follow it: a parcel *)
(* to 'shipped', a refund, or the desk about to make one, to 'cancelled'.  *)
(* A charge without either outcome is a request between charge and row.    *)
(*                                                                         *)
(* There are never more orders than stock while the item's lock holds: the *)
(* lock admits one request, and from its count to its row nobody adds an   *)
(* order, so what it counted below the stock is still below.               *)

ParcelsAreShipped == \A q \in Requests : <<"parcel", q>> \in posted => order[q] = "shipped"

RefundsAreCancelled ==
  \A q \in Requests : <<"refund", q>> \in posted \/ desk[q] = "refund" => order[q] = "cancelled"

Underway == {"wait", "count", "giveback", "fulfil", "granted", "save"}

Settled(q) == order[q] # "none" \/ <<"oversold", q>> \in posted

ChargesAreUnderway ==
  "dies" \notin regime =>
    \A q \in Requests : <<"charge", q>> \in posted => Settled(q) \/ at[q] \in Underway

IInv == TypeOK /\ ParcelsAreShipped /\ RefundsAreCancelled /\ ChargesAreUnderway

-----------------------------------------------------------------------------
(* One voucher. *)

\* A voucher of n >= 0 keeps every wallet a number; it adds itself to the
\* vouchers on file, or is there already.
LEMMA PostAdds ==
  ASSUME TypeOK, NEW what \in {"charge", "oversold", "grant", "parcel", "refund"},
         NEW q \in Requests, NEW n \in Int,
         <<what, q>> \in posted \/ wallet[OwnerOf[q]] + n >= 0,
         Post(<<what, q>>, n)
  PROVE  /\ wallet' \in [Users -> Nat]
         /\ posted' = posted \cup {<<what, q>>}
         /\ posted' \subseteq {"charge", "oversold", "grant", "parcel", "refund"} \X Requests
<1>1. OwnerOf[q] \in Users
  BY DEF Users
<1>2. CASE <<what, q>> \in posted
  BY <1>2 DEF Post, TypeOK
<1>3. CASE <<what, q>> \notin posted
  <2>1. wallet' = [wallet EXCEPT ![OwnerOf[q]] = @ + n] /\ posted' = posted \cup {<<what, q>>}
    BY <1>3 DEF Post
  <2>2. wallet[OwnerOf[q]] + n \in Nat
    BY <1>1, <1>3 DEF TypeOK
  <2> QED  BY <1>1, <2>1, <2>2 DEF TypeOK
<1> QED  BY <1>2, <1>3

-----------------------------------------------------------------------------
(* The invariant. *)

\* No request has begun: no voucher, no order.
LEMMA InitHolds == Init => IInv
<1> SUFFICES ASSUME Init PROVE IInv
  OBVIOUS
<1>1. TypeOK
  BY OrdersAssumption DEF Init, TypeOK, Steps
<1>2. ParcelsAreShipped /\ RefundsAreCancelled /\ ChargesAreUnderway
  BY DEF Init, ParcelsAreShipped, RefundsAreCancelled, ChargesAreUnderway
<1> QED  BY <1>1, <1>2 DEF IInv

\* Every step of a request, of the back office and of what lapses keeps the invariant.
LEMMA NextKeeps == IInv /\ [Next]_vars => IInv'
<1> SUFFICES ASSUME IInv, [Next]_vars PROVE IInv'
  OBVIOUS
<1> USE DEF IInv, TypeOK, ParcelsAreShipped, RefundsAreCancelled, ChargesAreUnderway,
        Underway, Settled, Steps, On, Out
<1>0. TypeOK
  BY DEF IInv
<1>1. ASSUME NEW q \in Requests, Redeem(q) PROVE IInv'
  BY <1>1 DEF Redeem
<1>2. ASSUME NEW q \in Requests, Look(q) PROVE IInv'
  BY <1>2 DEF Look, UnderLimit
<1>3. ASSUME NEW q \in Requests, Charge(q) PROVE IInv'
  <2>1. CASE ~Affords(q)
    BY <1>3, <2>1 DEF Charge
  <2>2. CASE Affords(q)
    <3>1. Post(<<"charge", q>>, -1) /\ at' = [at EXCEPT ![q] = "wait"]
      BY <1>3, <2>2 DEF Charge
    <3>2. <<"charge", q>> \in posted \/ wallet[OwnerOf[q]] + (-1) >= 0
      BY <2>2 DEF Affords, Users
    <3>3. /\ wallet' \in [Users -> Nat] /\ posted' = posted \cup {<<"charge", q>>}
          /\ posted' \subseteq {"charge", "oversold", "grant", "parcel", "refund"} \X Requests
      <4> HIDE DEF TypeOK
      <4> QED  BY <1>0, <3>1, <3>2, PostAdds
    <3> QED  BY <1>3, <3>1, <3>3 DEF Charge
  <2> QED  BY <2>1, <2>2
<1>4. ASSUME NEW q \in Requests, Enter(q) PROVE IInv'
  BY <1>4 DEF Enter, ItemLock
<1>5. ASSUME NEW q \in Requests, GiveUp(q) PROVE IInv'
  BY <1>5 DEF GiveUp
<1>6. ASSUME NEW q \in Requests, Count(q) PROVE IInv'
  BY <1>6 DEF Count
<1>7. ASSUME NEW q \in Requests, GiveBack(q) PROVE IInv'
  <2>1. Post(<<"oversold", q>>, 1)
    BY <1>7 DEF GiveBack, Oversold
  <2>2. wallet[OwnerOf[q]] + 1 >= 0
    BY DEF Users
  <2>3. /\ wallet' \in [Users -> Nat] /\ posted' = posted \cup {<<"oversold", q>>}
        /\ posted' \subseteq {"charge", "oversold", "grant", "parcel", "refund"} \X Requests
    <3> HIDE DEF TypeOK
    <3> QED  BY <1>0, <2>1, <2>2, PostAdds
  <2> QED  BY <1>7, <2>3 DEF GiveBack
<1>8. ASSUME NEW q \in Requests, Fulfil(q) PROVE IInv'
  <2>1. CASE UNCHANGED <<wallet, posted>>
    BY <1>8, <2>1 DEF Fulfil
  <2>2. CASE Post(<<"grant", q>>, 0)
    <3>1. wallet[OwnerOf[q]] + 0 >= 0
      BY DEF Users
    <3>2. /\ wallet' \in [Users -> Nat] /\ posted' = posted \cup {<<"grant", q>>}
          /\ posted' \subseteq {"charge", "oversold", "grant", "parcel", "refund"} \X Requests
      <4> HIDE DEF TypeOK
      <4> QED  BY <1>0, <2>2, <3>1, PostAdds
    <3> QED  BY <1>8, <3>2 DEF Fulfil
  <2> QED  BY <1>8, <2>1, <2>2 DEF Fulfil
<1>9. ASSUME NEW q \in Requests, Save(q) PROVE IInv'
  BY <1>9 DEF Save, StatusOf
<1>10. ASSUME NEW q \in Requests, Die(q) PROVE IInv'
  BY <1>10 DEF Die
<1>11. ASSUME NEW q \in Requests, Ship(q) PROVE IInv'
  <2>1. Post(<<"parcel", q>>, 0)
    BY <1>11 DEF Ship
  <2>2. wallet[OwnerOf[q]] + 0 >= 0
    BY DEF Users
  <2>3. /\ wallet' \in [Users -> Nat] /\ posted' = posted \cup {<<"parcel", q>>}
        /\ posted' \subseteq {"charge", "oversold", "grant", "parcel", "refund"} \X Requests
    <3> HIDE DEF TypeOK
    <3> QED  BY <1>0, <2>1, <2>2, PostAdds
  <2> QED  BY <1>11, <2>3 DEF Ship
<1>12. ASSUME NEW q \in Requests, Cancel(q) PROVE IInv'
  BY <1>12 DEF Cancel
<1>13. ASSUME NEW q \in Requests, CancelUpdate(q) PROVE IInv'
  BY <1>13 DEF CancelUpdate, Cancelled
<1>14. ASSUME NEW q \in Requests, Refund(q) PROVE IInv'
  <2>1. Post(<<"refund", q>>, 1)
    BY <1>14 DEF Refund
  <2>2. wallet[OwnerOf[q]] + 1 >= 0
    BY DEF Users
  <2>3. /\ wallet' \in [Users -> Nat] /\ posted' = posted \cup {<<"refund", q>>}
        /\ posted' \subseteq {"charge", "oversold", "grant", "parcel", "refund"} \X Requests
    <3> HIDE DEF TypeOK
    <3> QED  BY <1>0, <2>1, <2>2, PostAdds
  <2> QED  BY <1>14, <2>3 DEF Refund
<1>15. ASSUME NEW q \in Requests, RefundFails(q) PROVE IInv'
  BY <1>15 DEF RefundFails
<1>16. CASE UNCHANGED vars
  BY <1>16 DEF vars
<1> QED
  BY <1>1, <1>2, <1>3, <1>4, <1>5, <1>6, <1>7, <1>8, <1>9, <1>10, <1>11, <1>12, <1>13, <1>14, <1>15, <1>16 DEF Next, Handle, Office

\* So it holds for ever.
LEMMA Invariance == Spec => []IInv
  BY InitHolds, NextKeeps, PTL DEF Spec

-----------------------------------------------------------------------------
(* The item's lock. *)

Counted == {"fulfil", "granted", "save"}

OneInItem == \A p, q \in Requests : at[p] \in InItem /\ at[q] \in InItem => p = q

CountedBelow == \A q \in Requests : at[q] \in Counted => Cardinality(Orders(Requests)) < stock

StockInv ==
  /\ IsFiniteSet(Orders(Requests))
  /\ "slow" \notin regime => OneInItem /\ CountedBelow /\ Cardinality(Orders(Requests)) <= stock

\* A step that adds no order and lets no request past the count keeps the invariant.
LEMMA NothingAdded ==
  ASSUME StockInv, TypeOK, OneInItem', UNCHANGED <<regime, stock>>,
         Orders(Requests)' \subseteq Orders(Requests),
         \A q \in Requests : at'[q] \in Counted => at[q] \in Counted
  PROVE  StockInv'
<1> DEFINE O == Orders(Requests)
<1>1. IsFiniteSet(O) /\ O' \in SUBSET O
  BY DEF StockInv
<1>2. IsFiniteSet(O') /\ Cardinality(O') \in Nat /\ Cardinality(O) \in Nat /\ Cardinality(O') <= Cardinality(O)
  <2> HIDE DEF O
  <2> QED  BY <1>1, FS_Subset, FS_CardinalityType
<1>3. stock \in Nat
  BY OrdersAssumption DEF TypeOK
<1>4. CASE "slow" \in regime
  BY <1>2, <1>4 DEF StockInv
<1>5. CASE "slow" \notin regime
  <2>1. CountedBelow /\ Cardinality(O) <= stock
    BY <1>5 DEF StockInv
  <2>2. Cardinality(O') <= stock'
    <3> HIDE DEF O
    <3> QED  BY <1>2, <1>3, <2>1
  <2>3. ASSUME NEW q \in Requests, at'[q] \in Counted PROVE Cardinality(O') < stock'
    <3>1. Cardinality(O) < stock
      BY <2>1, <2>3 DEF CountedBelow
    <3> HIDE DEF O
    <3> QED  BY <1>2, <1>3, <3>1
  <2> QED  BY <1>2, <2>2, <2>3 DEF StockInv, CountedBelow
<1> QED  BY <1>4, <1>5

\* At first nothing is ordered and nobody counts.
LEMMA InitStock == Init => StockInv
<1> SUFFICES ASSUME Init PROVE StockInv
  OBVIOUS
<1>1. Orders(Requests) = {}
  BY DEF Init, Orders, Live
<1>2. stock \in Nat
  BY OrdersAssumption DEF Init
<1>3. \A q \in Requests : at[q] = "out"
  BY DEF Init
<1>4. OneInItem /\ CountedBelow
  BY <1>3 DEF OneInItem, CountedBelow, InItem, Counted
<1> QED  BY <1>1, <1>2, <1>4, FS_EmptySet DEF StockInv

\* Who counts the orders is the only one to add one until it has.
LEMMA NextKeepsStock == IInv /\ StockInv /\ [Next]_vars => StockInv'
<1> SUFFICES ASSUME IInv, StockInv, [Next]_vars PROVE StockInv'
  OBVIOUS
<1>0. TypeOK /\ stock \in Nat
  BY OrdersAssumption DEF IInv, TypeOK
<1> USE DEF On, Out, InItem, Counted
<1>1. ASSUME NEW q \in Requests, Save(q) PROVE StockInv'
  <2> DEFINE O == Orders(Requests)
  <2>1. O' \subseteq O \cup {q} /\ UNCHANGED <<regime, stock>>
    BY <1>0, <1>1 DEF Save, Orders, TypeOK
  <2>2. at' = [at EXCEPT ![q] = "out"] /\ at[q] \in {"granted", "save"}
    BY <1>1 DEF Save
  <2>3. /\ IsFiniteSet(O') /\ Cardinality(O') \in Nat /\ Cardinality(O) \in Nat
        /\ Cardinality(O') <= Cardinality(O) + 1
    <3>1. IsFiniteSet(O)
      BY DEF StockInv
    <3>2. IsFiniteSet(O \cup {q}) /\ Cardinality(O \cup {q}) <= Cardinality(O) + 1 /\ Cardinality(O) \in Nat
      <4> HIDE DEF O
      <4>1. /\ IsFiniteSet(O \cup {q})
            /\ Cardinality(O \cup {q}) = IF q \in O THEN Cardinality(O) ELSE Cardinality(O) + 1
        BY <3>1, FS_AddElement, Zenon
      <4>2. Cardinality(O) \in Nat
        BY <3>1, FS_CardinalityType
      <4> QED  BY <4>1, <4>2
    <3>3. O' \in SUBSET (O \cup {q})
      BY <2>1
    <3> HIDE DEF O
    <3>4. IsFiniteSet(O') /\ Cardinality(O') <= Cardinality(O \cup {q})
      BY <3>2, <3>3, FS_Subset
    <3> QED  BY <3>2, <3>4, FS_CardinalityType
  <2>4. CASE "slow" \in regime
    BY <2>1, <2>3, <2>4 DEF StockInv
  <2>5. CASE "slow" \notin regime
    <3>1. OneInItem /\ Cardinality(O) < stock
      BY <2>2, <2>5 DEF StockInv, CountedBelow
    <3>2. OneInItem' /\ \A p \in Requests : at'[p] \notin Counted
      BY <1>0, <2>2, <3>1 DEF OneInItem, TypeOK
    <3>3. CountedBelow'
      BY <3>2 DEF CountedBelow
    <3>4. Cardinality(O') <= stock'
      <4> HIDE DEF O
      <4> QED  BY <1>0, <2>1, <2>3, <3>1
    <3> QED  BY <2>3, <3>2, <3>3, <3>4 DEF StockInv
  <2> QED  BY <2>4, <2>5
<1>2. ASSUME NEW q \in Requests, Count(q) PROVE StockInv'
  <2>1. Orders(Requests)' = Orders(Requests) /\ UNCHANGED <<regime, stock>>
    BY <1>2 DEF Count, Orders
  <2>2. CASE "slow" \in regime
    BY <2>1, <2>2 DEF StockInv
  <2>3. CASE "slow" \notin regime
    <3>1. OneInItem /\ CountedBelow /\ Cardinality(Orders(Requests)) <= stock
      BY <2>3 DEF StockInv
    <3>2. OneInItem'
      BY <1>0, <1>2, <3>1 DEF Count, OneInItem, TypeOK
    <3>3. Cardinality(Orders(Requests)) \in Nat
      BY FS_CardinalityType DEF StockInv
    <3>4. CountedBelow'
      <4>1. CASE Cardinality(Orders(Requests)) >= stock
        BY <1>0, <1>2, <2>1, <3>1, <4>1 DEF Count, CountedBelow, TypeOK
      <4>2. CASE ~(Cardinality(Orders(Requests)) >= stock)
        <5>1. Cardinality(Orders(Requests)) < stock
          BY <1>0, <3>3, <4>2
        <5> QED  BY <2>1, <5>1 DEF CountedBelow
      <4> QED  BY <4>1, <4>2
    <3> QED  BY <2>1, <3>1, <3>2, <3>4 DEF StockInv
  <2> QED  BY <2>2, <2>3
<1>3. ASSUME NEW q \in Requests, Enter(q) PROVE StockInv'
  <2>1. Orders(Requests)' = Orders(Requests) /\ UNCHANGED <<regime, stock>>
    BY <1>3 DEF Enter, Orders
  <2>2. CASE "slow" \in regime
    BY <2>1, <2>2 DEF StockInv
  <2>3. CASE "slow" \notin regime
    <3>1. OneInItem' /\ \A p \in Requests : at'[p] \in Counted => at[p] \in Counted
      BY <1>0, <1>3, <2>3 DEF Enter, ItemLock, OneInItem, TypeOK
    <3> QED  BY <1>0, <2>1, <3>1, NothingAdded
  <2> QED  BY <2>2, <2>3
<1>4. ASSUME NEW q \in Requests,
             Redeem(q) \/ Look(q) \/ Charge(q) \/ GiveUp(q) \/ GiveBack(q) \/ Fulfil(q) \/ Die(q)
      PROVE  StockInv'
  <2>1. Orders(Requests)' = Orders(Requests) /\ UNCHANGED <<regime, stock>>
    BY <1>4 DEF Redeem, Look, Charge, GiveUp, GiveBack, Fulfil, Die, Orders
  <2>2. \E s : at' = [at EXCEPT ![q] = s] /\ (s \in InItem => at[q] \in InItem) /\ (s \in Counted => at[q] \in Counted)
    BY <1>4 DEF Redeem, Look, Charge, GiveUp, GiveBack, Fulfil, Die
  <2>3. \A p \in Requests : at'[p] \in Counted => at[p] \in Counted
    BY <1>0, <2>2 DEF TypeOK
  <2>4. CASE "slow" \in regime
    BY <2>1, <2>4 DEF StockInv
  <2>5. CASE "slow" \notin regime
    <3>1. OneInItem'
      BY <1>0, <2>2, <2>5 DEF OneInItem, StockInv, TypeOK
    <3> QED  BY <1>0, <2>1, <2>3, <3>1, NothingAdded
  <2> QED  BY <2>4, <2>5
<1>5. ASSUME NEW q \in Requests, Office(q) PROVE StockInv'
  <2>1. Orders(Requests)' \subseteq Orders(Requests)
    BY <1>0, <1>5 DEF Office, Ship, Cancel, CancelUpdate, Cancelled, Refund, RefundFails, Orders, Live, TypeOK
  <2>2. UNCHANGED <<regime, stock, at>>
    BY <1>5 DEF Office, Ship, Cancel, CancelUpdate, Refund, RefundFails
  <2>3. CASE "slow" \in regime
    <3>1. IsFiniteSet(Orders(Requests)')
      BY <2>1, FS_Subset DEF StockInv
    <3> QED  BY <2>2, <2>3, <3>1 DEF StockInv
  <2>4. CASE "slow" \notin regime
    <3>1. OneInItem'
      BY <2>2, <2>4 DEF OneInItem, StockInv
    <3> QED  BY <1>0, <2>1, <2>2, <3>1, NothingAdded
  <2> QED  BY <2>3, <2>4
<1>6. CASE UNCHANGED vars
  BY <1>6 DEF vars, StockInv, OneInItem, CountedBelow, Orders
<1> QED
  BY <1>1, <1>2, <1>3, <1>4, <1>5, <1>6 DEF Next, Handle

-----------------------------------------------------------------------------
(* Theorems. *)

\* Every variable keeps its type; in particular no wallet goes below zero.
THEOREM TypeCorrect == Spec => []TypeOK
<1>1. IInv => TypeOK
  BY DEF IInv
<1> QED  BY <1>1, Invariance, PTL

\* An order's parcel and its refund exclude each other, however the back
\* office's ship and cancel interleave (admin-exchange.service.ts).
THEOREM GoodsOrRefund == Spec => []ShippedOrRefunded
<1>1. IInv => ShippedOrRefunded
  BY DEF IInv, ParcelsAreShipped, RefundsAreCancelled, ShippedOrRefunded
<1> QED  BY <1>1, Invariance, PTL

\* As long as no request dies, a request that is over and was charged has its
\* order or its money back, though it was sent several times and locks ran out
\* (exchange.service.ts).
THEOREM NoChargeIsLost == Spec => []ChargedOrBack
<1>1. IInv => ChargedOrBack
  BY DEF IInv, ChargesAreUnderway, Underway, Settled, ChargedOrBack
<1> QED  BY <1>1, Invariance, PTL

\* However many requests are charged at once, and however the back office
\* cancels meanwhile, there are never more orders than stock while the item's
\* lock does not run out (exchange.service.ts).
THEOREM StockIsKept == Spec => []NotOversold
<1>1. StockInv => NotOversold
  BY DEF StockInv, NotOversold
<1> QED  BY <1>1, InitStock, NextKeepsStock, Invariance, PTL DEF Spec
=============================================================================
