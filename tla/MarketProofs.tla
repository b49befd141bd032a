----------------------------- MODULE MarketProofs -----------------------------
(***************************************************************************)
(* Market.tla for any number of users, listings, bids and prices, with     *)
(* locks that hold or lapse and players banned or not.                     *)
(*                                                                         *)
(* Coins are conserved whatever the locks do: every commit moves what it   *)
(* takes. That an auction goes to the highest bid and that frozen coins    *)
(* are active bids needs the lock: a commit trusts what was read when the  *)
(* request entered. So the invariant says, while locks hold, that a        *)
(* request is alone on its listing, that the listing is open and that the  *)
(* highest bid is the one it read; and of each listing that it has at most *)
(* one active bid, above all the others, and none once it is closed.       *)
(*                                                                         *)
(* And the unique items that are sold, bartered and given away (Instances  *)
(* .tla), for any number of players, items and offers: an item's row, its  *)
(* entries and the claims on it agree. One operator says what a move does  *)
(* to rows and history (GoesTo) and one lemma that both go on fitting; the *)
(* invariant adds that a check made under the one lock there is stays good *)
(* until its transaction, so that nothing moves that was burned meanwhile. *)
(*                                                                         *)
(* And what keeps trade in bounds (Risk.tla). Gifts, sales and barter are  *)
(* under different locks, so that a check may not hold any more when its   *)
(* handler posts; but then the item has just come to somebody else, and    *)
(* stays with him until that handler is done.                              *)
(***************************************************************************)
EXTENDS Market, Instances, Risk, SumProofs, SequenceTheorems, TLAPS

ActiveBids == {n \in DOMAIN bids : bids[n].status = "active"}

\* What a request checked and read and nobody can change: bids keep their price
\* and their listing.
Checked(r) ==
  /\ r.top # 0 => r.top \in DOMAIN bids /\ bids[r.top].listing = r.listing
  /\ r.op = "bid" => r.listing \in Auctions /\ r.price \in 1 .. MaxPrice /\ Above(r.price, r.top)
  /\ r.op = "buy" => r.listing \notin Auctions
  /\ r.op = "settle" => r.top # 0

AllChecked == IsFiniteSet(inside) /\ \A r \in inside : Checked(r)

\* Only an auction has bids.
BidsOnAuctions == \A n \in DOMAIN bids : bids[n].listing \in Auctions

\* What it read and only the lock keeps as it is.
ReadsHold ==
  LocksHold =>
    \A r \in inside : /\ status[r.listing] = "listed" /\ r.top = TopOf(r.listing)
                      /\ \A q \in inside : q.listing = r.listing => q = r

\* The bids of one listing: at most one is active, and while the listing is
\* open it is the highest; a closed listing has none; a sold auction went to
\* the highest.
Won(l, n) ==
  /\ bids[n].listing = l /\ bids[n].status = "won" /\ item[l] = bids[n].user
  /\ \A k \in DOMAIN bids : bids[k].listing = l => bids[k].price <= bids[n].price

ListingHolds(l) ==
  /\ \A m, n \in Active(l) : m = n
  /\ status[l] = "listed" =>
       \A k \in DOMAIN bids : bids[k].listing = l => \E n \in Active(l) : bids[k].price <= bids[n].price
  /\ status[l] # "listed" => Active(l) = {}
  /\ l \in Auctions /\ status[l] = "sold" => \E n \in DOMAIN bids : Won(l, n)

BoardHolds == LocksHold => \A l \in Listings : ListingHolds(l)

IInv == TypeOK /\ AllChecked /\ BidsOnAuctions /\ ReadsHold /\ BoardHolds /\ FrozenIsActiveBids /\ MoneyConserved

-----------------------------------------------------------------------------
(* Refunds. *)

\* Refund, of the bids in b.
RefundIn(b, B, u) == SumFunction([n \in B |-> IF b[n].user = u THEN b[n].price ELSE 0])

\* The rows are numbered and finitely many, and prices are natural numbers.
LEMMA BidsAreFinite ==
  ASSUME NEW b \in Seq(Bid)
  PROVE  /\ DOMAIN b = 1 .. Len(b) /\ Len(b) \in Nat
         /\ \A n \in DOMAIN b : b[n] \in Bid /\ b[n].price \in Nat
         /\ \A B \in SUBSET DOMAIN b : IsFiniteSet(B)
<1>1. DOMAIN b = 1 .. Len(b) /\ Len(b) \in Nat /\ \A n \in DOMAIN b : b[n] \in Bid
  OBVIOUS
<1>2. IsFiniteSet(DOMAIN b)
  BY <1>1, FS_Interval
<1>3. MaxPrice \in Nat
  BY MarketAssumption
<1>4. \A x \in Bid : x.price \in Nat
  BY <1>3 DEF Bid
<1> QED  BY <1>1, <1>2, <1>4, FS_Subset

\* A refund is an amount.
LEMMA RefundIsNat ==
  ASSUME NEW b \in Seq(Bid), NEW B \in SUBSET DOMAIN b, NEW u
  PROVE  RefundIn(b, B, u) \in Nat
<1> DEFINE f == [n \in B |-> IF b[n].user = u THEN b[n].price ELSE 0]
<1>1. \A n \in B : f[n] \in Nat
  BY BidsAreFinite
<1>2. SumFunction(f) = Sum(f, B)
  BY SumOfFunction
<1>3. Sum(f, B) \in Nat
  <2>1. IsFiniteSet(B)
    BY BidsAreFinite
  <2> HIDE DEF f
  <2> QED  BY <1>1, <2>1, SumNat
<1> QED  BY <1>2, <1>3 DEF RefundIn

\* The refund of some bids and of the others.
LEMMA RefundIsSplit ==
  ASSUME NEW b \in Seq(Bid), NEW A \in SUBSET DOMAIN b, NEW B \in SUBSET A, NEW u
  PROVE  RefundIn(b, A, u) = RefundIn(b, B, u) + RefundIn(b, A \ B, u)
<1> DEFINE f == [n \in A |-> IF b[n].user = u THEN b[n].price ELSE 0]
           g == [n \in B |-> IF b[n].user = u THEN b[n].price ELSE 0]
           h == [n \in A \ B |-> IF b[n].user = u THEN b[n].price ELSE 0]
<1>1. SumFunction(f) = Sum(f, A) /\ SumFunction(g) = Sum(g, B) /\ SumFunction(h) = Sum(h, A \ B)
  BY SumOfFunction
<1>2. IsFiniteSet(A) /\ IsFiniteSet(B) /\ IsFiniteSet(A \ B)
  BY BidsAreFinite
<1>3. \A n \in A : f[n] \in Int
  BY BidsAreFinite
<1>4. (\A n \in B : g[n] = f[n]) /\ (\A n \in A \ B : h[n] = f[n])
  OBVIOUS
<1> HIDE DEF f, g, h
<1>5. Sum(f, A) = Sum(f, B) + Sum(f, A \ B)
  BY <1>2, <1>3, SumSplit
<1>6. Sum(g, B) = Sum(f, B) /\ Sum(h, A \ B) = Sum(f, A \ B)
  BY <1>2, <1>4, SumSame
<1> QED  BY <1>1, <1>5, <1>6 DEF RefundIn, f, g, h

\* Only the bidder and the price count.
LEMMA RefundIsSame ==
  ASSUME NEW b, NEW c, NEW B, IsFiniteSet(B), NEW u,
         \A n \in B : b[n].user = c[n].user /\ b[n].price = c[n].price
  PROVE  RefundIn(b, B, u) = RefundIn(c, B, u)
<1>1. [n \in B |-> IF b[n].user = u THEN b[n].price ELSE 0] = [n \in B |-> IF c[n].user = u THEN c[n].price ELSE 0]
  OBVIOUS
<1> QED  BY <1>1 DEF RefundIn

\* The refund of no bid and of one.
LEMMA RefundOfNone ==
  ASSUME NEW b, NEW u
  PROVE  RefundIn(b, {}, u) = 0
<1> DEFINE f == [n \in {} |-> IF b[n].user = u THEN b[n].price ELSE 0]
<1>1. SumFunction(f) = Sum(f, {})
  BY SumOfFunction
<1>2. Sum(f, {}) = 0
  <2> HIDE DEF f
  <2> QED  BY SumEmpty
<1> QED  BY <1>1, <1>2 DEF RefundIn

\* One bid gives its price back to its bidder.
LEMMA RefundOfOne ==
  ASSUME NEW b \in Seq(Bid), NEW n \in DOMAIN b, NEW u
  PROVE  RefundIn(b, {n}, u) = IF b[n].user = u THEN b[n].price ELSE 0
<1> DEFINE c == IF b[n].user = u THEN b[n].price ELSE 0
           f == [m \in {n} |-> IF b[m].user = u THEN b[m].price ELSE 0]
<1>1. SumFunction(f) = Sum(f, {n}) /\ IsFiniteSet({n})
  BY SumOfFunction, FS_Singleton
<1>2. c \in Int
  BY BidsAreFinite
<1>3. \A y \in {n} : f[y] = IF y = n THEN c ELSE 0
  OBVIOUS
<1>4. Sum(f, {n}) = c
  <2> HIDE DEF f, c
  <2> QED  BY <1>1, <1>2, <1>3, SumPoint
<1> QED  BY <1>1, <1>4 DEF RefundIn

-----------------------------------------------------------------------------
(* The highest bid. *)

\* The highest bid is an active one: there is a highest price, and a first bid of it.
LEMMA TopIsActive ==
  ASSUME TypeOK, NEW l \in Listings, Active(l) # {}
  PROVE  TopOf(l) \in Active(l)
<1> DEFINE A == Active(l)
           P == {MaxPrice - bids[n].price : n \in A}
<1>1. A \subseteq DOMAIN bids /\ \A n \in A : n \in Nat /\ bids[n].price \in 1 .. MaxPrice
  <2>1. A \subseteq DOMAIN bids
    BY DEF Active
  <2>2. \A n \in DOMAIN bids : n \in Nat /\ bids[n] \in Bid
    BY BidsAreFinite DEF TypeOK
  <2>3. \A x \in Bid : x.price \in 1 .. MaxPrice
    BY DEF Bid
  <2> QED  BY <2>1, <2>2, <2>3
<1>2. P \in SUBSET Nat /\ P # {}
  <2>1. \A n \in A : MaxPrice - bids[n].price \in Nat
    BY <1>1, MarketAssumption
  <2> HIDE DEF A
  <2> QED  BY <2>1 DEF A
<1>3. PICK p \in P : \A x \in P : p <= x
  <2> HIDE DEF P
  <2> QED  BY <1>2, LeastNatural
<1>4. PICK m \in A : p = MaxPrice - bids[m].price
  OBVIOUS
<1>5. \A n \in A : bids[n].price <= bids[m].price
  <2> SUFFICES ASSUME NEW n \in A PROVE bids[n].price <= bids[m].price
    OBVIOUS
  <2>1. MaxPrice - bids[m].price <= MaxPrice - bids[n].price
    BY <1>3, <1>4
  <2>2. bids[n].price \in Int /\ bids[m].price \in Int /\ MaxPrice \in Int
    BY <1>1, MarketAssumption
  <2> QED  BY <2>1, <2>2
<1> DEFINE N == {n \in A : bids[n].price = bids[m].price}
<1>6. N \in SUBSET Nat /\ N # {}
  BY <1>1
<1>7. PICK n \in N : \A k \in N : n <= k
  <2> HIDE DEF N
  <2> QED  BY <1>6, LeastNatural
<1>8. \A k \in A : bids[k].price < bids[n].price \/ (bids[k].price = bids[n].price /\ n <= k)
  <2> SUFFICES ASSUME NEW k \in A PROVE bids[k].price < bids[n].price \/ (bids[k].price = bids[n].price /\ n <= k)
    OBVIOUS
  <2>1. bids[k].price <= bids[n].price /\ bids[k].price \in Int /\ bids[n].price \in Int
    BY <1>1, <1>5, <1>7
  <2>2. CASE bids[k].price = bids[n].price
    BY <1>7, <2>2
  <2> QED  BY <2>1, <2>2
<1>9. \E i \in Active(l) : \A k \in Active(l) : bids[k].price < bids[i].price \/ (bids[k].price = bids[i].price /\ i <= k)
  BY <1>7, <1>8
<1> QED  BY <1>9 DEF TopOf

\* Of no active bid, and of the only one.
LEMMA TopOfFew ==
  ASSUME TypeOK, NEW l \in Listings, \A m, n \in Active(l) : m = n
  PROVE  IF TopOf(l) = 0 THEN Active(l) = {} ELSE Active(l) = {TopOf(l)}
<1>1. CASE Active(l) = {}
  BY <1>1 DEF TopOf
<1>2. CASE Active(l) # {}
  <2>1. TopOf(l) \in Active(l)
    BY <1>2, TopIsActive
  <2>2. TopOf(l) # 0
    BY <2>1, BidsAreFinite DEF Active, TypeOK
  <2> QED  BY <2>1, <2>2
<1> QED  BY <1>1, <1>2

\* Sellers are users, and the fee is a part of the price.
LEMMA SellersAreUsers == \A l \in Listings : SellerOf[l] \in Users
<1>1. SellerOf \in [Listings -> Users]
  BY MarketAssumption
<1> QED  BY <1>1

\* The fee is a part of the price: feeBps is a rate out of 10000.
LEMMA FeeIsPart ==
  ASSUME NEW p \in Nat
  PROVE  Fee(p) \in 0 .. p
<1>1. FeeBps \in 0 .. 10000
  BY MarketAssumption, SMTT(30)
<1>2. p * FeeBps \in Nat
  BY <1>1
<1>3. p * FeeBps <= p * 10000
  BY <1>1
<1> DEFINE x == p * FeeBps
<1>4. x \div 10000 \in 0 .. p
  <2> HIDE DEF x
  <2> QED  BY <1>2, <1>3 DEF x
<1> QED  BY <1>4 DEF Fee

-----------------------------------------------------------------------------
(* The rows of bids. *)

\* Bids are added, and of the old ones nothing but the status changes.
Kept ==
  /\ bids' \in Seq(Bid) /\ DOMAIN bids \subseteq DOMAIN bids'
  /\ \A n \in DOMAIN bids : /\ bids'[n].listing = bids[n].listing /\ bids'[n].user = bids[n].user
                            /\ bids'[n].price = bids[n].price

\* Marking changes the status of the bids in B and nothing else.
LEMMA MarkedIs ==
  ASSUME TypeOK, NEW B \in SUBSET DOMAIN bids, NEW st \in {"outbid", "cancelled", "won"}
  PROVE  /\ Marked(B, st) \in Seq(Bid) /\ DOMAIN Marked(B, st) = DOMAIN bids
         /\ \A n \in DOMAIN bids : /\ Marked(B, st)[n].listing = bids[n].listing
                                   /\ Marked(B, st)[n].user = bids[n].user
                                   /\ Marked(B, st)[n].price = bids[n].price
                                   /\ Marked(B, st)[n].status = IF n \in B THEN st ELSE bids[n].status
<1> DEFINE b == Marked(B, st)
<1>1. DOMAIN bids = 1 .. Len(bids) /\ Len(bids) \in Nat /\ \A n \in DOMAIN bids : bids[n] \in Bid
  BY BidsAreFinite DEF TypeOK
<1>2. ASSUME NEW n \in DOMAIN bids
      PROVE  /\ b[n] \in Bid /\ b[n].listing = bids[n].listing /\ b[n].user = bids[n].user
             /\ b[n].price = bids[n].price /\ b[n].status = IF n \in B THEN st ELSE bids[n].status
  <2>1. b[n] = IF n \in B THEN [bids[n] EXCEPT !.status = st] ELSE bids[n]
    BY DEF Marked
  <2>2. bids[n] \in Bid
    BY <1>1
  <2> QED  BY <2>1, <2>2 DEF Bid
<1>3. DOMAIN b = 1 .. Len(bids)
  BY <1>1 DEF Marked
<1>4. b \in [1 .. Len(bids) -> Bid]
  <2>1. b = [n \in 1 .. Len(bids) |-> b[n]]
    BY <1>1 DEF Marked
  <2> HIDE DEF b
  <2> QED  BY <1>1, <1>2, <2>1
<1>5. b \in Seq(Bid)
  <2> HIDE DEF b
  <2> QED  BY <1>1, <1>4
<1> QED  BY <1>1, <1>2, <1>3, <1>5

\* What a request checked stays true of the bids it read.
LEMMA KeptKeepsChecks ==
  ASSUME TypeOK, AllChecked, inside' \subseteq inside, Kept
  PROVE  AllChecked'
<1>1. IsFiniteSet(inside')
  BY FS_Subset DEF AllChecked
<1>2. ASSUME NEW r \in inside' PROVE Checked(r)'
  <2>1. Checked(r)
    BY <1>2 DEF AllChecked
  <2>2. r.top # 0 => bids'[r.top].price = bids[r.top].price
    BY <2>1 DEF Checked, Kept
  <2> QED  BY <2>1, <2>2 DEF Checked, Kept, Above
<1> QED  BY <1>1, <1>2 DEF AllChecked

\* Bids C stop being active and bids D become active.
LEMMA FrozenAfter ==
  ASSUME TypeOK, Kept, NEW C \in SUBSET ActiveBids, NEW D \in SUBSET DOMAIN bids', D \cap ActiveBids = {},
         ActiveBids' = (ActiveBids \ C) \cup D, NEW u
  PROVE  RefundIn(bids', ActiveBids', u)
           = RefundIn(bids, ActiveBids, u) - RefundIn(bids, C, u) + RefundIn(bids', D, u)
<1> DEFINE A == ActiveBids
<1>1. A \subseteq DOMAIN bids /\ bids \in Seq(Bid) /\ bids' \in Seq(Bid)
  BY DEF ActiveBids, TypeOK, Kept
<1>2. RefundIn(bids, A, u) = RefundIn(bids, C, u) + RefundIn(bids, A \ C, u)
  <2> HIDE DEF A
  <2>1. C \in SUBSET A
    BY DEF A
  <2> QED  BY <1>1, <2>1, RefundIsSplit
<1>3. RefundIn(bids', A', u) = RefundIn(bids', D, u) + RefundIn(bids', A' \ D, u)
  <2> DEFINE E == A'
  <2>1. E \in SUBSET DOMAIN bids' /\ D \in SUBSET E
    BY DEF ActiveBids
  <2> HIDE DEF E
  <2> QED  BY <1>1, <2>1, RefundIsSplit DEF E
<1>4. A' \ D = A \ C
  OBVIOUS
<1>5. RefundIn(bids', A \ C, u) = RefundIn(bids, A \ C, u)
  <2>1. IsFiniteSet(A \ C)
    BY <1>1, BidsAreFinite
  <2>2. \A n \in A \ C : bids'[n].user = bids[n].user /\ bids'[n].price = bids[n].price
    BY <1>1 DEF Kept
  <2> HIDE DEF A
  <2> QED  BY <2>1, <2>2, RefundIsSame
<1>6. RefundIn(bids, C, u) \in Nat /\ RefundIn(bids, A \ C, u) \in Nat /\ RefundIn(bids', D, u) \in Nat
  <2>1. C \in SUBSET DOMAIN bids /\ A \ C \in SUBSET DOMAIN bids
    BY <1>1
  <2> HIDE DEF A
  <2> QED  BY <1>1, <2>1, RefundIsNat
<1> HIDE DEF A
<1>7. RefundIn(bids', A', u) = RefundIn(bids', D, u) + RefundIn(bids, A \ C, u)
  BY <1>3, <1>4, <1>5 DEF A
<1>8. RefundIn(bids', A', u) = RefundIn(bids, A, u) - RefundIn(bids, C, u) + RefundIn(bids', D, u)
  BY <1>2, <1>6, <1>7
<1> QED  BY <1>8 DEF A

\* Refund is RefundIn of the bids there are.
LEMMA RefundIs ==
  ASSUME NEW B, NEW u
  PROVE  Refund(B, u) = RefundIn(bids, B, u)
BY DEF Refund, RefundIn

-----------------------------------------------------------------------------
(* Coins. *)

\* A step that leaves what each user has, in both columns, and the fees.
LEMMA SameMoney ==
  ASSUME MoneyConserved, fees' = fees, \A u \in Users : wallet'[u] + frozen'[u] = wallet[u] + frozen[u]
  PROVE  MoneyConserved'
<1>1. [u \in Users |-> wallet'[u] + frozen'[u]] = [u \in Users |-> wallet[u] + frozen[u]]
  OBVIOUS
<1> QED  BY <1>1 DEF MoneyConserved

\* A sale: the buyer pays the price, the seller gets it less the fee.
LEMMA SaleMoney ==
  ASSUME TypeOK, MoneyConserved, NEW x \in Users, NEW y \in Users, NEW p \in Nat,
         fees' = fees + Fee(p),
         \A u \in Users : wallet'[u] + frozen'[u]
           = (wallet[u] + frozen[u]) + ((IF u = x THEN p - Fee(p) ELSE 0) + (IF u = y THEN -p ELSE 0))
  PROVE  MoneyConserved'
<1> DEFINE f == [u \in Users |-> wallet[u] + frozen[u]]
           g == [u \in Users |-> wallet'[u] + frozen'[u]]
           c == p - Fee(p)
           d == -p
<1>1. \A u \in Users : f[u] \in Int
  BY DEF TypeOK
<1>2. \A u \in Users : g[u] = f[u] + ((IF u = x THEN c ELSE 0) + (IF u = y THEN d ELSE 0))
  OBVIOUS
<1>3. IsFiniteSet(Users) /\ Fee(p) \in Int /\ fees \in Int
  BY MarketAssumption, FeeIsPart DEF TypeOK
<1>4. c \in Int /\ d \in Int /\ c + d = -Fee(p)
  BY <1>3
<1>5. SumFunction(f) = Sum(f, Users) /\ SumFunction(g) = Sum(g, Users)
  BY SumOfFunction
<1>6. Sum(g, Users) = Sum(f, Users) + (c + d) /\ Sum(f, Users) \in Int
  <2> HIDE DEF f, g, c, d
  <2> QED  BY <1>1, <1>2, <1>3, <1>4, SumMoves, SumInt
<1>7. SumFunction(g) + fees' = SumFunction(f) + fees
  <2> HIDE DEF f, g, c, d
  <2>1. Sum(g, Users) = Sum(f, Users) - Fee(p)
    BY <1>3, <1>4, <1>6
  <2> QED  BY <1>3, <1>5, <1>6, <2>1
<1> QED  BY <1>7 DEF MoneyConserved

-----------------------------------------------------------------------------
(* The lock. *)

\* What a step that is about listing l leaves alone.
Elsewhere(l) ==
  \A k \in Listings \ {l} :
    /\ status'[k] = status[k] /\ item'[k] = item[k]
    /\ \A n : n \in DOMAIN bids' /\ bids'[n].listing = k <=> n \in DOMAIN bids /\ bids[n].listing = k
    /\ \A n \in DOMAIN bids : bids[n].listing = k => bids'[n] = bids[n]

\* The bids of a listing no step is about.
LEMMA SameListing ==
  ASSUME TypeOK, NEW k \in Listings, ListingHolds(k), status'[k] = status[k], item'[k] = item[k],
         \A n : n \in DOMAIN bids' /\ bids'[n].listing = k <=> n \in DOMAIN bids /\ bids[n].listing = k,
         \A n \in DOMAIN bids : bids[n].listing = k => bids'[n] = bids[n]
  PROVE  Active(k)' = Active(k) /\ ListingHolds(k)' /\ TopOf(k)' = TopOf(k)
<1>1. Active(k)' = Active(k)
  BY DEF Active
<1>2. ListingHolds(k)'
  <2>1. (\A m, n \in Active(k) : m = n)'
    BY <1>1 DEF ListingHolds
  <2>2. (status[k] # "listed" => Active(k) = {})'
    BY <1>1 DEF ListingHolds
  <2>3. (status[k] = "listed" =>
           \A j \in DOMAIN bids : bids[j].listing = k => \E n \in Active(k) : bids[j].price <= bids[n].price)'
    BY <1>1 DEF ListingHolds, Active
  <2>4. (k \in Auctions /\ status[k] = "sold" => \E n \in DOMAIN bids : Won(k, n))'
    BY DEF ListingHolds, Won
  <2> QED  BY <2>1, <2>2, <2>3, <2>4 DEF ListingHolds
<1>3. TopOf(k)' = TopOf(k)
  <2>1. CASE Active(k) = {}
    BY <1>1, <2>1 DEF TopOf
  <2>2. CASE Active(k) # {}
    <3>1. PICK n : Active(k) = {n}
      <4>1. \A m, j \in Active(k) : m = j
        BY DEF ListingHolds
      <4>2. PICK n : n \in Active(k)
        BY <2>2
      <4>3. Active(k) = {n}
        BY <4>1, <4>2
      <4> QED  BY <4>3
    <3>2. n \in Nat /\ bids[n].price \in Nat /\ bids'[n] = bids[n]
      BY <3>1, BidsAreFinite DEF Active, TypeOK
    <3> QED  BY <1>1, <3>1, <3>2 DEF TopOf
  <2> QED  BY <2>1, <2>2
<1> QED  BY <1>1, <1>2, <1>3

\* A request in the lock of its listing commits: what the requests of other
\* listings read is as it was, and so is what is said of those listings.
LEMMA Local ==
  ASSUME TypeOK, ReadsHold, BoardHolds, regime' = regime, NEW r \in inside, inside' = inside \ {r},
         Elsewhere(r.listing), LocksHold => ListingHolds(r.listing)'
  PROVE  ReadsHold' /\ BoardHolds'
<1>1. LocksHold' <=> LocksHold
  BY DEF LocksHold
<1> SUFFICES ASSUME LocksHold
             PROVE  /\ \A l \in Listings : ListingHolds(l)'
                    /\ \A q \in inside' : /\ status'[q.listing] = "listed" /\ q.top = TopOf(q.listing)'
                                          /\ \A p \in inside' : p.listing = q.listing => p = q
  BY <1>1 DEF ReadsHold, BoardHolds
<1>2. \A l \in Listings \ {r.listing} :
        ListingHolds(l)' /\ TopOf(l)' = TopOf(l) /\ status'[l] = status[l]
  BY SameListing DEF BoardHolds, Elsewhere
<1>3. \A q \in inside' : q \in inside /\ q.listing \in Listings \ {r.listing}
  BY DEF ReadsHold, TypeOK, Request
<1> QED  BY <1>2, <1>3 DEF ReadsHold

-----------------------------------------------------------------------------
(* Steps that close or open nothing and move no coin. *)

\* A step that touches neither bids, listings nor balances.
LEMMA QuietKeeps ==
  ASSUME IInv, UNCHANGED <<regime, wallet, frozen, fees, status, item, bids, value>>,
         TypeOK', AllChecked',
         LocksHold => \A r \in inside' : /\ status[r.listing] = "listed" /\ r.top = TopOf(r.listing)
                                         /\ \A q \in inside' : q.listing = r.listing => q = r
  PROVE  IInv'
<1>1. /\ LocksHold' <=> LocksHold
      /\ \A l \in Listings : TopOf(l)' = TopOf(l) /\ (ListingHolds(l)' <=> ListingHolds(l))
  BY DEF LocksHold, TopOf, Active, ListingHolds, Won
<1>2. ReadsHold'
  BY <1>1 DEF ReadsHold, TypeOK, Request
<1>3. BoardHolds'
  BY <1>1 DEF BoardHolds, IInv
<1>4. FrozenIsActiveBids' /\ MoneyConserved' /\ BidsOnAuctions'
  BY <1>1 DEF IInv, FrozenIsActiveBids, MoneyConserved, BidsOnAuctions, Refund
<1> QED  BY <1>2, <1>3, <1>4 DEF IInv

\* Entering: the request that enters is alone in its lock, and what it read
\* is what there is.
LEMMA EnterKeeps ==
  ASSUME IInv, NEW op \in {"buy", "bid", "cancel", "settle", "expire"}, NEW l \in Listings, NEW u \in Users,
         NEW price \in Nat, Enter(op, l, u, price),
         op = "bid" => l \in Auctions /\ price \in 1 .. MaxPrice /\ Above(price, TopOf(l)),
         op = "buy" => l \notin Auctions, op = "settle" => TopOf(l) # 0
  PROVE  IInv'
<1> DEFINE e == [op |-> op, listing |-> l, user |-> u, price |-> price, top |-> TopOf(l)]
<1>1. TypeOK /\ AllChecked /\ ReadsHold /\ inside' = inside \cup {e} /\ status[l] = "listed"
      /\ UNCHANGED <<regime, wallet, frozen, fees, status, overdue, item, bids, value, banned>>
  BY DEF IInv, Enter
<1>2. TopOf(l) # 0 => TopOf(l) \in DOMAIN bids /\ bids[TopOf(l)].listing = l
  <2>1. CASE Active(l) = {}
    BY <2>1 DEF TopOf
  <2>2. CASE Active(l) # {}
    BY <1>1, <2>2, TopIsActive DEF Active
  <2> QED  BY <2>1, <2>2
<1>3. TopOf(l) \in Nat
  <2>1. \A n \in DOMAIN bids : n \in Nat
    BY <1>1, BidsAreFinite DEF TypeOK
  <2> QED  BY <1>2, <2>1
<1>4. TypeOK'
  <2>1. e \in Request
    BY <1>3 DEF Request
  <2> HIDE DEF e
  <2> QED  BY <1>1, <2>1 DEF TypeOK
<1>5. AllChecked'
  <2>1. IsFiniteSet(inside')
    <3>1. IsFiniteSet(inside)
      BY <1>1 DEF AllChecked
    <3> HIDE DEF e
    <3> QED  BY <1>1, <3>1, FS_AddElement
  <2>2. \A r \in {e} : Checked(r)'
    BY <1>1, <1>2 DEF Checked, Above
  <2>3. \A r \in inside : Checked(r)'
    BY <1>1 DEF AllChecked, Checked, Above
  <2> HIDE DEF e
  <2> QED  BY <1>1, <2>1, <2>2, <2>3 DEF AllChecked
<1>6. ASSUME LocksHold PROVE \A q \in inside : q.listing # l
  <2> DEFINE Q == {q \in inside : q.listing = l}
  <2>1. IsFiniteSet(Q) /\ Cardinality(Q) < 1
    BY <1>1, <1>6, FS_Subset DEF AllChecked, Enter, LocksHold
  <2>2. Q = {}
    <3> HIDE DEF Q
    <3>1. Cardinality(Q) \in Nat
      BY <2>1, FS_CardinalityType
    <3>2. Cardinality(Q) = 0
      BY <2>1, <3>1
    <3> QED  BY <2>1, <3>2, FS_EmptySet
  <2> QED  BY <2>2
<1>7. LocksHold => \A r \in inside' : /\ status[r.listing] = "listed" /\ r.top = TopOf(r.listing)
                                      /\ \A q \in inside' : q.listing = r.listing => q = r
  BY <1>1, <1>6 DEF ReadsHold
<1> QED  BY <1>1, <1>4, <1>5, <1>7, QuietKeeps

\* A request that throws, a date that passes, a ban.
LEMMA IdleKeeps ==
  ASSUME IInv, inside' \subseteq inside, overdue' \in [Listings -> BOOLEAN], banned' \subseteq Users,
         UNCHANGED <<regime, wallet, frozen, fees, status, item, bids, value>>
  PROVE  IInv'
<1>1. TypeOK'
  BY DEF IInv, TypeOK
<1>2. AllChecked'
  BY KeptKeepsChecks DEF IInv, Kept, TypeOK
<1> QED  BY <1>1, <1>2, QuietKeeps DEF IInv, ReadsHold

-----------------------------------------------------------------------------
(* Refunds in a transaction. *)

\* What Refundable says of refunds as sums.
LEMMA RefundableIs ==
  ASSUME TypeOK, NEW B \in SUBSET DOMAIN bids, Refundable(B), NEW u \in Users
  PROVE  Refund(B, u) \in Nat /\ frozen[u] >= Refund(B, u)
BY RefundIsNat, RefundIs DEF TypeOK, Refundable

\* While locks hold, the highest bid is the only active one, if there is one.
LEMMA OneActive ==
  ASSUME IInv, LocksHold, NEW r \in inside
  PROVE  /\ r.listing \in Listings /\ status[r.listing] = "listed" /\ r.top = TopOf(r.listing)
         /\ IF r.top = 0 THEN Active(r.listing) = {} ELSE Active(r.listing) = {r.top}
<1>1. r.listing \in Listings /\ r.top = TopOf(r.listing) /\ status[r.listing] = "listed"
  BY DEF IInv, ReadsHold, TypeOK, Request
<1>2. \A m, n \in Active(r.listing) : m = n
  BY <1>1 DEF IInv, BoardHolds, ListingHolds
<1> QED  BY <1>1, <1>2, TopOfFew DEF IInv

\* All that a transaction may do to the bids, the listing and the balances of
\* one request, and how it keeps the invariant.
LEMMA CommitKeeps ==
  ASSUME IInv, NEW r \in inside, inside' = inside \ {r}, regime' = regime,
         TypeOK', Kept, BidsOnAuctions', Elsewhere(r.listing), MoneyConserved',
         LocksHold => ListingHolds(r.listing)',
         LocksHold => FrozenIsActiveBids'
  PROVE  IInv'
<1>1. AllChecked'
  BY KeptKeepsChecks DEF IInv
<1>2. ReadsHold' /\ BoardHolds'
  BY Local DEF IInv
<1>3. FrozenIsActiveBids'
  BY DEF FrozenIsActiveBids, LocksHold
<1> QED  BY <1>1, <1>2, <1>3 DEF IInv

-----------------------------------------------------------------------------
(* The transactions. *)

\* bid: the money is frozen, the old highest bid given back, the row written.
LEMMA CommitBidKeeps ==
  ASSUME IInv, NEW r \in inside, CommitBid(r)
  PROVE  IInv'
<1> DEFINE l == r.listing
           B == OutbidSet(r)
           M == Marked(B, "outbid")
           e == [listing |-> l, user |-> r.user, price |-> r.price, status |-> "active"]
           m == Len(bids) + 1
<1>1. /\ TypeOK /\ inside' = inside \ {r} /\ CanPay(r.user, r.price) /\ Refundable(B)
      /\ wallet' = [u \in Users |-> wallet[u] + Refund(B, u) - IF u = r.user THEN r.price ELSE 0]
      /\ frozen' = [u \in Users |-> frozen[u] - Refund(B, u) + IF u = r.user THEN r.price ELSE 0]
      /\ bids' = Append(M, e)
      /\ UNCHANGED <<regime, fees, status, overdue, item, value, banned>>
  BY DEF CommitBid, Leave, IInv
<1>2. /\ r \in Request /\ l \in Auctions /\ l \in Listings /\ r.user \in Users
      /\ r.price \in 1 .. MaxPrice /\ r.price \in Nat
      /\ Above(r.price, r.top) /\ (r.top # 0 => r.top \in DOMAIN bids /\ bids[r.top].listing = l)
  BY DEF IInv, AllChecked, Checked, TypeOK, Request, CommitBid
<1>3. B \in SUBSET DOMAIN bids
  BY <1>2 DEF OutbidSet
<1>4. e \in Bid
  BY <1>2 DEF Bid
<1>5. /\ M \in Seq(Bid) /\ DOMAIN M = DOMAIN bids
      /\ \A n \in DOMAIN bids : /\ M[n].listing = bids[n].listing /\ M[n].user = bids[n].user
                                /\ M[n].price = bids[n].price
                                /\ M[n].status = IF n \in B THEN "outbid" ELSE bids[n].status
  <2> HIDE DEF B
  <2> QED  BY <1>1, <1>3, MarkedIs
<1>6. DOMAIN bids = 1 .. Len(bids) /\ Len(bids) \in Nat
  BY <1>1, BidsAreFinite DEF TypeOK
<1> HIDE DEF B, M, e
<1>7. Len(M) = Len(bids)
  BY <1>5, <1>6
<1>8. /\ bids' \in Seq(Bid) /\ DOMAIN bids' = DOMAIN bids \cup {m} /\ m \notin DOMAIN bids /\ bids'[m] = e
      /\ \A n \in DOMAIN bids : bids'[n] = M[n]
  BY <1>1, <1>4, <1>5, <1>6, <1>7
<1>9. Kept
  BY <1>5, <1>8 DEF Kept
<1>10. TypeOK' /\ MoneyConserved'
  <2>1. \A u \in Users : /\ Refund(B, u) \in Nat /\ frozen[u] >= Refund(B, u)
                         /\ wallet[u] \in Nat /\ frozen[u] \in Nat
    BY <1>1, <1>3, RefundableIs DEF TypeOK
  <2>2. wallet[r.user] >= r.price
    BY <1>1 DEF CanPay
  <2>3. wallet' \in [Users -> Nat] /\ frozen' \in [Users -> Nat]
    BY <1>1, <1>2, <2>1, <2>2, SMTT(30)
  <2>4. \A u \in Users : wallet'[u] + frozen'[u] = wallet[u] + frozen[u]
    BY <1>1, <1>2, <2>1
  <2> QED  BY <1>1, <1>8, <2>3, <2>4, SameMoney DEF TypeOK, IInv
<1>11. BidsOnAuctions'
  BY <1>2, <1>5, <1>8 DEF BidsOnAuctions, IInv, e
<1>12. Elsewhere(l)
  <2> SUFFICES ASSUME NEW k \in Listings \ {l}
               PROVE  /\ \A n : n \in DOMAIN bids' /\ bids'[n].listing = k
                               <=> n \in DOMAIN bids /\ bids[n].listing = k
                      /\ \A n \in DOMAIN bids : bids[n].listing = k => bids'[n] = bids[n]
    BY <1>1 DEF Elsewhere
  <2>1. \A n : n \in DOMAIN bids' /\ bids'[n].listing = k <=> n \in DOMAIN bids /\ bids[n].listing = k
    BY <1>5, <1>8 DEF e
  <2>2. ASSUME NEW n \in DOMAIN bids, bids[n].listing = k PROVE bids'[n] = bids[n]
    <3>1. n \notin B
      BY <1>2, <2>2 DEF B, OutbidSet
    <3> QED  BY <1>8, <3>1 DEF M, Marked
  <2> QED  BY <2>1, <2>2
<1>13. ASSUME LocksHold PROVE Active(l)' = {m} /\ B \subseteq Active(l) /\ Active(l) \subseteq B
  <2>1. IF r.top = 0 THEN Active(l) = {} ELSE Active(l) = {r.top}
    BY <1>13, OneActive
  <2>2. Active(l) = B
    BY <2>1 DEF B, OutbidSet
  <2>3. \A n \in DOMAIN bids : ~(bids'[n].listing = l /\ bids'[n].status = "active")
    BY <1>5, <1>8, <2>2 DEF Active
  <2> QED  BY <1>8, <2>2, <2>3 DEF Active, e
<1>14. ASSUME LocksHold PROVE ListingHolds(l)'
  <2>1. status[l] = "listed"
    BY <1>13, <1>14, OneActive
  <2>2. \A k \in DOMAIN bids : bids[k].listing = l => bids[k].price <= r.price
    <3> SUFFICES ASSUME NEW k \in DOMAIN bids, bids[k].listing = l PROVE bids[k].price <= r.price
      OBVIOUS
    <3>1. PICK n \in Active(l) : bids[k].price <= bids[n].price
      BY <1>2, <1>14, <2>1 DEF IInv, BoardHolds, ListingHolds
    <3>2. n = r.top /\ r.top # 0
      BY <1>13, <1>14, <3>1 DEF B, OutbidSet
    <3>3. bids[k].price \in Nat /\ bids[n].price \in Nat
      BY <1>1, <1>2, <3>2, BidsAreFinite DEF TypeOK
    <3> QED  BY <1>2, <3>1, <3>2, <3>3 DEF Above
  <2>3. \A k \in DOMAIN bids' : bids'[k].listing = l => bids'[k].price <= bids'[m].price
    BY <1>2, <1>5, <1>8, <2>2 DEF e
  <2> QED  BY <1>1, <1>13, <1>14, <2>1, <2>3 DEF ListingHolds
<1>15. ASSUME LocksHold PROVE FrozenIsActiveBids'
  <2>1. B \in SUBSET ActiveBids /\ ActiveBids' = (ActiveBids \ B) \cup {m} /\ {m} \cap ActiveBids = {}
    BY <1>5, <1>8, <1>13, <1>15 DEF ActiveBids, Active, e
  <2> SUFFICES ASSUME NEW u \in Users PROVE frozen'[u] = RefundIn(bids', ActiveBids', u)
    BY RefundIs DEF FrozenIsActiveBids, ActiveBids, RefundIn, Refund
  <2>2. RefundIn(bids', ActiveBids', u)
          = RefundIn(bids, ActiveBids, u) - RefundIn(bids, B, u) + RefundIn(bids', {m}, u)
    <3> SUFFICES ASSUME NEW D, D = {m}
                 PROVE  RefundIn(bids', ActiveBids', u)
                          = RefundIn(bids, ActiveBids, u) - RefundIn(bids, B, u) + RefundIn(bids', D, u)
      OBVIOUS
    <3>1. D \in SUBSET DOMAIN bids' /\ ActiveBids' = (ActiveBids \ B) \cup D /\ D \cap ActiveBids = {}
      BY <1>8, <2>1
    <3>2. B \in SUBSET ActiveBids /\ TypeOK
      BY <1>1, <2>1
    <3> HIDE DEF m
    <3> QED  BY <1>9, <3>1, <3>2, FrozenAfter
  <2>3. RefundIn(bids', {m}, u) = IF r.user = u THEN r.price ELSE 0
    BY <1>8, RefundOfOne DEF e
  <2>4. frozen[u] = RefundIn(bids, ActiveBids, u)
    BY <1>15, RefundIs DEF IInv, FrozenIsActiveBids, ActiveBids
  <2>5. frozen'[u] = frozen[u] - RefundIn(bids, B, u) + IF u = r.user THEN r.price ELSE 0
    BY <1>1, RefundIs
  <2> QED  BY <2>2, <2>3, <2>4, <2>5
<1> QED  BY <1>1, <1>9, <1>10, <1>11, <1>12, <1>14, <1>15, CommitKeeps DEF IInv

\* buyNow: no bid is touched, and there is none on a listing with a price.
LEMMA CommitBuyKeeps ==
  ASSUME IInv, NEW r \in inside, CommitBuy(r)
  PROVE  IInv'
<1> DEFINE l == r.listing
           s == SellerOf[l]
<1>1. /\ TypeOK /\ inside' = inside \ {r} /\ CanPay(r.user, r.price) /\ r.op = "buy"
      /\ wallet' = [u \in Users |-> wallet[u] + Gain(l, u, r.price) - IF u = r.user THEN r.price ELSE 0]
      /\ status' = [status EXCEPT ![l] = "sold"] /\ item' = [item EXCEPT ![l] = r.user]
      /\ value' = [value EXCEPT ![r.user] = @ + r.price] /\ fees' = fees + Fee(r.price)
      /\ UNCHANGED <<regime, frozen, overdue, bids, banned>>
  BY DEF CommitBuy, Leave, Sold, IInv
<1>2. r \in Request /\ l \in Listings /\ r.user \in Users /\ r.price \in Nat /\ s \in Users /\ l \notin Auctions
  <2>1. r \in Request /\ l \notin Auctions
    BY <1>1 DEF IInv, AllChecked, Checked, TypeOK
  <2>2. l \in Listings /\ r.user \in Users /\ r.price \in Nat
    BY <2>1 DEF Request
  <2> QED  BY <2>1, <2>2, SellersAreUsers
<1>3. Fee(r.price) \in Nat /\ Fee(r.price) <= r.price
  BY <1>2, FeeIsPart
<1>4. Kept /\ BidsOnAuctions'
  BY <1>1 DEF Kept, TypeOK, BidsOnAuctions, IInv
<1>5. TypeOK'
  <2>1. wallet' \in [Users -> Nat]
    <3>1. \A u \in Users : Gain(l, u, r.price) \in Nat /\ wallet[u] \in Nat
      BY <1>1, <1>2, <1>3 DEF TypeOK, Gain
    <3> QED  BY <1>1, <1>2, <3>1 DEF CanPay
  <2>2. value' \in [Users -> Nat] /\ item' \in [Listings -> Users \cup {Nobody}] /\ fees' \in Nat
        /\ status' \in [Listings -> {"listed", "sold", "cancelled", "expired"}]
    BY <1>1, <1>2, <1>3, SMTT(30) DEF TypeOK
  <2> QED  BY <1>1, <2>1, <2>2 DEF TypeOK
<1>6. MoneyConserved'
  <2>1. \A u \in Users : wallet'[u] + frozen'[u]
          = (wallet[u] + frozen[u]) + ((IF u = s THEN r.price - Fee(r.price) ELSE 0) + (IF u = r.user THEN -r.price ELSE 0))
    <3> SUFFICES ASSUME NEW u \in Users
                 PROVE  wallet'[u] + frozen'[u]
          = (wallet[u] + frozen[u]) + ((IF u = s THEN r.price - Fee(r.price) ELSE 0) + (IF u = r.user THEN -r.price ELSE 0))
      OBVIOUS
    <3>1. wallet'[u] = wallet[u] + (IF u = s THEN r.price - Fee(r.price) ELSE 0) - IF u = r.user THEN r.price ELSE 0
      BY <1>1 DEF Gain
    <3>2. frozen'[u] = frozen[u] /\ wallet[u] \in Nat /\ frozen[u] \in Nat
      BY <1>1 DEF TypeOK
    <3> QED  BY <1>2, <1>3, <3>1, <3>2
  <2> HIDE DEF s
  <2> QED  BY <1>1, <1>2, <2>1, SaleMoney DEF IInv
<1>7. Elsewhere(l)
  BY <1>1, <1>2 DEF Elsewhere, TypeOK
<1>8. ASSUME LocksHold PROVE ListingHolds(l)'
  <2>1. Active(l) = {} /\ Active(l)' = {}
    BY <1>1, <1>2 DEF Active, BidsOnAuctions, IInv
  <2>2. status'[l] = "sold"
    BY <1>1, <1>2 DEF TypeOK
  <2> QED  BY <1>2, <2>1, <2>2 DEF ListingHolds
<1>9. LocksHold => FrozenIsActiveBids'
  BY <1>1 DEF IInv, FrozenIsActiveBids, Refund, LocksHold
<1> QED  BY <1>1, <1>4, <1>5, <1>6, <1>7, <1>8, <1>9, CommitKeeps

\* unwind: every active bid of the listing is given back.
LEMMA CommitUnwindKeeps ==
  ASSUME IInv, NEW r \in inside, CommitUnwind(r)
  PROVE  IInv'
<1> DEFINE l == r.listing
           B == Active(l)
           end == IF r.op = "cancel" THEN "cancelled" ELSE "expired"
<1>1. /\ TypeOK /\ inside' = inside \ {r} /\ Refundable(B)
      /\ status' = [status EXCEPT ![l] = end] /\ item' = [item EXCEPT ![l] = SellerOf[l]]
      /\ wallet' = [u \in Users |-> wallet[u] + Refund(B, u)]
      /\ frozen' = [u \in Users |-> frozen[u] - Refund(B, u)]
      /\ bids' = Marked(B, "cancelled")
      /\ UNCHANGED <<regime, fees, overdue, value, banned>>
  BY DEF CommitUnwind, Leave, OpenBids, IInv
<1>2. r \in Request /\ l \in Listings /\ SellerOf[l] \in Users
  <2>1. r \in Request
    BY DEF IInv, TypeOK
  <2>2. l \in Listings
    BY <2>1 DEF Request
  <2> QED  BY <2>1, <2>2, SellersAreUsers
<1>3. B \in SUBSET DOMAIN bids
  BY DEF Active
<1>4. /\ bids' \in Seq(Bid) /\ DOMAIN bids' = DOMAIN bids
      /\ \A n \in DOMAIN bids : /\ bids'[n].listing = bids[n].listing /\ bids'[n].user = bids[n].user
                                /\ bids'[n].price = bids[n].price
                                /\ bids'[n].status = IF n \in B THEN "cancelled" ELSE bids[n].status
  <2> HIDE DEF B
  <2> QED  BY <1>1, <1>3, MarkedIs
<1>5. Kept /\ BidsOnAuctions'
  BY <1>4 DEF Kept, BidsOnAuctions, IInv
<1>6. TypeOK' /\ MoneyConserved'
  <2> HIDE DEF B
  <2>1. \A u \in Users : /\ Refund(B, u) \in Nat /\ frozen[u] >= Refund(B, u)
                         /\ wallet[u] \in Nat /\ frozen[u] \in Nat
    BY <1>1, <1>3, RefundableIs DEF TypeOK
  <2>2. wallet' \in [Users -> Nat] /\ frozen' \in [Users -> Nat]
    BY <1>1, <2>1
  <2>3. \A u \in Users : wallet'[u] + frozen'[u] = wallet[u] + frozen[u]
    BY <1>1, <2>1
  <2>4. status' \in [Listings -> {"listed", "sold", "cancelled", "expired"}]
        /\ item' \in [Listings -> Users \cup {Nobody}]
    BY <1>1, <1>2 DEF TypeOK
  <2> QED  BY <1>1, <1>4, <2>2, <2>3, <2>4, SameMoney DEF TypeOK, IInv
<1>7. Elsewhere(l)
  <2>1. \A k \in Listings \ {l} : status'[k] = status[k] /\ item'[k] = item[k]
    BY <1>1, <1>2 DEF TypeOK
  <2>2. \A n \in DOMAIN bids : bids[n].listing # l => bids'[n] = bids[n]
    BY <1>1 DEF Active, Marked
  <2> QED  BY <1>4, <2>1, <2>2 DEF Elsewhere
<1>8. ASSUME LocksHold PROVE ListingHolds(l)'
  <2>1. Active(l)' = {}
    BY <1>4 DEF Active
  <2>2. status'[l] = end
    BY <1>1, <1>2 DEF TypeOK
  <2> QED  BY <2>1, <2>2 DEF ListingHolds
<1>9. ASSUME LocksHold PROVE FrozenIsActiveBids'
  <2>1. B \in SUBSET ActiveBids /\ ActiveBids' = (ActiveBids \ B) \cup {}
    BY <1>4 DEF ActiveBids, Active
  <2> SUFFICES ASSUME NEW u \in Users PROVE frozen'[u] = RefundIn(bids', ActiveBids', u)
    BY RefundIs DEF FrozenIsActiveBids, ActiveBids, RefundIn, Refund
  <2> HIDE DEF B
  <2>2. RefundIn(bids', ActiveBids', u)
          = RefundIn(bids, ActiveBids, u) - RefundIn(bids, B, u) + RefundIn(bids', {}, u)
    BY <1>1, <1>5, <2>1, FrozenAfter, SMTT(30)
  <2>3. RefundIn(bids', {}, u) = 0
    BY RefundOfNone
  <2>4. frozen[u] = RefundIn(bids, ActiveBids, u)
    BY <1>9, RefundIs DEF IInv, FrozenIsActiveBids, ActiveBids
  <2>5. frozen'[u] = frozen[u] - RefundIn(bids, B, u)
    BY <1>1, RefundIs
  <2>6. RefundIn(bids, B, u) \in Nat /\ frozen[u] \in Nat
    BY <1>1, <1>3, RefundIsNat DEF TypeOK
  <2> QED  BY <2>2, <2>3, <2>4, <2>5, <2>6
<1> QED  BY <1>1, <1>5, <1>6, <1>7, <1>8, <1>9, CommitKeeps

\* settleTrade of an auction: the winner pays out of what is frozen.
LEMMA CommitSettleKeeps ==
  ASSUME IInv, NEW r \in inside, CommitSettle(r)
  PROVE  IInv'
<1> DEFINE l == r.listing
           s == SellerOf[l]
           t == r.top
           x == bids[t].user
           p == bids[t].price
           B == Losers(r)
           M == Marked(B, "cancelled")
<1>1. /\ TypeOK /\ inside' = inside \ {r} /\ Refundable(B) /\ r.op = "settle"
      /\ frozen[x] >= p + Refund(B, x)
      /\ frozen' = [u \in Users |-> frozen[u] - Refund(B, u) - IF u = x THEN p ELSE 0]
      /\ wallet' = [u \in Users |-> wallet[u] + Refund(B, u) + Gain(l, u, p)]
      /\ bids' = [M EXCEPT ![t].status = "won"]
      /\ status[l] = "listed" /\ status' = [status EXCEPT ![l] = "sold"] /\ item' = [item EXCEPT ![l] = x]
      /\ value' = [value EXCEPT ![x] = @ + p] /\ fees' = fees + Fee(p)
      /\ UNCHANGED <<regime, overdue, banned>>
  BY DEF CommitSettle, Leave, Sold, IInv
<1>2. /\ r \in Request /\ l \in Listings /\ s \in Users
      /\ t # 0 /\ t \in DOMAIN bids /\ bids[t].listing = l
  <2>1. r \in Request
    BY DEF IInv, TypeOK
  <2>2. t # 0 /\ t \in DOMAIN bids /\ bids[t].listing = l
    BY <1>1 DEF IInv, AllChecked, Checked
  <2>3. l \in Listings
    BY <2>1 DEF Request
  <2> QED  BY <2>1, <2>2, <2>3, SellersAreUsers
<1>3. x \in Users /\ p \in Nat /\ bids[t] \in Bid
  <2>1. bids[t] \in Bid /\ p \in Nat
    BY <1>1, <1>2, BidsAreFinite DEF TypeOK
  <2> QED  BY <2>1 DEF Bid
<1>4. B \in SUBSET DOMAIN bids /\ t \notin B
  BY DEF Losers, Active
<1>5. /\ M \in Seq(Bid) /\ DOMAIN M = DOMAIN bids
      /\ \A n \in DOMAIN bids : /\ M[n].listing = bids[n].listing /\ M[n].user = bids[n].user
                                /\ M[n].price = bids[n].price
                                /\ M[n].status = IF n \in B THEN "cancelled" ELSE bids[n].status
  <2> HIDE DEF B
  <2> QED  BY <1>1, <1>4, MarkedIs
<1> HIDE DEF M
<1>6. /\ bids' \in Seq(Bid) /\ DOMAIN bids' = DOMAIN bids
      /\ \A n \in DOMAIN bids : n # t => bids'[n] = M[n]
      /\ bids'[t] = [M[t] EXCEPT !.status = "won"]
  <2>1. bids' = [M EXCEPT ![t] = [M[t] EXCEPT !.status = "won"]]
    BY <1>1
  <2>2. M[t] \in Bid
    BY <1>2, <1>5, BidsAreFinite
  <2>3. [M[t] EXCEPT !.status = "won"] \in Bid
    BY <2>2 DEF Bid
  <2>4. bids' \in Seq(Bid) /\ DOMAIN bids' = DOMAIN M
    <3> DEFINE w == [M[t] EXCEPT !.status = "won"]
    <3>1. bids' = [M EXCEPT ![t] = w] /\ w \in Bid /\ t \in DOMAIN M
      BY <1>2, <1>5, <2>1, <2>3
    <3> HIDE DEF w, t
    <3> QED  BY <1>5, <3>1
  <2> QED  BY <1>2, <1>5, <2>1, <2>4
<1>7. \A n \in DOMAIN bids :
        /\ bids'[n].listing = bids[n].listing /\ bids'[n].user = bids[n].user /\ bids'[n].price = bids[n].price
        /\ bids'[n].status = IF n = t THEN "won" ELSE IF n \in B THEN "cancelled" ELSE bids[n].status
  <2>1. M[t] \in Bid
    BY <1>2, <1>5, BidsAreFinite
  <2>2. bids'[t].listing = M[t].listing /\ bids'[t].user = M[t].user /\ bids'[t].price = M[t].price
        /\ bids'[t].status = "won"
    BY <1>6, <2>1 DEF Bid
  <2> QED  BY <1>2, <1>5, <1>6, <2>2, ZenonT(60)
<1>8. Kept /\ BidsOnAuctions'
  BY <1>6, <1>7 DEF Kept, BidsOnAuctions, IInv
<1>9. Fee(p) \in Nat /\ Fee(p) <= p
  BY <1>3, FeeIsPart
<1>10. \A u \in Users : /\ Refund(B, u) \in Nat /\ frozen[u] >= Refund(B, u)
                        /\ wallet[u] \in Nat /\ frozen[u] \in Nat
  <2> HIDE DEF B
  <2> QED  BY <1>1, <1>4, RefundableIs DEF TypeOK
<1>11. TypeOK'
  <2> HIDE DEF B, p, x
  <2>1. \A u \in Users : Gain(l, u, p) \in Nat
    BY <1>3, <1>9 DEF Gain
  <2>2. wallet' \in [Users -> Nat] /\ frozen' \in [Users -> Nat]
    BY <1>1, <1>3, <1>10, <2>1
  <2>3. value' \in [Users -> Nat] /\ item' \in [Listings -> Users \cup {Nobody}] /\ fees' \in Nat
        /\ status' \in [Listings -> {"listed", "sold", "cancelled", "expired"}]
    BY <1>1, <1>2, <1>3, <1>9, SMTT(30) DEF TypeOK
  <2> QED  BY <1>1, <1>6, <2>2, <2>3 DEF TypeOK
<1>12. MoneyConserved'
  <2> HIDE DEF B, p, x, s
  <2>1. \A u \in Users : wallet'[u] + frozen'[u]
          = (wallet[u] + frozen[u]) + ((IF u = s THEN p - Fee(p) ELSE 0) + (IF u = x THEN -p ELSE 0))
    <3> SUFFICES ASSUME NEW u \in Users
                 PROVE  wallet'[u] + frozen'[u]
          = (wallet[u] + frozen[u]) + ((IF u = s THEN p - Fee(p) ELSE 0) + (IF u = x THEN -p ELSE 0))
      OBVIOUS
    <3>1. /\ wallet'[u] = wallet[u] + Refund(B, u) + (IF u = s THEN p - Fee(p) ELSE 0)
          /\ frozen'[u] = frozen[u] - Refund(B, u) - IF u = x THEN p ELSE 0
      BY <1>1 DEF Gain, s
    <3> QED  BY <1>3, <1>9, <1>10, <3>1
  <2> QED  BY <1>1, <1>2, <1>3, <2>1, SaleMoney DEF IInv
<1>13. Elsewhere(l)
  <2>1. \A k \in Listings \ {l} : status'[k] = status[k] /\ item'[k] = item[k]
    BY <1>1, <1>2 DEF TypeOK
  <2>2. ASSUME NEW n \in DOMAIN bids, bids[n].listing # l PROVE bids'[n] = bids[n]
    <3>1. n # t /\ n \notin B
      BY <1>2, <2>2 DEF Losers, Active
    <3> QED  BY <1>6, <3>1 DEF M, Marked
  <2> QED  BY <1>6, <1>7, <2>1, <2>2 DEF Elsewhere
<1>14. ASSUME LocksHold PROVE Active(l) = {t}
  BY <1>2, <1>14, OneActive
<1>15. ASSUME LocksHold PROVE ListingHolds(l)'
  <2>1. Active(l)' = {}
    BY <1>6, <1>7, <1>14, <1>15 DEF Active
  <2>2. status'[l] = "sold" /\ item'[l] = x
    BY <1>1, <1>2 DEF TypeOK
  <2>3. \A k \in DOMAIN bids : bids[k].listing = l => bids[k].price <= p
    BY <1>1, <1>2, <1>14, <1>15 DEF IInv, BoardHolds, ListingHolds
  <2>4. Won(l, t)'
    BY <1>2, <1>6, <1>7, <2>2, <2>3 DEF Won
  <2> QED  BY <1>2, <1>6, <2>1, <2>2, <2>4 DEF ListingHolds
<1>16. ASSUME LocksHold PROVE FrozenIsActiveBids'
  <2>1. B = {}
    BY <1>14, <1>16 DEF Losers
  <2>2. {t} \in SUBSET ActiveBids /\ ActiveBids' = (ActiveBids \ {t}) \cup {}
    BY <1>2, <1>6, <1>7, <1>14, <1>16, <2>1 DEF ActiveBids, Active
  <2> SUFFICES ASSUME NEW u \in Users PROVE frozen'[u] = RefundIn(bids', ActiveBids', u)
    BY RefundIs DEF FrozenIsActiveBids, ActiveBids, RefundIn, Refund
  <2>3. RefundIn(bids', ActiveBids', u)
          = RefundIn(bids, ActiveBids, u) - RefundIn(bids, {t}, u) + RefundIn(bids', {}, u)
    <3> SUFFICES ASSUME NEW C, C = {t}
                 PROVE  RefundIn(bids', ActiveBids', u)
                          = RefundIn(bids, ActiveBids, u) - RefundIn(bids, C, u) + RefundIn(bids', {}, u)
      OBVIOUS
    <3>1. C \in SUBSET ActiveBids /\ ActiveBids' = (ActiveBids \ C) \cup {} /\ TypeOK /\ Kept
      BY <1>1, <1>8, <2>2
    <3> HIDE DEF B, p, x, t, l, s
    <3> QED  BY <3>1, FrozenAfter
  <2>4. RefundIn(bids, {t}, u) = IF x = u THEN p ELSE 0
    BY <1>1, <1>2, RefundOfOne DEF TypeOK
  <2>5. RefundIn(bids', {}, u) = 0 /\ Refund(B, u) = 0
    BY <2>1, RefundOfNone, RefundIs
  <2>6. frozen[u] = RefundIn(bids, ActiveBids, u)
    BY <1>16, RefundIs DEF IInv, FrozenIsActiveBids, ActiveBids
  <2> HIDE DEF B, p, x
  <2>7. frozen'[u] = frozen[u] - 0 - IF u = x THEN p ELSE 0
    BY <1>1, <2>5
  <2> QED  BY <1>3, <1>10, <2>3, <2>4, <2>5, <2>6, <2>7
<1> QED  BY <1>1, <1>8, <1>11, <1>12, <1>13, <1>15, <1>16, CommitKeeps

-----------------------------------------------------------------------------
(* The invariant. *)

\* Every listing is open and there is no bid.
LEMMA InitHolds == Init => IInv
<1> SUFFICES ASSUME Init PROVE IInv
  OBVIOUS
<1>1. Money \in Nat /\ bids = <<>> /\ inside = {} /\ IsFiniteSet(Users)
  BY MarketAssumption DEF Init
<1>2. TypeOK
  <2>1. bids \in Seq(Bid)
    BY <1>1
  <2> QED  BY <1>1, <2>1 DEF Init, TypeOK
<1>3. AllChecked /\ ReadsHold /\ BidsOnAuctions
  BY <1>1, FS_EmptySet DEF AllChecked, ReadsHold, BidsOnAuctions
<1>4. BoardHolds
  BY <1>1 DEF Init, BoardHolds, ListingHolds, Active
<1>5. FrozenIsActiveBids
  <2>1. {n \in DOMAIN bids : bids[n].status = "active"} = {}
    BY <1>1
  <2>2. \A u \in Users : Refund({}, u) = 0
    BY RefundOfNone, RefundIs
  <2> QED  BY <2>1, <2>2 DEF Init, FrozenIsActiveBids
<1>6. MoneyConserved
  <2> DEFINE f == [u \in Users |-> wallet[u] + frozen[u]]
  <2>1. \A u \in Users : f[u] = Money
    BY <1>1 DEF Init
  <2>2. SumFunction(f) = Sum(f, Users)
    BY SumOfFunction
  <2>3. Sum(f, Users) = Money * Cardinality(Users)
    <3> HIDE DEF f
    <3> QED  BY <1>1, <2>1, SumConst
  <2>4. Money * Cardinality(Users) \in Nat
    BY <1>1, FS_CardinalityType
  <2> QED  BY <2>2, <2>3, <2>4 DEF MoneyConserved, Init
<1> QED  BY <1>2, <1>3, <1>4, <1>5, <1>6 DEF IInv

\* Every step keeps the invariant.
LEMMA NextKeeps == IInv /\ [Next]_vars => IInv'
<1> SUFFICES ASSUME IInv, [Next]_vars PROVE IInv'
  OBVIOUS
<1>0. TypeOK /\ AllChecked
  BY DEF IInv
<1>1. \A l \in Listings : AskOf[l] \in Nat
  <2>1. AskOf \in [Listings -> Nat]
    BY MarketAssumption
  <2> QED  BY <2>1
<1>2. ASSUME NEW l \in Listings, NEW u \in Users, EnterBuy(u, l) PROVE IInv'
  BY <1>1, <1>2, EnterKeeps DEF EnterBuy
<1>3. ASSUME NEW l \in Listings, NEW u \in Users, EnterCancel(u, l) PROVE IInv'
  BY <1>3, EnterKeeps DEF EnterCancel
<1>4. ASSUME NEW l \in Listings, NEW u \in Users, NEW p \in 1 .. MaxPrice, EnterBid(u, l, p) PROVE IInv'
  <2>1. p \in Nat
    OBVIOUS
  <2> QED  BY <1>4, <2>1, EnterKeeps DEF EnterBid
<1>5. ASSUME NEW l \in Listings, EnterForceCancel(l) PROVE IInv'
  BY <1>5, EnterKeeps, SellersAreUsers DEF EnterForceCancel
<1>6. ASSUME NEW l \in Listings, EnterExpired(l) PROVE IInv'
  BY <1>6, EnterKeeps, SellersAreUsers DEF EnterExpired
<1>7. ASSUME NEW l \in Listings, Expires(l) PROVE IInv'
  BY <1>0, <1>7, IdleKeeps DEF Expires, TypeOK
<1>8. ASSUME NEW r \in inside, Fail(r) PROVE IInv'
  BY <1>0, <1>8, IdleKeeps DEF Fail, Leave, TypeOK
<1>9. ASSUME NEW u \in Users, Ban(u) PROVE IInv'
  BY <1>0, <1>9, IdleKeeps DEF Ban, TypeOK
<1>10. CASE UNCHANGED vars
  BY <1>0, <1>10, IdleKeeps DEF vars, TypeOK
<1> QED  BY <1>2, <1>3, <1>4, <1>5, <1>6, <1>7, <1>8, <1>9, <1>10,
            CommitBidKeeps, CommitBuyKeeps, CommitSettleKeeps, CommitUnwindKeeps DEF Next

\* So it always holds.
LEMMA Invariance == Spec => []IInv
<1> QED  BY InitHolds, NextKeeps, PTL DEF Spec

\* The rows keep their types, and a request its listing.
THEOREM TypeCorrect == Spec => []TypeOK
<1>1. IInv => TypeOK
  BY DEF IInv
<1> QED  BY <1>1, Invariance, PTL

\* While locks hold, no bid is left behind when its listing closes, and an
\* auction goes to the highest of all the bids it took (market.service.ts:562-564).
THEOREM BidsEndAsTheyShould == Spec => []BidsEndRight
<1>1. IInv => BidsEndRight
  <2> SUFFICES ASSUME IInv, LocksHold PROVE NoBidOutlivesListing /\ HighestBidWins
    BY DEF BidsEndRight, NoBidOutlivesListing, HighestBidWins
  <2>1. \A l \in Listings : ListingHolds(l)
    BY DEF IInv, BoardHolds
  <2>2. \A n \in DOMAIN bids : bids[n].listing \in Auctions /\ bids[n].listing \in Listings
    <3>1. Auctions \subseteq Listings
      BY MarketAssumption
    <3> QED  BY <3>1 DEF IInv, BidsOnAuctions
  <2>3. NoBidOutlivesListing
    BY <2>1, <2>2 DEF ListingHolds, Active, NoBidOutlivesListing
  <2>4. HighestBidWins
    <3>1. ASSUME NEW l \in Auctions, status[l] = "sold" PROVE \E n \in DOMAIN bids : Won(l, n)
      <4>1. l \in Listings
        BY MarketAssumption
      <4> QED  BY <2>1, <3>1, <4>1 DEF ListingHolds
    <3> QED  BY <3>1 DEF Won, HighestBidWins
  <2> QED  BY <2>3, <2>4
<1> QED  BY <1>1, Invariance, PTL

\* No coin is made or lost, whatever the locks do; and while they hold, what
\* is frozen is the active bids (trade-settlement.service.ts:45, 153-154).
THEOREM MoneyIsAccounted == Spec => []MoneyAccounted
<1>1. IInv => MoneyAccounted
  BY DEF IInv, MoneyAccounted
<1> QED  BY <1>1, Invariance, PTL

-----------------------------------------------------------------------------
(* The items of the market and of barter. *)

Holders == Accounts \cup {NoOne}
Entry   == Items \X Holders \X Holders

\* The entries of an item, and what they add up to, in any history.
EntriesIn(s, i)  == {n \in DOMAIN s : s[n][1] = i}
GainsIn(s, i)    == {n \in EntriesIn(s, i) : s[n][3] # NoOne}
LossesIn(s, i)   == {n \in EntriesIn(s, i) : s[n][2] # NoOne}
NetIn(s, i)      == Cardinality(GainsIn(s, i)) - Cardinality(LossesIn(s, i))
LastGain(u, s, i) == \E n \in GainsIn(s, i) : s[n][3] = u /\ \A k \in GainsIn(s, i) : k <= n

One(x) == IF x # NoOne THEN 1 ELSE 0

\* Of a history and the one that is an entry longer: the sets of the one and the other.
LEMMA LongerSets ==
  ASSUME NEW s \in Seq(Entry), NEW e \in Entry, NEW i
  PROVE  /\ \A n \in DOMAIN s : n \in DOMAIN Append(s, e) /\ Append(s, e)[n] = s[n]
         /\ DOMAIN Append(s, e) = DOMAIN s \cup {Len(s) + 1} /\ Append(s, e)[Len(s) + 1] = e
         /\ Len(s) + 1 \notin DOMAIN s /\ IsFiniteSet(DOMAIN s)
         /\ EntriesIn(Append(s, e), i) = EntriesIn(s, i) \cup (IF e[1] = i THEN {Len(s) + 1} ELSE {})
         /\ GainsIn(Append(s, e), i) =
              GainsIn(s, i) \cup (IF e[1] = i /\ e[3] # NoOne THEN {Len(s) + 1} ELSE {})
         /\ LossesIn(Append(s, e), i) =
              LossesIn(s, i) \cup (IF e[1] = i /\ e[2] # NoOne THEN {Len(s) + 1} ELSE {})
<1> DEFINE t == Append(s, e)
<1>1. Len(s) \in Nat /\ DOMAIN s = 1 .. Len(s)
  BY LenProperties
<1>2. t \in Seq(Entry) /\ Len(t) = Len(s) + 1 /\ t[Len(s) + 1] = e /\ \A n \in 1 .. Len(s) : t[n] = s[n]
  BY AppendProperties
<1>3. DOMAIN t = 1 .. Len(s) + 1
  BY <1>2, LenProperties
<1> HIDE DEF t
<1>4. DOMAIN t = DOMAIN s \cup {Len(s) + 1} /\ Len(s) + 1 \notin DOMAIN s
  BY <1>1, <1>3
<1>5. IsFiniteSet(DOMAIN s)
  BY <1>1, FS_Interval
<1>6. EntriesIn(t, i) = EntriesIn(s, i) \cup (IF e[1] = i THEN {Len(s) + 1} ELSE {})
  BY <1>1, <1>2, <1>4 DEF EntriesIn
<1>7. GainsIn(t, i) = GainsIn(s, i) \cup (IF e[1] = i /\ e[3] # NoOne THEN {Len(s) + 1} ELSE {})
  BY <1>1, <1>2, <1>4 DEF EntriesIn, GainsIn
<1>8. LossesIn(t, i) = LossesIn(s, i) \cup (IF e[1] = i /\ e[2] # NoOne THEN {Len(s) + 1} ELSE {})
  BY <1>1, <1>2, <1>4 DEF EntriesIn, LossesIn
<1> QED  BY <1>1, <1>2, <1>4, <1>5, <1>6, <1>7, <1>8 DEF t

\* What an entry adds, and who is the last to have gained.
LEMMA OneEntryMore ==
  ASSUME NEW s \in Seq(Entry), NEW e \in Entry, NEW i
  PROVE  /\ NetIn(s, i) \in Int
         /\ e[1] # i => NetIn(Append(s, e), i) = NetIn(s, i)
         /\ e[1] = i => NetIn(Append(s, e), i) = NetIn(s, i) + One(e[3]) - One(e[2])
         /\ e[1] # i /\ EntriesIn(s, i) = {} => EntriesIn(Append(s, e), i) = {}
         /\ e[1] = i /\ e[3] # NoOne => LastGain(e[3], Append(s, e), i)
         /\ \A u : (e[1] # i \/ e[3] = NoOne) /\ LastGain(u, s, i) => LastGain(u, Append(s, e), i)
<1> DEFINE t == Append(s, e)
           m == Len(s) + 1
<1>1. Len(s) \in Nat /\ DOMAIN s = 1 .. Len(s)
  BY LenProperties
<1>2. /\ \A n \in DOMAIN s : n \in DOMAIN t /\ t[n] = s[n]
      /\ t[m] = e /\ m \notin DOMAIN s /\ IsFiniteSet(DOMAIN s)
      /\ EntriesIn(t, i) = EntriesIn(s, i) \cup (IF e[1] = i THEN {m} ELSE {})
      /\ GainsIn(t, i) = GainsIn(s, i) \cup (IF e[1] = i /\ e[3] # NoOne THEN {m} ELSE {})
      /\ LossesIn(t, i) = LossesIn(s, i) \cup (IF e[1] = i /\ e[2] # NoOne THEN {m} ELSE {})
  BY LongerSets
<1>3. \A n \in DOMAIN s : n \in Nat /\ n <= m
  BY <1>1
<1> HIDE DEF t, m
<1>4. /\ GainsIn(s, i) \subseteq DOMAIN s /\ LossesIn(s, i) \subseteq DOMAIN s
      /\ IsFiniteSet(GainsIn(s, i)) /\ IsFiniteSet(LossesIn(s, i))
      /\ Cardinality(GainsIn(s, i)) \in Nat /\ Cardinality(LossesIn(s, i)) \in Nat
  <2>1. GainsIn(s, i) \subseteq DOMAIN s /\ LossesIn(s, i) \subseteq DOMAIN s
    BY DEF GainsIn, LossesIn, EntriesIn
  <2> QED  BY <1>2, <2>1, FS_Subset, FS_CardinalityType
<1>5. Cardinality(GainsIn(t, i)) = Cardinality(GainsIn(s, i)) + (IF e[1] = i THEN One(e[3]) ELSE 0)
  <2>1. CASE e[1] = i /\ e[3] # NoOne
    <3>1. GainsIn(t, i) = GainsIn(s, i) \cup {m} /\ m \notin GainsIn(s, i)
      BY <1>2, <1>4, <2>1
    <3> QED  BY <1>4, <2>1, <3>1, FS_AddElement DEF One
  <2>2. CASE ~(e[1] = i /\ e[3] # NoOne)
    <3>1. GainsIn(t, i) = GainsIn(s, i)
      BY <1>2, <2>2
    <3> QED  BY <1>4, <2>2, <3>1 DEF One
  <2> QED  BY <2>1, <2>2
<1>6. Cardinality(LossesIn(t, i)) = Cardinality(LossesIn(s, i)) + (IF e[1] = i THEN One(e[2]) ELSE 0)
  <2>1. CASE e[1] = i /\ e[2] # NoOne
    <3>1. LossesIn(t, i) = LossesIn(s, i) \cup {m} /\ m \notin LossesIn(s, i)
      BY <1>2, <1>4, <2>1
    <3> QED  BY <1>4, <2>1, <3>1, FS_AddElement DEF One
  <2>2. CASE ~(e[1] = i /\ e[2] # NoOne)
    <3>1. LossesIn(t, i) = LossesIn(s, i)
      BY <1>2, <2>2
    <3> QED  BY <1>4, <2>2, <3>1 DEF One
  <2> QED  BY <2>1, <2>2
<1>7. /\ NetIn(s, i) \in Int
      /\ e[1] # i => NetIn(t, i) = NetIn(s, i)
      /\ e[1] = i => NetIn(t, i) = NetIn(s, i) + One(e[3]) - One(e[2])
  BY <1>4, <1>5, <1>6 DEF NetIn, One
<1>8. e[1] # i /\ EntriesIn(s, i) = {} => EntriesIn(t, i) = {}
  BY <1>2
<1>9. e[1] = i /\ e[3] # NoOne => LastGain(e[3], t, i)
  <2> SUFFICES ASSUME e[1] = i, e[3] # NoOne PROVE LastGain(e[3], t, i)
    OBVIOUS
  <2>1. GainsIn(t, i) = GainsIn(s, i) \cup {m}
    BY <1>2
  <2>2. \A k \in GainsIn(t, i) : k <= m
    BY <1>1, <1>3, <1>4, <2>1 DEF m
  <2>3. t[m][3] = e[3]
    BY <1>2
  <2> QED  BY <2>1, <2>2, <2>3 DEF LastGain
<1>10. ASSUME NEW u, e[1] # i \/ e[3] = NoOne, LastGain(u, s, i) PROVE LastGain(u, t, i)
  <2>1. GainsIn(t, i) = GainsIn(s, i)
    BY <1>2, <1>10
  <2>2. \A n \in GainsIn(s, i) : t[n] = s[n]
    BY <1>2, <1>4
  <2> QED  BY <1>10, <2>1, <2>2 DEF LastGain
<1> QED  BY <1>7, <1>8, <1>9, <1>10 DEF t

-----------------------------------------------------------------------------
Returns   == {"cancel", "reject", "expire"}
OfferRows == [from : Players \cup {NoOne}, to : Players \cup {NoOne},
              give : Items \cup {NoOne}, want : Items \cup {NoOne},
              status : {"none", "pending", "accepted"} \cup Returns,
              posted : SUBSET (Returns \cup {"settle"})]

ItemShapes ==
  /\ owner \in [Items -> Holders] /\ state \in [Items -> States]
  /\ entries \in Seq(Entry)
  /\ listings \subseteq Items \X Players
  /\ offer \in [Offers -> OfferRows]
  /\ toReverse \subseteq DOMAIN entries /\ ops \in Switches

\* An offer that was made is between players, about items.
IsMade(o) == /\ offer[o].from \in Players /\ offer[o].to \in Players
             /\ offer[o].give \in Items /\ offer[o].want \in Items

IsKnown(r) ==
  /\ r.op \in (PetOps \cup TradeOps) \cap ops /\ r.user \in Players /\ r.item \in Items
  /\ r.op = "gift" => r.arg \in Players
  /\ r.op = "offer" => r.arg[1] \in Offers /\ r.arg[2] \in Players /\ r.arg[3] \in Items
  /\ r.op \in {"accept"} \cup Returns => r.arg \in Offers /\ IsMade(r.arg)

\* Requests and offers are about what there is; what is to be reversed was a move.
AllKnown ==
  /\ \A r \in pending : IsKnown(r)
  /\ \A o \in Offers : offer[o].status # "none" => IsMade(o)
  /\ \A n \in toReverse : entries[n][2] # NoOne /\ entries[n][3] # NoOne /\ "reverse" \in ops

\* Where offers are switched off there is none, and nobody answers one.
NoBarter ==
  "offer" \notin ops =>
    /\ \A o \in Offers : offer[o].status = "none"
    /\ \A r \in pending : r.op \in PetOps

\* The row of an item, its holder u and its state x, is what its last entry made it.
Fits(u, x, s, i) ==
  IF x = "unminted" THEN u = NoOne /\ EntriesIn(s, i) = {} ELSE u \in Accounts /\ LastGain(u, s, i)

OnFile(i) == Fits(owner[i], state[i], entries, i)

Worth(x)   == IF x \in {"unminted", "burned"} THEN 0 ELSE 1
Counted(i) == NetIn(entries, i) = Worth(state[i])

\* Where items are recycled under the one lock there is, a check stays good to the end,
\* and what is burned stays with a player.
Guarded ==
  /\ \A r \in pending : r.op \in PetOps /\ Held(r.user, r.item)
  /\ \A q, r \in pending : q.user = r.user => q = r
  /\ \A i \in Items : state[i] = "burned" => owner[i] \in Players

\* On the market alone.
ListedIsInEscrow ==
  /\ \A l, m \in listings : l[1] = m[1] => l = m
  /\ \A i \in Items : owner[i] = Escrow <=> \E l \in listings : l[1] = i

ItemInv ==
  /\ ItemShapes /\ AllKnown /\ NoBarter
  /\ \A i \in Items : OnFile(i)
  /\ OneLock => \A i \in Items : Counted(i)
  /\ "recycle" \notin ops => \A i \in Items : state[i] # "burned"
  /\ OneLock /\ "recycle" \in ops => Guarded
  /\ EscrowIsMarked
  /\ ops \cap {"offer", "reverse"} = {} => ListedIsInEscrow

LEMMA ItemsStart == ItemsInit => ItemInv
<1> SUFFICES ASSUME ItemsInit PROVE ItemInv
  OBVIOUS
<1>0. entries = <<>> /\ entries \in Seq(Entry) /\ DOMAIN entries = {}
  BY EmptySeq DEF ItemsInit
<1>1. NoOffer \in OfferRows
  BY DEF NoOffer, OfferRows
<1>2. ItemShapes
  BY <1>0, <1>1 DEF ItemsInit, ItemShapes, Holders, States
<1>3. AllKnown /\ NoBarter /\ Guarded
  BY <1>0 DEF ItemsInit, AllKnown, NoBarter, Guarded, NoOffer
<1>4. \A i \in Items : EntriesIn(entries, i) = {} /\ GainsIn(entries, i) = {} /\ LossesIn(entries, i) = {}
  BY <1>0 DEF EntriesIn, GainsIn, LossesIn
<1>5. \A i \in Items : OnFile(i)
  BY <1>4 DEF OnFile, Fits, ItemsInit
<1>6. \A i \in Items : Counted(i)
  <2>1. Cardinality({}) = 0
    BY FS_EmptySet
  <2> SUFFICES ASSUME NEW i \in Items PROVE NetIn(entries, i) = Worth(state[i])
    BY DEF Counted
  <2>2. state[i] = "unminted"
    BY DEF ItemsInit
  <2> QED  BY <1>4, <2>1, <2>2 DEF NetIn, Worth
<1>7. EscrowIsMarked /\ ListedIsInEscrow
  BY InstancesAssumption DEF EscrowIsMarked, ListedIsInEscrow, ItemsInit, Accounts
<1>8. \A i \in Items : state[i] # "burned"
  BY DEF ItemsInit
<1> QED  BY <1>2, <1>3, <1>5, <1>6, <1>7, <1>8 DEF ItemInv

\* An item goes from one account to another; what the rows and the history are before and after.
GoesTo(ow, sx, en, i, from, to, st, ow2, sx2, en2) ==
  /\ ow \in [Items -> Holders] /\ sx \in [Items -> States] /\ en \in Seq(Entry)
  /\ i \in Items /\ from \in Accounts /\ to \in Accounts /\ st \in {"held", "listed", "escrowed"}
  /\ ow[i] = from /\ ow2 = [ow EXCEPT ![i] = to] /\ sx2 = [sx EXCEPT ![i] = st]
  /\ en2 = en \o << <<i, from, to>> >>

AllFit(ow, sx, en)  == \A k \in Items : Fits(ow[k], sx[k], en, k)
AllCounted(sx, en) == \A k \in Items : NetIn(en, k) = Worth(sx[k])

\* The row, its entries and their sum go on fitting.
LEMMA ItemGoes ==
  ASSUME NEW ow, NEW sx, NEW en, NEW i, NEW from, NEW to, NEW st, NEW ow2, NEW sx2, NEW en2,
         GoesTo(ow, sx, en, i, from, to, st, ow2, sx2, en2), AllFit(ow, sx, en)
  PROVE  /\ ow2 \in [Items -> Holders] /\ sx2 \in [Items -> States] /\ en2 \in Seq(Entry)
         /\ \A n \in DOMAIN en : n \in DOMAIN en2 /\ en2[n] = en[n]
         /\ \A k \in Items : ow2[k] = IF k = i THEN to ELSE ow[k]
         /\ \A k \in Items : sx2[k] = IF k = i THEN st ELSE sx[k]
         /\ AllFit(ow2, sx2, en2)
         /\ sx[i] # "burned" /\ AllCounted(sx, en) => AllCounted(sx2, en2)
<1> USE DEF GoesTo
<1> DEFINE e == <<i, from, to>>
<1>0. e \in Entry /\ e[1] = i /\ e[2] = from /\ e[3] = to /\ from # NoOne /\ to # NoOne
  BY InstancesAssumption DEF Entry, Holders
<1>1. en2 = Append(en, e) /\ en \in Seq(Entry)
  BY <1>0, AppendIsConcat
<1> HIDE DEF e
<1>2. /\ ow2 \in [Items -> Holders] /\ sx2 \in [Items -> States]
      /\ \A k \in Items : ow2[k] = IF k = i THEN to ELSE ow[k]
      /\ \A k \in Items : sx2[k] = IF k = i THEN st ELSE sx[k]
  <2>1. ow2 \in [Items -> Holders] /\ \A k \in Items : ow2[k] = IF k = i THEN to ELSE ow[k]
    BY DEF Holders
  <2>2. sx2 \in [Items -> States] /\ \A k \in Items : sx2[k] = IF k = i THEN st ELSE sx[k]
    BY DEF States
  <2> QED  BY <2>1, <2>2
<1>3. en2 \in Seq(Entry)
  <2>1. ASSUME NEW s \in Seq(Entry) PROVE Append(s, e) \in Seq(Entry)
    BY <1>0, AppendProperties
  <2> QED  BY <1>1, <2>1
<1>4. \A n \in DOMAIN en : n \in DOMAIN en2 /\ en2[n] = en[n]
  BY <1>0, <1>1, LongerSets
<1>5. ASSUME NEW k \in Items PROVE Fits(ow2[k], sx2[k], en2, k)
  <2>1. CASE k = i
    <3>1. LastGain(to, en2, i)
      BY <1>0, <1>1, OneEntryMore
    <3> QED  BY <1>2, <2>1, <3>1 DEF Fits
  <2>2. CASE k # i
    <3>1. /\ EntriesIn(en, k) = {} => EntriesIn(en2, k) = {}
          /\ \A u : LastGain(u, en, k) => LastGain(u, en2, k)
      BY <1>0, <1>1, <2>2, OneEntryMore
    <3> QED  BY <1>2, <2>2, <3>1 DEF Fits, AllFit
  <2> QED  BY <2>1, <2>2
<1>6. ASSUME sx[i] # "burned", \A k \in Items : NetIn(en, k) = Worth(sx[k]), NEW k \in Items
      PROVE  NetIn(en2, k) = Worth(sx2[k])
  <2>1. CASE k = i
    <3>1. NetIn(Append(en, e), i) = NetIn(en, i) + One(e[3]) - One(e[2])
      BY <1>0, OneEntryMore
    <3>2. sx[i] # "unminted"
      BY <1>0 DEF Fits, AllFit
    <3>3. NetIn(en, i) = 1
      BY <1>6, <3>2 DEF Worth
    <3>4. One(e[3]) = 1 /\ One(e[2]) = 1
      BY <1>0 DEF One
    <3>5. NetIn(Append(en, e), i) = 1
      BY <3>1, <3>3, <3>4
    <3>6. sx2[k] \in {"held", "listed", "escrowed"}
      BY <1>2, <2>1
    <3>7. Worth(sx2[k]) = 1
      BY <3>6 DEF Worth
    <3> QED  BY <1>1, <2>1, <3>5, <3>7, Zenon
  <2>2. CASE k # i
    <3>1. NetIn(Append(en, e), k) = NetIn(en, k)
      BY <1>0, <2>2, OneEntryMore
    <3> QED  BY <1>1, <1>2, <1>6, <2>2, <3>1
  <2> QED  BY <2>1, <2>2
<1> QED  BY <1>2, <1>3, <1>4, <1>5, <1>6 DEF AllFit, AllCounted

-----------------------------------------------------------------------------
\* Where the requests, the offers and the entries to be reversed stay known.
LEMMA StillKnown ==
  ASSUME AllKnown, NoBarter, UNCHANGED ops, pending' \subseteq pending, toReverse' \subseteq toReverse,
         \A n \in toReverse : entries'[n] = entries[n],
         \A o \in Offers : IsMade(o) => IsMade(o)',
         \A o \in Offers : offer'[o].status # "none" => IsMade(o)' /\ "offer" \in ops
  PROVE  AllKnown' /\ NoBarter'
<1>1. \A r \in pending' : IsKnown(r)'
  BY DEF AllKnown, IsKnown
<1>2. \A o \in Offers : offer'[o].status # "none" => IsMade(o)'
  OBVIOUS
<1>3. \A n \in toReverse' : entries'[n][2] # NoOne /\ entries'[n][3] # NoOne /\ "reverse" \in ops'
  BY DEF AllKnown
<1>4. NoBarter'
  BY DEF NoBarter
<1> QED  BY <1>1, <1>2, <1>3, <1>4 DEF AllKnown

\* One item goes from hand to hand.
Goes(i, from, to, st) ==
  /\ i \in Items /\ from \in Accounts /\ to \in Accounts /\ st \in {"held", "listed", "escrowed"}
  /\ Move(i, from, to, st)

LEMMA GoesKeeps ==
  ASSUME ItemInv, NEW i, NEW from, NEW to, NEW st, Goes(i, from, to, st),
         UNCHANGED ops, pending' \subseteq pending, toReverse' \subseteq toReverse,
         listings' \subseteq Items \X Players, offer' \in [Offers -> OfferRows],
         \A o \in Offers : IsMade(o) => IsMade(o)',
         \A o \in Offers : offer'[o].status # "none" => IsMade(o)' /\ "offer" \in ops,
         "reverse" \in ops \/ (to = Escrow <=> st # "held"),
         OneLock /\ "recycle" \in ops => state[i] # "burned" /\ \A q \in pending' : q.item # i,
         ops \cap {"offer", "reverse"} = {} => ListedIsInEscrow'
  PROVE  ItemInv'
<1>0. /\ ItemShapes /\ AllKnown /\ NoBarter /\ EscrowIsMarked
      /\ AllFit(owner, state, entries)
  BY DEF ItemInv, OnFile, AllFit
<1>1. GoesTo(owner, state, entries, i, from, to, st, owner', state', entries') /\ i \in Items
  BY <1>0 DEF Goes, Move, Log, GoesTo, ItemShapes
<1>2. /\ owner' \in [Items -> Holders] /\ state' \in [Items -> States] /\ entries' \in Seq(Entry)
      /\ \A n \in DOMAIN entries : n \in DOMAIN entries' /\ entries'[n] = entries[n]
      /\ \A k \in Items : owner'[k] = IF k = i THEN to ELSE owner[k]
      /\ \A k \in Items : state'[k] = IF k = i THEN st ELSE state[k]
      /\ AllFit(owner', state', entries')
      /\ state[i] # "burned" /\ AllCounted(state, entries) => AllCounted(state', entries')
  BY <1>0, <1>1, ItemGoes
<1>3. ItemShapes'
  BY <1>0, <1>2 DEF ItemShapes
<1>4. AllKnown' /\ NoBarter'
  BY <1>0, <1>2, StillKnown DEF ItemShapes
<1>5. \A k \in Items : OnFile(k)'
  BY <1>2 DEF OnFile, AllFit
<1>6. "recycle" \notin ops => \A k \in Items : state[k] # "burned" /\ state'[k] # "burned"
  BY <1>1, <1>2 DEF ItemInv, GoesTo
<1>7. OneLock => \A k \in Items : Counted(k)'
  BY <1>1, <1>2, <1>6 DEF ItemInv, Counted, AllCounted
<1>8. EscrowIsMarked'
  BY <1>0, <1>1, <1>2 DEF EscrowIsMarked, GoesTo
<1>9. OneLock /\ "recycle" \in ops => Guarded'
  <2> SUFFICES ASSUME OneLock, "recycle" \in ops PROVE Guarded'
    OBVIOUS
  <2>1. Guarded /\ \A q \in pending' : q.item # i /\ q \in pending
    BY DEF ItemInv
  <2>2. \A r \in pending' : r.item \in Items
    BY <1>0, <2>1 DEF AllKnown, IsKnown
  <2>3. \A r \in pending' : r.op \in PetOps /\ Held(r.user, r.item)'
    BY <1>2, <2>1, <2>2 DEF Guarded, Held
  <2>4. \A k \in Items : state'[k] = "burned" => owner'[k] \in Players
    BY <1>1, <1>2, <2>1 DEF Guarded, GoesTo
  <2> QED  BY <2>1, <2>3, <2>4 DEF Guarded
<1>10. OneLock' <=> OneLock
  BY DEF OneLock
<1> QED  BY <1>3, <1>4, <1>5, <1>6, <1>7, <1>8, <1>9, <1>10 DEF ItemInv

\* An item is minted.
LEMMA MintKeeps ==
  ASSUME ItemInv, NEW i \in Items, NEW u \in Players, Mint(i, u)
  PROVE  ItemInv'
<1> DEFINE e == <<i, NoOne, u>>
<1>0. /\ ItemShapes /\ AllKnown /\ NoBarter /\ EscrowIsMarked
      /\ AllFit(owner, state, entries)
  BY DEF ItemInv, OnFile, AllFit
<1>1. /\ owner \in [Items -> Holders] /\ state \in [Items -> States] /\ entries \in Seq(Entry)
      /\ owner' = [owner EXCEPT ![i] = u] /\ state' = [state EXCEPT ![i] = "held"]
      /\ state[i] = "unminted" /\ entries' = entries \o << e >>
      /\ UNCHANGED <<listings, offer, pending, toReverse, reversed, ops>>
  BY <1>0 DEF Mint, Log, ItemShapes
<1>2. u \in Accounts /\ u # Escrow /\ u # NoOne /\ u \in Holders /\ NoOne \in Holders /\ Escrow # NoOne
  BY InstancesAssumption DEF Accounts, Holders
<1>3. e \in Entry /\ e[1] = i /\ e[2] = NoOne /\ e[3] = u
  BY <1>2 DEF Entry
<1> HIDE DEF e
<1>4. entries' = Append(entries, e)
  BY <1>1, <1>3, AppendIsConcat
<1>5. /\ owner' \in [Items -> Holders] /\ state' \in [Items -> States] /\ entries' \in Seq(Entry)
      /\ \A k \in Items : owner'[k] = IF k = i THEN u ELSE owner[k]
      /\ \A k \in Items : state'[k] = IF k = i THEN "held" ELSE state[k]
  BY <1>1, <1>2, <1>3, <1>4, AppendProperties DEF States
<1>6. \A n \in DOMAIN entries : n \in DOMAIN entries' /\ entries'[n] = entries[n]
  BY <1>1, <1>3, <1>4, LongerSets
<1>7. owner[i] = NoOne
  BY <1>0, <1>1 DEF AllFit, Fits
<1>8. ItemShapes'
  BY <1>0, <1>1, <1>5, <1>6 DEF ItemShapes
<1>9. AllKnown' /\ NoBarter'
  <2>1. \A o \in Offers : offer[o].status # "none" => IsMade(o) /\ "offer" \in ops
    BY <1>0 DEF AllKnown, NoBarter
  <2>2. \A o \in Offers : IsMade(o)' <=> IsMade(o)
    BY <1>1 DEF IsMade
  <2>3. \A n \in toReverse : entries'[n] = entries[n]
    BY <1>0, <1>6 DEF ItemShapes
  <2> QED  BY <1>0, <1>1, <2>1, <2>2, <2>3, StillKnown
<1>10. ASSUME NEW k \in Items PROVE Fits(owner'[k], state'[k], entries', k)
  <2>1. CASE k = i
    <3>1. LastGain(u, entries', i)
      BY <1>1, <1>2, <1>3, <1>4, OneEntryMore
    <3> QED  BY <1>2, <1>5, <2>1, <3>1 DEF Fits
  <2>2. CASE k # i
    <3>1. /\ EntriesIn(entries, k) = {} => EntriesIn(entries', k) = {}
          /\ \A w : LastGain(w, entries, k) => LastGain(w, entries', k)
      BY <1>1, <1>3, <1>4, <2>2, OneEntryMore
    <3> QED  BY <1>0, <1>5, <2>2, <3>1 DEF Fits, AllFit
  <2> QED  BY <2>1, <2>2
<1>11. ASSUME OneLock, NEW k \in Items PROVE NetIn(entries', k) = Worth(state'[k])
  <2>1. AllCounted(state, entries)
    BY <1>11 DEF ItemInv, Counted, AllCounted
  <2>2. CASE k = i
    <3>1. NetIn(Append(entries, e), i) = NetIn(entries, i) + One(e[3]) - One(e[2])
      BY <1>1, <1>3, OneEntryMore
    <3>2. NetIn(entries, i) = 0
      BY <1>1, <2>1 DEF AllCounted, Worth
    <3>3. One(e[3]) = 1 /\ One(e[2]) = 0
      BY <1>2, <1>3 DEF One
    <3>4. NetIn(Append(entries, e), i) = 1
      BY <3>1, <3>2, <3>3
    <3>5. Worth(state'[k]) = 1
      BY <1>5, <2>2 DEF Worth
    <3> QED  BY <1>4, <2>2, <3>4, <3>5, Zenon
  <2>3. CASE k # i
    <3>1. NetIn(Append(entries, e), k) = NetIn(entries, k)
      BY <1>1, <1>3, <2>3, OneEntryMore
    <3> QED  BY <1>4, <1>5, <2>1, <2>3, <3>1 DEF AllCounted
  <2> QED  BY <2>2, <2>3
<1>12. "recycle" \notin ops => \A k \in Items : state'[k] # "burned"
  BY <1>5 DEF ItemInv
<1>13. OneLock /\ "recycle" \in ops => Guarded'
  <2> SUFFICES ASSUME Guarded PROVE Guarded'
    BY DEF ItemInv
  <2>1. \A r \in pending : r.op \in PetOps /\ r.item # i /\ r.item \in Items /\ Held(r.user, r.item)
    BY <1>0, <1>1 DEF Guarded, Held, AllKnown, IsKnown
  <2>2. \A r \in pending' : r.op \in PetOps /\ Held(r.user, r.item)'
    BY <1>1, <1>5, <2>1 DEF Held
  <2>3. \A k \in Items : state'[k] = "burned" => owner'[k] \in Players
    BY <1>5 DEF Guarded
  <2> QED  BY <1>1, <2>2, <2>3 DEF Guarded
<1>14. EscrowIsMarked'
  BY <1>0, <1>1, <1>2, <1>5 DEF EscrowIsMarked
<1>15. ListedIsInEscrow => ListedIsInEscrow'
  <2> SUFFICES ASSUME ListedIsInEscrow PROVE ListedIsInEscrow'
    OBVIOUS
  <2>1. \A l \in listings : l[1] # i
    BY <1>2, <1>7 DEF ListedIsInEscrow
  <2> QED  BY <1>1, <1>2, <1>5, <1>7, <2>1 DEF ListedIsInEscrow
<1>16. (OneLock' <=> OneLock) /\ ops' = ops
  BY <1>1 DEF OneLock
<1>17. (\A k \in Items : OnFile(k)') /\ (OneLock => \A k \in Items : Counted(k)')
  BY <1>10, <1>11 DEF OnFile, Counted
<1> QED  BY <1>8, <1>9, <1>12, <1>13, <1>14, <1>15, <1>16, <1>17 DEF ItemInv

\* An item is burned.
LEMMA BurnKeeps ==
  ASSUME ItemInv, NEW r, CommitRecycle(r)
  PROVE  ItemInv'
<1> DEFINE i == r.item
           u == r.user
           e == <<i, u, NoOne>>
<1>0. /\ ItemShapes /\ AllKnown /\ NoBarter /\ EscrowIsMarked
      /\ AllFit(owner, state, entries)
  BY DEF ItemInv, OnFile, AllFit
<1>1. /\ owner \in [Items -> Holders] /\ state \in [Items -> States] /\ entries \in Seq(Entry)
      /\ owner' = [owner EXCEPT ![i] = owner[i]] /\ state' = [state EXCEPT ![i] = "burned"]
      /\ owner[i] = u /\ state[i] = "held" /\ entries' = entries \o << e >>
      /\ UNCHANGED <<listings, offer, toReverse, reversed, ops>>
      /\ r \in pending /\ r.op = "recycle" /\ pending' = pending \ {r}
  BY <1>0 DEF CommitRecycle, Burn, OwnerAfterBurn, Done, Log, ItemShapes
<1>2. i \in Items /\ u \in Players /\ "recycle" \in ops
  BY <1>0, <1>1 DEF AllKnown, IsKnown
<1>3. u \in Accounts /\ u # Escrow /\ u # NoOne /\ u \in Holders /\ NoOne \in Holders
  BY <1>2, InstancesAssumption DEF Accounts, Holders
<1>4. e \in Entry /\ e[1] = i /\ e[2] = u /\ e[3] = NoOne
  BY <1>2, <1>3 DEF Entry
<1> HIDE DEF e, i, u
<1>5. entries' = Append(entries, e)
  BY <1>1, <1>4, AppendIsConcat
<1>6. /\ owner' = owner /\ state' \in [Items -> States] /\ entries' \in Seq(Entry)
      /\ \A k \in Items : state'[k] = IF k = i THEN "burned" ELSE state[k]
  BY <1>1, <1>2, <1>4, <1>5, AppendProperties DEF States
<1>7. \A n \in DOMAIN entries : n \in DOMAIN entries' /\ entries'[n] = entries[n]
  BY <1>1, <1>4, <1>5, LongerSets
<1>8. ItemShapes'
  BY <1>0, <1>1, <1>6, <1>7 DEF ItemShapes
<1>9. AllKnown' /\ NoBarter'
  <2>1. \A o \in Offers : offer[o].status # "none" => IsMade(o) /\ "offer" \in ops
    BY <1>0 DEF AllKnown, NoBarter
  <2>2. \A o \in Offers : IsMade(o)' <=> IsMade(o)
    BY <1>1 DEF IsMade
  <2>3. \A n \in toReverse : entries'[n] = entries[n]
    BY <1>0, <1>7 DEF ItemShapes
  <2> QED  BY <1>0, <1>1, <2>1, <2>2, <2>3, StillKnown
<1>10. ASSUME NEW k \in Items PROVE Fits(owner'[k], state'[k], entries', k)
  <2>1. /\ k # i /\ EntriesIn(entries, k) = {} => EntriesIn(entries', k) = {}
        /\ \A w : LastGain(w, entries, k) => LastGain(w, entries', k)
    BY <1>1, <1>4, <1>5, OneEntryMore
  <2> QED  BY <1>0, <1>1, <1>6, <2>1 DEF Fits, AllFit
<1>11. ASSUME OneLock, NEW k \in Items PROVE NetIn(entries', k) = Worth(state'[k])
  <2>1. AllCounted(state, entries)
    BY <1>11 DEF ItemInv, Counted, AllCounted
  <2>2. CASE k = i
    <3>1. NetIn(Append(entries, e), i) = NetIn(entries, i) + One(e[3]) - One(e[2])
      BY <1>1, <1>4, OneEntryMore
    <3>2. NetIn(entries, i) = 1
      BY <1>1, <1>2, <2>1 DEF AllCounted, Worth
    <3>3. One(e[3]) = 0 /\ One(e[2]) = 1
      BY <1>3, <1>4 DEF One
    <3>4. NetIn(Append(entries, e), i) = 0
      BY <3>1, <3>2, <3>3
    <3>5. Worth(state'[k]) = 0
      BY <1>6, <2>2 DEF Worth
    <3> QED  BY <1>5, <2>2, <3>4, <3>5, Zenon
  <2>3. CASE k # i
    <3>1. NetIn(Append(entries, e), k) = NetIn(entries, k)
      BY <1>1, <1>4, <2>3, OneEntryMore
    <3> QED  BY <1>5, <1>6, <2>1, <2>3, <3>1 DEF AllCounted
  <2> QED  BY <2>2, <2>3
<1>12. OneLock => Guarded'
  <2> SUFFICES ASSUME Guarded PROVE Guarded'
    BY <1>2 DEF ItemInv
  <2>1. \A q \in pending : q.item = i /\ q.item \in Items => q.user = r.user
    BY <1>1 DEF Guarded, Held, u
  <2>2. \A q \in pending' : q \in pending /\ q.item # i /\ q.item \in Items
    BY <1>0, <1>1, <2>1 DEF Guarded, AllKnown, IsKnown
  <2>3. \A q \in pending' : q.op \in PetOps /\ Held(q.user, q.item)'
    BY <1>6, <2>2 DEF Guarded, Held
  <2>4. \A k \in Items : state'[k] = "burned" => owner'[k] \in Players
    BY <1>1, <1>2, <1>6 DEF Guarded
  <2> QED  BY <2>2, <2>3, <2>4 DEF Guarded
<1>13. EscrowIsMarked'
  BY <1>0, <1>1, <1>3, <1>6 DEF EscrowIsMarked
<1>14. ListedIsInEscrow => ListedIsInEscrow'
  BY <1>1, <1>6 DEF ListedIsInEscrow
<1>15. (OneLock' <=> OneLock) /\ ops' = ops
  BY <1>1 DEF OneLock
<1>16. (\A k \in Items : OnFile(k)') /\ (OneLock => \A k \in Items : Counted(k)')
  BY <1>10, <1>11 DEF OnFile, Counted
<1> QED  BY <1>2, <1>8, <1>9, <1>12, <1>13, <1>14, <1>15, <1>16 DEF ItemInv


-----------------------------------------------------------------------------
\* A request is accepted that is about what there is; a check under the pet lock saw the item held.
LEMMA AcceptKeeps ==
  ASSUME ItemInv, NEW r, Accept(r), IsKnown(r), r.op \in PetOps => Held(r.user, r.item),
         r.op \notin PetOps => "offer" \in ops
  PROVE  ItemInv'
<1>0. ItemShapes /\ AllKnown /\ NoBarter /\ EscrowIsMarked
  BY DEF ItemInv
<1>1. /\ pending' = pending \cup {r} /\ r.op \in ops /\ LockFree(r)
      /\ UNCHANGED <<owner, state, serial, minted, entries, listings, offer, toReverse, reversed, ops>>
  BY DEF Accept
<1>2. ItemShapes' /\ EscrowIsMarked' /\ (ListedIsInEscrow => ListedIsInEscrow')
  BY <1>0, <1>1 DEF ItemShapes, EscrowIsMarked, ListedIsInEscrow
<1>3. (\A k \in Items : OnFile(k)' <=> OnFile(k)) /\ (\A k \in Items : Counted(k)' <=> Counted(k))
  BY <1>1 DEF OnFile, Counted
<1>4. AllKnown'
  <2>1. \A q \in pending' : IsKnown(q)'
    BY <1>0, <1>1 DEF AllKnown, IsKnown, IsMade
  <2> QED  BY <1>0, <1>1, <2>1 DEF AllKnown, IsMade
<1>5. NoBarter'
  BY <1>0, <1>1 DEF NoBarter
<1>6. OneLock /\ "recycle" \in ops => Guarded'
  <2> SUFFICES ASSUME OneLock, "recycle" \in ops PROVE Guarded'
    OBVIOUS
  <2>1. Guarded /\ r.op \in PetOps
    BY DEF ItemInv, OneLock
  <2>2. \A q \in pending : q.op \in PetOps /\ q.user # r.user
    BY <1>1, <2>1 DEF LockFree, LockOf, Guarded, OneLock
  <2> QED  BY <1>1, <2>1, <2>2 DEF Guarded, Held
<1>7. (OneLock' <=> OneLock) /\ ops' = ops
  BY <1>1 DEF OneLock
<1> QED  BY <1>1, <1>2, <1>3, <1>4, <1>5, <1>6, <1>7 DEF ItemInv

\* The checks of the handlers.
LEMMA ChecksKeep ==
  ASSUME ItemInv
  PROVE  /\ \A i \in Items, u, v \in Players : CheckGift(u, i, v) => ItemInv'
         /\ \A i \in Items, u \in Players : CheckRecycle(u, i) \/ CheckList(u, i) => ItemInv'
         /\ \A i, j \in Items, u, v \in Players, o \in Offers : CheckOffer(u, i, v, j, o) => ItemInv'
         /\ \A o \in Offers : CheckAccept(o) => ItemInv'
         /\ \A o \in Offers, op \in Returns : CheckUnwind(o, op) => ItemInv'
<1>0. \A o \in Offers : offer[o].status # "none" => IsMade(o) /\ "offer" \in ops
  BY DEF ItemInv, AllKnown, NoBarter
<1>1. ASSUME NEW i \in Items, NEW u \in Players, NEW v \in Players, CheckGift(u, i, v) PROVE ItemInv'
  <2> DEFINE r == Call("gift", u, i, v)
  <2>1. IsKnown(r) /\ r.op \in PetOps /\ Held(r.user, r.item) /\ Accept(r)
    BY <1>1 DEF CheckGift, Accept, IsKnown, Call, PetOps, Returns
  <2> QED  BY <2>1, AcceptKeeps
<1>2. ASSUME NEW i \in Items, NEW u \in Players, CheckRecycle(u, i) PROVE ItemInv'
  <2> DEFINE r == Call("recycle", u, i, NoOne)
  <2>1. IsKnown(r) /\ r.op \in PetOps /\ Held(r.user, r.item) /\ Accept(r)
    BY <1>2 DEF CheckRecycle, Accept, IsKnown, Call, PetOps, Returns
  <2> QED  BY <2>1, AcceptKeeps
<1>3. ASSUME NEW i \in Items, NEW u \in Players, CheckList(u, i) PROVE ItemInv'
  <2> DEFINE r == Call("list", u, i, NoOne)
  <2>1. IsKnown(r) /\ r.op \in PetOps /\ Held(r.user, r.item) /\ Accept(r)
    BY <1>3 DEF CheckList, Accept, IsKnown, Call, PetOps, Returns
  <2> QED  BY <2>1, AcceptKeeps
<1>4. ASSUME NEW i \in Items, NEW u \in Players, NEW v \in Players, NEW j \in Items, NEW o \in Offers,
             CheckOffer(u, i, v, j, o)
      PROVE  ItemInv'
  <2> DEFINE r == Call("offer", u, i, <<o, v, j>>)
  <2>1. IsKnown(r) /\ r.op = "offer" /\ Accept(r) /\ "offer" \in ops
    BY <1>4 DEF CheckOffer, Accept, IsKnown, Call, TradeOps, Returns
  <2> QED  BY <2>1, AcceptKeeps DEF PetOps
<1>5. ASSUME NEW o \in Offers, CheckAccept(o) PROVE ItemInv'
  <2> DEFINE r == Call("accept", offer[o].to, offer[o].want, o)
  <2>1. offer[o].status # "none" /\ Accept(r) /\ IsMade(o)
    BY <1>0, <1>5 DEF CheckAccept
  <2>2. IsKnown(r) /\ r.op = "accept" /\ "offer" \in ops
    BY <1>0, <2>1 DEF Accept, IsKnown, IsMade, Call, TradeOps
  <2> QED  BY <2>1, <2>2, AcceptKeeps DEF PetOps
<1>6. ASSUME NEW o \in Offers, NEW op \in Returns, CheckUnwind(o, op) PROVE ItemInv'
  <2> DEFINE u1 == IF op = "reject" THEN offer[o].to ELSE offer[o].from
             r  == Call(op, u1, offer[o].give, o)
  <2>1. offer[o].status # "none" /\ Accept(r) /\ IsMade(o)
    BY <1>0, <1>6 DEF CheckUnwind
  <2>2. IsKnown(r) /\ r.op \notin PetOps /\ "offer" \in ops
    BY <1>0, <2>1 DEF Accept, IsKnown, IsMade, Call, TradeOps, Returns, PetOps
  <2> QED  BY <2>1, <2>2, AcceptKeeps
<1> QED  BY <1>1, <1>2, <1>3, <1>4, <1>5, <1>6

\* Where nothing happens to an offer, it stays as known as it was.
LEMMA SameOffers ==
  ASSUME ItemInv, UNCHANGED <<offer, ops>>
  PROVE  /\ offer' \in [Offers -> OfferRows]
         /\ \A o \in Offers : IsMade(o) => IsMade(o)'
         /\ \A o \in Offers : offer'[o].status # "none" => IsMade(o)' /\ "offer" \in ops
<1>1. offer \in [Offers -> OfferRows]
  BY DEF ItemInv, ItemShapes
<1>2. \A o \in Offers : IsMade(o)' <=> IsMade(o)
  BY DEF IsMade
<1> QED  BY <1>1, <1>2 DEF ItemInv, AllKnown, NoBarter

\* An item in ESCROW is not burned and nobody who checked it under the one lock waits for it.
LEMMA InEscrow ==
  ASSUME ItemInv, NEW i \in Items, owner[i] = Escrow, OneLock, "recycle" \in ops
  PROVE  state[i] # "burned" /\ \A q \in pending : q.item # i
<1>1. Guarded /\ \A q \in pending : q.user \in Players
  BY DEF ItemInv, AllKnown, IsKnown
<1> QED  BY <1>1, InstancesAssumption DEF Guarded, Held

\* What its owner asked for, under the one lock, is not burned and asked for once.
LEMMA InHand ==
  ASSUME ItemInv, NEW r \in pending, OneLock, "recycle" \in ops
  PROVE  state[r.item] # "burned" /\ \A q \in pending \ {r} : q.item # r.item
<1>1. Guarded
  BY DEF ItemInv
<1> QED  BY <1>1 DEF Guarded, Held


-----------------------------------------------------------------------------
\* A gift is handed over.
LEMMA GiftKeeps ==
  ASSUME ItemInv, NEW r, CommitGift(r)
  PROVE  ItemInv'
<1>1. /\ r \in pending /\ r.op = "gift" /\ pending' = pending \ {r} /\ r.item \in Items
      /\ r.user \in Players /\ r.arg \in Players
      /\ UNCHANGED <<listings, offer, toReverse, reversed, ops>> /\ Move(r.item, r.user, r.arg, "held")
  BY DEF CommitGift, Done, ItemInv, AllKnown, IsKnown
<1>2. Goes(r.item, r.user, r.arg, "held") /\ r.arg # Escrow /\ r.user # Escrow /\ owner[r.item] = r.user
  BY <1>1, InstancesAssumption DEF Goes, Accounts, Move
<1>3. ListedIsInEscrow => ListedIsInEscrow'
  BY <1>1, <1>2 DEF ListedIsInEscrow, Move, ItemInv, ItemShapes
<1>4. OneLock /\ "recycle" \in ops => state[r.item] # "burned" /\ \A q \in pending' : q.item # r.item
  BY <1>1, InHand
<1>5. ops \cap {"offer", "reverse"} = {} => ListedIsInEscrow'
  BY <1>3 DEF ItemInv
<1>6. listings' \subseteq Items \X Players /\ toReverse' \subseteq toReverse /\ pending' \subseteq pending
  BY <1>1 DEF ItemInv, ItemShapes
<1> QED  BY <1>1, <1>2, <1>4, <1>5, <1>6, SameOffers, GoesKeeps

\* An item is put on the market.
LEMMA ListKeeps ==
  ASSUME ItemInv, NEW r, CommitList(r)
  PROVE  ItemInv'
<1>1. /\ r \in pending /\ r.op = "list" /\ pending' = pending \ {r} /\ r.item \in Items
      /\ r.user \in Players /\ listings' = listings \cup {<<r.item, r.user>>}
      /\ \A l \in listings : l[1] # r.item
      /\ UNCHANGED <<offer, toReverse, reversed, ops>> /\ Move(r.item, r.user, Escrow, "listed")
  BY DEF CommitList, ListedState, Done, ItemInv, AllKnown, IsKnown
<1>2. Goes(r.item, r.user, Escrow, "listed") /\ r.user # Escrow /\ owner[r.item] = r.user
  BY <1>1, InstancesAssumption DEF Goes, Accounts, Move
<1>3. ListedIsInEscrow => ListedIsInEscrow'
  <2> SUFFICES ASSUME ListedIsInEscrow PROVE ListedIsInEscrow'
    OBVIOUS
  <2>1. \A i \in Items : owner'[i] = IF i = r.item THEN Escrow ELSE owner[i]
    BY <1>1 DEF Move, ItemInv, ItemShapes
  <2>2. \A l, m \in listings' : l[1] = m[1] => l = m
    BY <1>1 DEF ListedIsInEscrow
  <2>3. \A i \in Items : (\E l \in listings' : l[1] = i) <=> i = r.item \/ \E l \in listings : l[1] = i
    <3> DEFINE m == <<r.item, r.user>>
    <3>1. listings' = listings \cup {m} /\ m[1] = r.item
      BY <1>1
    <3> HIDE DEF m
    <3> QED  BY <3>1
  <2> QED  BY <2>1, <2>2, <2>3 DEF ListedIsInEscrow
<1>4. OneLock /\ "recycle" \in ops => state[r.item] # "burned" /\ \A q \in pending' : q.item # r.item
  BY <1>1, InHand
<1>5. ops \cap {"offer", "reverse"} = {} => ListedIsInEscrow'
  BY <1>3 DEF ItemInv
<1>6. listings' \subseteq Items \X Players /\ toReverse' \subseteq toReverse /\ pending' \subseteq pending
  BY <1>1 DEF ItemInv, ItemShapes
<1> QED  BY <1>1, <1>2, <1>4, <1>5, <1>6, SameOffers, GoesKeeps

\* A listing ends: the item leaves ESCROW for a player and the listing is closed with it.
LEMMA ListingEnds ==
  ASSUME ItemInv, NEW l \in listings, NEW to \in Players, Move(l[1], Escrow, to, "held"),
         listings' = Closed(l), UNCHANGED <<offer, pending, toReverse, reversed, ops>>
  PROVE  ItemInv'
<1>1. l[1] \in Items
  BY DEF ItemInv, ItemShapes
<1>2. Goes(l[1], Escrow, to, "held") /\ to # Escrow /\ owner[l[1]] = Escrow
  BY <1>1, InstancesAssumption DEF Goes, Accounts, Move
<1>3. ListedIsInEscrow => ListedIsInEscrow'
  <2> SUFFICES ASSUME ListedIsInEscrow PROVE ListedIsInEscrow'
    OBVIOUS
  <2>1. \A i \in Items : owner'[i] = IF i = l[1] THEN to ELSE owner[i]
    BY <1>1 DEF Move, ItemInv, ItemShapes
  <2>2. \A m \in listings : m \in listings' <=> m[1] # l[1]
    BY DEF Closed, ListedIsInEscrow
  <2>3. listings' \subseteq listings
    BY DEF Closed
  <2> QED  BY <1>1, <1>2, <2>1, <2>2, <2>3 DEF ListedIsInEscrow
<1>4. OneLock /\ "recycle" \in ops => state[l[1]] # "burned" /\ \A q \in pending' : q.item # l[1]
  BY <1>1, <1>2, InEscrow
<1>5. ops \cap {"offer", "reverse"} = {} => ListedIsInEscrow'
  BY <1>3 DEF ItemInv
<1>6. listings' \subseteq Items \X Players /\ toReverse' \subseteq toReverse /\ pending' \subseteq pending
  BY DEF ItemInv, ItemShapes, Closed
<1> QED  BY <1>2, <1>4, <1>5, <1>6, SameOffers, GoesKeeps

\* The sender's item of a new offer goes into ESCROW.
LEMMA OfferKeeps ==
  ASSUME ItemInv, NEW r, CommitOffer(r)
  PROVE  ItemInv'
<1> DEFINE row == [from |-> r.user, to |-> r.arg[2], give |-> r.item, want |-> r.arg[3],
                   status |-> "pending", posted |-> {}]
<1>1. /\ r \in pending /\ r.op = "offer" /\ pending' = pending \ {r} /\ r.item \in Items
      /\ r.user \in Players /\ r.arg[1] \in Offers /\ r.arg[2] \in Players /\ r.arg[3] \in Items
      /\ "offer" \in ops /\ offer' = [offer EXCEPT ![r.arg[1]] = row]
      /\ UNCHANGED <<listings, toReverse, reversed, ops>> /\ Move(r.item, r.user, Escrow, "escrowed")
  BY DEF CommitOffer, OfferedState, Done, ItemInv, AllKnown, IsKnown
<1>2. Goes(r.item, r.user, Escrow, "escrowed")
  BY <1>1 DEF Goes, Accounts
<1>3. row \in OfferRows /\ offer \in [Offers -> OfferRows]
  BY <1>1 DEF OfferRows, ItemInv, ItemShapes
<1>4. row.from = r.user /\ row.to = r.arg[2] /\ row.give = r.item /\ row.want = r.arg[3]
  OBVIOUS
<1> HIDE DEF row
<1>5. offer' \in [Offers -> OfferRows] /\ \A o \in Offers : offer'[o] = IF o = r.arg[1] THEN row ELSE offer[o]
  BY <1>1, <1>3
<1>6. \A o \in Offers : IsMade(o) => IsMade(o)'
  BY <1>1, <1>4, <1>5 DEF IsMade
<1>7. \A o \in Offers : offer'[o].status # "none" => IsMade(o)' /\ "offer" \in ops
  BY <1>1, <1>4, <1>5 DEF IsMade, ItemInv, AllKnown
<1>8. ~(OneLock /\ "recycle" \in ops) /\ ~(ops \cap {"offer", "reverse"} = {})
  BY <1>1 DEF OneLock
<1>9. listings' \subseteq Items \X Players /\ toReverse' \subseteq toReverse /\ pending' \subseteq pending
  BY <1>1 DEF ItemInv, ItemShapes
<1> QED  BY <1>1, <1>2, <1>5, <1>6, <1>7, <1>8, <1>9, GoesKeeps

\* Functions on the same set that agree everywhere on it are equal.
LEMMA SameFunction ==
  ASSUME NEW D, NEW S, NEW f \in [D -> S], NEW g \in [D -> S], \A k \in D : f[k] = g[k]
  PROVE  f = g
  OBVIOUS

\* What ends an offer, and is noted beside it, leaves its row one.
Ended(w, key, st) == [w EXCEPT !.posted = @ \cup {key}, !.status = IF @ = "pending" THEN st ELSE @]

LEMMA EndedRow ==
  ASSUME NEW w \in OfferRows, NEW key \in Returns \cup {"settle"}, NEW st \in Returns \cup {"accepted"}
  PROVE  /\ Ended(w, key, st) \in OfferRows
         /\ Ended(w, key, st).from = w.from /\ Ended(w, key, st).to = w.to
         /\ Ended(w, key, st).give = w.give /\ Ended(w, key, st).want = w.want
<1> DEFINE row == Ended(w, key, st)
           e == [w EXCEPT !.posted = @ \cup {key}]
           z == IF w.status = "pending" THEN st ELSE w.status
<1>1. /\ e \in OfferRows /\ e.from = w.from /\ e.to = w.to /\ e.give = w.give /\ e.want = w.want
      /\ e.status = w.status
  BY DEF OfferRows
<1>2. row = [e EXCEPT !.status = z]
  BY DEF OfferRows, Ended
<1>3. z \in {"none", "pending", "accepted"} \cup Returns
  BY DEF OfferRows
<1> HIDE DEF e, z, row
<1>4. row.from = w.from /\ row.to = w.to /\ row.give = w.give /\ row.want = w.want
  BY <1>1, <1>2 DEF OfferRows
<1>5. row \in OfferRows
  BY <1>1, <1>2, <1>3 DEF OfferRows
<1> QED  BY <1>4, <1>5 DEF row

\* How an offer ends: still a row, of the same two players and items.
LEMMA OfferEnds ==
  ASSUME ItemInv, NEW o \in Offers, IsMade(o), "offer" \in ops, UNCHANGED ops,
         NEW key \in Returns \cup {"settle"}, NEW st \in Returns \cup {"accepted"}, offer' = AfterEnd(o, key, st)
  PROVE  /\ offer' \in [Offers -> OfferRows]
         /\ \A x \in Offers : IsMade(x) => IsMade(x)'
         /\ \A x \in Offers : offer'[x].status # "none" => IsMade(x)' /\ "offer" \in ops
<1>1. offer \in [Offers -> OfferRows] /\ offer[o] \in OfferRows
  BY DEF ItemInv, ItemShapes
<1> DEFINE row == Ended(offer[o], key, st)
<1>2. offer' = [offer EXCEPT ![o] = row]
  BY <1>1 DEF AfterEnd, Ended
<1>3. /\ row \in OfferRows /\ row.from = offer[o].from /\ row.to = offer[o].to
      /\ row.give = offer[o].give /\ row.want = offer[o].want
  BY <1>1, EndedRow
<1> HIDE DEF row
<1>4. offer' \in [Offers -> OfferRows] /\ \A x \in Offers : offer'[x] = IF x = o THEN row ELSE offer[x]
  BY <1>1, <1>2, <1>3
<1>5. \A x \in Offers : IsMade(x)' <=> IsMade(x)
  BY <1>3, <1>4 DEF IsMade
<1> QED  BY <1>4, <1>5 DEF ItemInv, AllKnown

\* Who answers an offer answers one that was made.
LEMMA Answered ==
  ASSUME ItemInv, NEW r \in pending, r.op \in Returns \cup {"accept"}
  PROVE  r.arg \in Offers /\ IsMade(r.arg) /\ r.item \in Items /\ "offer" \in ops
<1>1. r.op \notin PetOps
  BY DEF Returns, PetOps
<1> QED  BY <1>1 DEF ItemInv, AllKnown, IsKnown, NoBarter

\* The sender gets the item of an offer back.
LEMMA ReturnKeeps ==
  ASSUME ItemInv, NEW r, CommitReturn(r)
  PROVE  ItemInv'
<1> DEFINE o == r.arg
           u == offer[o].from
<1>1. /\ r \in pending /\ r.op \in Returns /\ pending' = pending \ {r}
      /\ o \in Offers /\ IsMade(o) /\ r.item \in Items /\ "offer" \in ops
      /\ offer' = AfterEnd(o, r.op, r.op) /\ UNCHANGED <<listings, toReverse, reversed, ops>>
      /\ Move(r.item, Escrow, u, "held")
  BY Answered DEF CommitReturn, Done, Returns
<1>2. u \in Players /\ u # Escrow /\ Goes(r.item, Escrow, u, "held")
  BY <1>1, InstancesAssumption DEF IsMade, Goes, Accounts
<1>3. /\ offer' \in [Offers -> OfferRows]
      /\ \A x \in Offers : IsMade(x) => IsMade(x)'
      /\ \A x \in Offers : offer'[x].status # "none" => IsMade(x)' /\ "offer" \in ops
  BY <1>1, OfferEnds
<1>4. ~(OneLock /\ "recycle" \in ops) /\ ~(ops \cap {"offer", "reverse"} = {})
  BY <1>1 DEF OneLock
<1>5. listings' \subseteq Items \X Players /\ toReverse' \subseteq toReverse /\ pending' \subseteq pending
  BY <1>1 DEF ItemInv, ItemShapes
<1> QED  BY <1>1, <1>2, <1>3, <1>4, <1>5, GoesKeeps

\* A voucher that moved an item is reversed.
LEMMA ReverseKeeps ==
  ASSUME ItemInv, NEW n, Reverse(n)
  PROVE  ItemInv'
<1>1. /\ n \in toReverse /\ n \in DOMAIN entries /\ entries \in Seq(Entry) /\ "reverse" \in ops
      /\ entries[n][2] # NoOne /\ entries[n][3] # NoOne /\ toReverse' = toReverse \ {n}
      /\ UNCHANGED <<listings, offer, pending, ops>> /\ Move(entries[n][1], entries[n][3], entries[n][2], "held")
  BY DEF Reverse, ItemInv, ItemShapes, AllKnown
<1>2. entries[n] \in Entry
  BY <1>1, ElementOfSeq, LenProperties
<1>3. Goes(entries[n][1], entries[n][3], entries[n][2], "held")
  BY <1>1, <1>2 DEF Goes, Entry, Holders
<1>4. ~OneLock /\ ~(ops \cap {"offer", "reverse"} = {})
  BY <1>1 DEF OneLock
<1>5. listings' \subseteq Items \X Players /\ toReverse' \subseteq toReverse /\ pending' \subseteq pending
  BY <1>1 DEF ItemInv, ItemShapes
<1> QED  BY <1>1, <1>3, <1>4, <1>5, SameOffers, GoesKeeps


\* Two entries are one and another.
LEMMA OneByOne ==
  ASSUME NEW S, NEW s \in Seq(S), NEW e \in S, NEW f \in S
  PROVE  s \o <<e, f>> = (s \o <<e>>) \o <<f>>
<1>1. s \o <<e, f>> = Append(Append(s, e), f)
  OBVIOUS
<1>2. Append(s, e) = s \o <<e>> /\ Append(s, e) \in Seq(S)
  BY AppendIsConcat, AppendProperties
<1> DEFINE t == Append(s, e)
<1>3. Append(t, f) = t \o <<f>>
  BY <1>2, AppendIsConcat
<1> HIDE DEF t
<1>4. t = s \o <<e>> /\ s \o <<e, f>> = Append(t, f)
  BY <1>1, <1>2 DEF t
<1> QED  BY <1>3, <1>4

\* An offer is accepted: two items change hands in one transaction.
LEMMA AcceptedKeeps ==
  ASSUME ItemInv, NEW r, CommitAccept(r)
  PROVE  ItemInv'
<1> DEFINE o == r.arg
           i == offer[o].give
           j == offer[o].want
           u == offer[o].from
           v == offer[o].to
           ow == [owner EXCEPT ![i] = v]
           sx == [state EXCEPT ![i] = "held"]
           en == entries \o << <<i, Escrow, v>> >>
<1>0. /\ ItemShapes /\ AllKnown /\ NoBarter /\ EscrowIsMarked
      /\ AllFit(owner, state, entries)
  BY DEF ItemInv, OnFile, AllFit
<1>1. /\ r \in pending /\ pending' = pending \ {r} /\ o \in Offers /\ IsMade(o) /\ "offer" \in ops
      /\ offer' = AfterEnd(o, "settle", "accepted") /\ UNCHANGED <<listings, toReverse, reversed, ops>>
      /\ owner[i] = Escrow /\ owner[j] = v
      /\ owner' = [owner EXCEPT ![i] = v, ![j] = u]
      /\ state' = [state EXCEPT ![i] = "held", ![j] = "held"]
      /\ entries' = entries \o << <<i, Escrow, v>>, <<j, v, u>> >>
  BY Answered DEF CommitAccept, Done, Log
<1>2. /\ owner \in [Items -> Holders] /\ state \in [Items -> States] /\ entries \in Seq(Entry)
      /\ i \in Items /\ j \in Items /\ u \in Players /\ v \in Players
      /\ u # Escrow /\ v # Escrow /\ i # j /\ u \in Accounts /\ v \in Accounts /\ Escrow \in Accounts
  BY <1>0, <1>1, InstancesAssumption DEF ItemShapes, IsMade, Accounts
<1>3. GoesTo(owner, state, entries, i, Escrow, v, "held", ow, sx, en)
  BY <1>1, <1>2 DEF GoesTo
<1> HIDE DEF i, j, u, v, ow, sx, en
<1>4. /\ ow \in [Items -> Holders] /\ sx \in [Items -> States] /\ en \in Seq(Entry)
      /\ \A n \in DOMAIN entries : n \in DOMAIN en /\ en[n] = entries[n]
      /\ \A k \in Items : ow[k] = IF k = i THEN v ELSE owner[k]
      /\ \A k \in Items : sx[k] = IF k = i THEN "held" ELSE state[k]
      /\ AllFit(ow, sx, en)
      /\ state[i] # "burned" /\ AllCounted(state, entries) => AllCounted(sx, en)
  BY <1>0, <1>3, ItemGoes
<1>5. owner' = [ow EXCEPT ![j] = u] /\ state' = [sx EXCEPT ![j] = "held"]
  <2>1. /\ owner' \in [Items -> Holders] /\ state' \in [Items -> States]
        /\ \A k \in Items : owner'[k] = IF k = j THEN u ELSE IF k = i THEN v ELSE owner[k]
        /\ \A k \in Items : state'[k] = IF k = j \/ k = i THEN "held" ELSE state[k]
    BY <1>1, <1>2 DEF Holders, States
  <2>2. /\ [ow EXCEPT ![j] = u] \in [Items -> Holders] /\ [sx EXCEPT ![j] = "held"] \in [Items -> States]
        /\ \A k \in Items : [ow EXCEPT ![j] = u][k] = IF k = j THEN u ELSE ow[k]
        /\ \A k \in Items : [sx EXCEPT ![j] = "held"][k] = IF k = j THEN "held" ELSE sx[k]
    BY <1>2, <1>4 DEF Holders, States
  <2>3. /\ \A k \in Items : owner'[k] = [ow EXCEPT ![j] = u][k]
        /\ \A k \in Items : state'[k] = [sx EXCEPT ![j] = "held"][k]
    BY <1>4, <2>1, <2>2
  <2>4. owner' = [ow EXCEPT ![j] = u]
    <3> DEFINE f == owner'
               g == [ow EXCEPT ![j] = u]
    <3>1. f \in [Items -> Holders] /\ g \in [Items -> Holders] /\ \A k \in Items : f[k] = g[k]
      BY <2>1, <2>2, <2>3
    <3> HIDE DEF f, g
    <3>2. f = g
      BY <3>1, SameFunction
    <3> QED  BY <3>2 DEF f, g
  <2>5. state' = [sx EXCEPT ![j] = "held"]
    <3> DEFINE f == state'
               g == [sx EXCEPT ![j] = "held"]
    <3>1. f \in [Items -> States] /\ g \in [Items -> States] /\ \A k \in Items : f[k] = g[k]
      BY <2>1, <2>2, <2>3
    <3> HIDE DEF f, g
    <3>2. f = g
      BY <3>1, SameFunction
    <3> QED  BY <3>2 DEF f, g
  <2> QED  BY <2>4, <2>5
<1>6. entries' = en \o << <<j, v, u>> >>
  <2>1. <<i, Escrow, v>> \in Entry /\ <<j, v, u>> \in Entry
    BY <1>2 DEF Entry, Holders
  <2> DEFINE e == <<i, Escrow, v>>
             f == <<j, v, u>>
  <2>2. entries' = entries \o <<e, f>> /\ en = entries \o <<e>> /\ e \in Entry /\ f \in Entry
    <3>1. entries' = entries \o <<e, f>>
      BY <1>1 DEF i, j, u, v
    <3>2. en = entries \o <<e>>
      BY DEF en
    <3> QED  BY <2>1, <3>1, <3>2
  <2> HIDE DEF e, f
  <2>3. entries \o <<e, f>> = (entries \o <<e>>) \o <<f>>
    <3>1. entries \in Seq(Entry) /\ e \in Entry /\ f \in Entry
      BY <1>2, <2>2
    <3> QED  BY <3>1, OneByOne
  <2>4. entries' = en \o <<f>>
    BY <2>2, <2>3, Zenon
  <2> QED  BY <2>4 DEF f
<1>7. GoesTo(ow, sx, en, j, v, u, "held", owner', state', entries')
  BY <1>1, <1>2, <1>4, <1>5, <1>6 DEF GoesTo
<1>8. /\ owner' \in [Items -> Holders] /\ state' \in [Items -> States] /\ entries' \in Seq(Entry)
      /\ \A n \in DOMAIN en : n \in DOMAIN entries' /\ entries'[n] = en[n]
      /\ \A k \in Items : owner'[k] = IF k = j THEN u ELSE ow[k]
      /\ \A k \in Items : state'[k] = IF k = j THEN "held" ELSE sx[k]
      /\ AllFit(owner', state', entries')
      /\ sx[j] # "burned" /\ AllCounted(sx, en) => AllCounted(state', entries')
  BY <1>4, <1>7, ItemGoes
<1>9. /\ offer' \in [Offers -> OfferRows]
      /\ \A x \in Offers : IsMade(x) => IsMade(x)'
      /\ \A x \in Offers : offer'[x].status # "none" => IsMade(x)' /\ "offer" \in ops
  BY <1>1, OfferEnds
<1>10. \A n \in DOMAIN entries : n \in DOMAIN entries' /\ entries'[n] = entries[n]
  BY <1>4, <1>8
<1>11. ItemShapes'
  BY <1>0, <1>1, <1>8, <1>9, <1>10 DEF ItemShapes
<1>12. AllKnown' /\ NoBarter'
  <2>1. \A n \in toReverse : entries'[n] = entries[n]
    BY <1>0, <1>10 DEF ItemShapes
  <2> QED  BY <1>0, <1>1, <1>9, <2>1, StillKnown
<1>13. \A k \in Items : OnFile(k)'
  BY <1>8 DEF OnFile, AllFit
<1>14. "recycle" \notin ops => \A k \in Items : state[k] # "burned" /\ state'[k] # "burned"
  BY <1>4, <1>8 DEF ItemInv
<1>15. "recycle" \notin ops => sx[j] # "burned" /\ state[i] # "burned"
  BY <1>2, <1>4, <1>14
<1>16. OneLock => "recycle" \notin ops
  BY <1>1 DEF OneLock
<1>17. OneLock => \A k \in Items : Counted(k)'
  BY <1>4, <1>8, <1>15, <1>16 DEF ItemInv, Counted, AllCounted
<1>18. EscrowIsMarked'
  BY <1>0, <1>1, <1>2, <1>4, <1>8 DEF EscrowIsMarked
<1>19. ops' = ops /\ (OneLock' <=> OneLock) /\ ~(ops \cap {"offer", "reverse"} = {})
  BY <1>1 DEF OneLock
<1> QED  BY <1>11, <1>12, <1>13, <1>14, <1>16, <1>17, <1>18, <1>19 DEF ItemInv

\* A request is given up; a voucher is picked to be reversed.
LEMMA LeavesKeep ==
  ASSUME ItemInv
  PROVE  /\ \A r : Abandon(r) => ItemInv'
         /\ \A n : CheckReverse(n) => ItemInv'
         /\ UNCHANGED itemVars => ItemInv'
<1>0. ItemShapes /\ AllKnown /\ NoBarter
  BY DEF ItemInv
<1>1. ASSUME UNCHANGED <<owner, state, serial, minted, entries, listings, offer, reversed, ops>>,
             pending' \subseteq pending, toReverse' \subseteq DOMAIN entries,
             \A n \in toReverse' : entries[n][2] # NoOne /\ entries[n][3] # NoOne /\ "reverse" \in ops
      PROVE  ItemInv'
  <2>1. ItemShapes' /\ NoBarter'
    BY <1>0, <1>1 DEF ItemShapes, NoBarter
  <2>2. AllKnown'
    <3>1. \A q \in pending' : IsKnown(q)'
      BY <1>0, <1>1 DEF AllKnown, IsKnown, IsMade
    <3> QED  BY <1>0, <1>1, <3>1 DEF AllKnown, IsMade
  <2>3. (\A k \in Items : OnFile(k)' <=> OnFile(k)) /\ (\A k \in Items : Counted(k)' <=> Counted(k))
    BY <1>1 DEF OnFile, Counted
  <2>4. (Guarded => Guarded') /\ (EscrowIsMarked => EscrowIsMarked') /\ (ListedIsInEscrow => ListedIsInEscrow')
    BY <1>1 DEF Guarded, Held, EscrowIsMarked, ListedIsInEscrow
  <2>5. (OneLock' <=> OneLock) /\ ops' = ops /\ state' = state
    BY <1>1 DEF OneLock
  <2> QED  BY <2>1, <2>2, <2>3, <2>4, <2>5 DEF ItemInv
<1>2. ASSUME NEW r, Abandon(r) PROVE ItemInv'
  BY <1>0, <1>1, <1>2 DEF Abandon, Done, ItemShapes, AllKnown
<1>3. ASSUME NEW n, CheckReverse(n) PROVE ItemInv'
  BY <1>0, <1>1, <1>3 DEF CheckReverse, ItemShapes, AllKnown
<1>4. ASSUME UNCHANGED itemVars PROVE ItemInv'
  BY <1>0, <1>1, <1>4 DEF itemVars, ItemShapes, AllKnown
<1> QED  BY <1>2, <1>3, <1>4

LEMMA ItemsStep == ItemInv /\ [ItemsNext]_itemVars => ItemInv'
<1> SUFFICES ASSUME ItemInv, [ItemsNext]_itemVars PROVE ItemInv'
  OBVIOUS
<1>1. ASSUME NEW i \in Items, NEW u \in Players, Mint(i, u) PROVE ItemInv'
  BY <1>1, MintKeeps
<1>2. ASSUME \/ \E i \in Items, u, v \in Players : CheckGift(u, i, v)
             \/ \E i \in Items, u \in Players : CheckRecycle(u, i) \/ CheckList(u, i)
             \/ \E i, j \in Items, u, v \in Players, o \in Offers : CheckOffer(u, i, v, j, o)
             \/ \E o \in Offers : CheckAccept(o)
             \/ \E o \in Offers, op \in {"cancel", "reject", "expire"} : CheckUnwind(o, op)
      PROVE  ItemInv'
  BY <1>2, ChecksKeep DEF Returns
<1>3. ASSUME NEW r \in pending, \/ CommitGift(r) \/ CommitRecycle(r) \/ CommitList(r)
                                \/ CommitOffer(r) \/ CommitAccept(r) \/ CommitReturn(r) \/ Abandon(r)
      PROVE  ItemInv'
  BY <1>3, GiftKeeps, BurnKeeps, ListKeeps, OfferKeeps, AcceptedKeeps, ReturnKeeps, LeavesKeep
<1>4. ASSUME NEW l \in listings, Unlist(l) PROVE ItemInv'
  <2>1. l[2] \in Players
    BY DEF ItemInv, ItemShapes
  <2> QED  BY <1>4, <2>1, ListingEnds DEF Unlist
<1>5. ASSUME NEW l \in listings, NEW u \in Players, Sell(l, u) PROVE ItemInv'
  BY <1>5, ListingEnds DEF Sell
<1>6. ASSUME NEW n, CheckReverse(n) \/ Reverse(n) PROVE ItemInv'
  BY <1>6, LeavesKeep, ReverseKeeps
<1>7. ASSUME UNCHANGED itemVars PROVE ItemInv'
  BY <1>7, LeavesKeep
<1> QED  BY <1>1, <1>2, <1>3, <1>4, <1>5, <1>6, <1>7 DEF ItemsNext

\* What the invariant says of the figures the nightly reconcile compares.
LEMMA ItemsFigures == ItemInv => ItemsAddUp
<1> SUFFICES ASSUME ItemInv PROVE ItemsAddUp
  OBVIOUS
<1>1. \A i \in Items : Gains(i) = GainsIn(entries, i) /\ Losses(i) = LossesIn(entries, i)
  BY DEF Gains, Losses, EntriesOf, GainsIn, LossesIn, EntriesIn
<1>2. OwnerIsLastGain
  BY <1>1 DEF OwnerIsLastGain, ItemInv, OnFile, Fits, LastGain, Minted
<1>3. ASSUME OneLock PROVE EntriesMatchState
  <2> SUFFICES ASSUME NEW i \in Items, Minted(i)
               PROVE  Cardinality(Gains(i)) - Cardinality(Losses(i)) = IF state[i] = "burned" THEN 0 ELSE 1
    BY DEF EntriesMatchState
  <2>1. NetIn(entries, i) = Worth(state[i])
    BY <1>3 DEF ItemInv, Counted
  <2> QED  BY <1>1, <2>1 DEF NetIn, Worth, Minted
<1>4. ASSUME ops \cap {"offer", "reverse"} = {}, NEW i \in Items
      PROVE  Cardinality({l \in listings : l[1] = i}) = IF owner[i] = Escrow THEN 1 ELSE 0
  <2>1. ListedIsInEscrow
    BY <1>4 DEF ItemInv
  <2>2. CASE owner[i] = Escrow
    <3>1. PICK l \in listings : l[1] = i
      BY <2>1, <2>2 DEF ListedIsInEscrow
    <3>2. {m \in listings : m[1] = i} = {l}
      BY <2>1, <3>1 DEF ListedIsInEscrow
    <3> QED  BY <2>2, <3>2, FS_Singleton
  <2>3. CASE owner[i] # Escrow
    <3>1. {m \in listings : m[1] = i} = {}
      BY <2>1, <2>3 DEF ListedIsInEscrow
    <3> QED  BY <2>3, <3>1, FS_EmptySet
  <2> QED  BY <2>2, <2>3
<1>5. EscrowIsMarked
  BY DEF ItemInv
<1> QED  BY <1>2, <1>3, <1>4, <1>5 DEF ItemsAddUp, EntriesMatchRow, EscrowHoldsClaims, OneClaimInEscrow

(* An item's row, its history and the claims on it agree: its owner is the *)
(* account that gained it last; where one lock guards it, its entries add  *)
(* up to one until it is burned and to nothing after; without a reversal   *)
(* ESCROW holds what is marked as listed or escrowed; and where there is   *)
(* no barter and no reversal an item is in ESCROW for exactly one listing. *)
(* However many players, items, offers and requests there are, and whatever *)
(* is done between a check and its transaction.                            *)
THEOREM ItemsAreOnFile == ItemsSpec => []ItemsAddUp
<1>1. ItemsInit => ItemInv
  BY ItemsStart
<1>2. ItemInv /\ [ItemsNext]_itemVars => ItemInv'
  BY ItemsStep
<1>3. ItemInv => ItemsAddUp
  BY ItemsFigures
<1> QED  BY <1>1, <1>2, <1>3, PTL DEF ItemsSpec

-----------------------------------------------------------------------------
(* The bounds of trade. *)

\* Who checked an item that he has, to send it on.
Movers == {"gift", "list", "offer"}
Sender(b) == b.lock[2]

\* What a handler carries.
FitsHandler(b) ==
  /\ b.item \in Goods /\ b.to \in Traders /\ b.coin \in Nat /\ b.at \in Nat
  /\ b.at <= now /\ now <= b.at + 1
  /\ b.op \in Movers \cup {"buy", "accept"}
  /\ b.op \in Movers => Sender(b) \in Traders

RiskTypeOK ==
  /\ now \in 0 .. MaxHour
  /\ holder \in [Goods -> Traders] /\ place \in [Goods -> {"held", "listed", "offered"}]
  /\ terms = [i \in Goods |-> terms[i]]
  /\ \A i \in Goods : place[i] = "offered" => terms[i].to \in Traders /\ terms[i].coin \in Nat
  /\ tally \in [Traders -> [Days -> [count : Nat, value : Nat, net : Int]]]
  /\ run = [r \in Runs |-> run[r]]
  /\ \A r \in Runs : run[r] # None => FitsHandler(run[r])
  /\ got \in [Goods -> Int] /\ after \in [Goods -> Int]
  /\ bartered \in [Traders -> Int]

\* The time on the row is the time of the last change of hands and what it costs.
RightTimes == \A i \in Goods : after[i] = got[i] + Cooldown /\ got[i] <= now

\* An item that came after a handler had checked it stays where it is until that handler
\* is done.
Stuck(b) == place[b.item] = "held" /\ got[b.item] >= b.at

CheckHolds(b) ==
  \/ holder[b.item] = Sender(b) /\ after[b.item] <= b.at
  \/ holder[b.item] # Sender(b) /\ Stuck(b)

InTime ==
  Cooldown # 0 =>
    \A r \in Runs : run[r] # None =>
      /\ run[r].op \in Movers => CheckHolds(run[r])
      /\ run[r].op \in {"gift", "offer"} => run[r].to # Sender(run[r])
      /\ run[r].op = "buy" => holder[run[r].item] # run[r].to \/ Stuck(run[r])

\* An offer is made to somebody else.
ToOthers == Cooldown # 0 => \A i \in Goods : place[i] = "offered" => terms[i].to # holder[i]

Gives(b) == b.op = "gift" /\ b.lock = <<"pet", Sender(b)>>

\* With gifts only, one handler of a player at a time, and what it checked holds on the
\* day of its transaction.
OneGift ==
  /\ \A i \in Goods : place[i] = "held"
  /\ \A r \in Runs : run[r] # None =>
       /\ Gives(run[r])
       /\ tally[Sender(run[r])][Day].value + Price[run[r].item] <= MaxValue
  /\ \A r, s \in Runs : r # s /\ run[r] # None /\ run[s] # None => Sender(run[r]) # Sender(run[s])
  /\ \A p \in Traders : \A d \in Days : tally[p][d].value <= MaxValue
  /\ \A p \in Traders : \A d \in Days : d > Day => tally[p][d].value = 0

WithinQuota == open = {"gift"} => OneGift

RiskInv ==
  RiskTypeOK /\ RightTimes /\ InTime /\ ToOthers /\ WithinQuota /\ NothingGoesEarly /\ OutflowIsLoss

LEMMA DivGrows ==
  ASSUME NEW n \in Nat, NEW m \in Nat, n <= m, NEW D \in Nat \ {0}
  PROVE  n \div D \in Nat /\ m \div D \in Nat /\ n \div D <= m \div D
OBVIOUS

LEMMA DayIsOne == RiskTypeOK => Day \in Days
<1> SUFFICES ASSUME RiskTypeOK PROVE Day \in Days
  OBVIOUS
<1>1. now \in Nat /\ MaxHour \in Nat /\ now <= MaxHour /\ DayHours \in Nat \ {0}
  BY RiskAssumption DEF RiskTypeOK
<1> QED  BY <1>1, DivGrows DEF Day, Days

-----------------------------------------------------------------------------
(* What the figures are. *)

Tallies == [Traders -> [Days -> [count : Nat, value : Nat, net : Int]]]
NetOf(t, p) == SumFunction([d \in Days |-> t[p][d].net])

LEMMA DaysAreFew == IsFiniteSet(Days)
<1>1. MaxHour \div DayHours \in Int
  BY DivGrows, RiskAssumption
<1> QED  BY <1>1, FS_Interval DEF Days

\* What record() adds.
LEMMA RecordIs ==
  ASSUME Day \in Days, NEW t \in Tallies, NEW p \in Traders, NEW v \in Nat, NEW n \in Int
  PROVE  /\ record(t, p, v, n) \in Tallies
         /\ record(t, p, v, n)[p][Day].value = t[p][Day].value + v
         /\ record(t, p, v, n)[p][Day].net = t[p][Day].net + n
         /\ \A q \in Traders : \A d \in Days :
              q # p \/ d # Day => record(t, p, v, n)[q][d] = t[q][d]
<1> DEFINE row == [count |-> t[p][Day].count + 1, value |-> t[p][Day].value + v, net |-> t[p][Day].net + n]
<1>1. record(t, p, v, n) = [t EXCEPT ![p] = [t[p] EXCEPT ![Day] = row]]
  BY DEF record, Tallies
<1>2. t[p] \in [Days -> [count : Nat, value : Nat, net : Int]]
  BY DEF Tallies
<1>3. row \in [count : Nat, value : Nat, net : Int]
  BY <1>2
<1>4. row.value = t[p][Day].value + v /\ row.net = t[p][Day].net + n
  OBVIOUS
<1> HIDE DEF row
<1> QED  BY <1>1, <1>2, <1>3, <1>4 DEF Tallies

LEMMA NetRecord ==
  ASSUME Day \in Days, NEW t \in Tallies, NEW p \in Traders, NEW v \in Nat, NEW n \in Int,
         NEW x \in Traders
  PROVE  /\ NetOf(t, x) \in Int
         /\ NetOf(record(t, p, v, n), x) = NetOf(t, x) + (IF x = p THEN n ELSE 0)
<1> DEFINE u == record(t, p, v, n)
           f == [d \in Days |-> t[x][d].net]
           g == [d \in Days |-> u[x][d].net]
<1>1. u \in Tallies /\ u[p][Day].net = t[p][Day].net + n
      /\ \A q \in Traders : \A d \in Days : q # p \/ d # Day => u[q][d] = t[q][d]
  BY RecordIs
<1> HIDE DEF u
<1>2. \A d \in Days : f[d] \in Int /\ g[d] \in Int
  BY <1>1 DEF Tallies
<1>3. \A d \in Days \ {Day} : f[d] = g[d]
  BY <1>1
<1>4. g[Day] - f[Day] = IF x = p THEN n ELSE 0
  BY <1>1, <1>2 DEF Tallies
<1>5. NetOf(t, x) = Sum(f, Days) /\ NetOf(u, x) = Sum(g, Days)
  BY SumOfFunction DEF NetOf
<1> HIDE DEF f, g
<1>6. Sum(g, Days) = Sum(f, Days) + (g[Day] - f[Day])
  BY <1>2, <1>3, DaysAreFew, SumChange
<1>7. Sum(f, Days) \in Int
  BY <1>2, DaysAreFew, SumInt
<1> QED  BY <1>4, <1>5, <1>6, <1>7 DEF u

LEMMA WorthInt ==
  ASSUME NEW h \in [Goods -> Traders], NEW x \in Traders
  PROVE  WorthOf(h, x) \in Int
<1> DEFINE f == [j \in Goods |-> IF h[j] = x THEN Price[j] ELSE 0]
<1>1. IsFiniteSet(Goods) /\ \A j \in Goods : f[j] \in Int
  BY RiskAssumption
<1>2. WorthOf(h, x) = Sum(f, Goods)
  BY SumOfFunction DEF WorthOf
<1> HIDE DEF f
<1> QED  BY <1>1, <1>2, SumInt

Hands == [Goods -> Traders]

\* What an item of somebody's adds to the worth of what a player has.
Share(whose, p, i) == IF whose[i] = p THEN Price[i] ELSE 0

LEMMA WorthMoves ==
  ASSUME NEW h \in Hands, NEW k \in Hands, NEW i \in Goods,
         \A j \in Goods \ {i} : k[j] = h[j], NEW x \in Traders
  PROVE  WorthOf(k, x) = WorthOf(h, x) + (Share(k, x, i) - Share(h, x, i))
<1> DEFINE f == [j \in Goods |-> IF h[j] = x THEN Price[j] ELSE 0]
           g == [j \in Goods |-> IF k[j] = x THEN Price[j] ELSE 0]
<1>0. IsFiniteSet(Goods)
  BY RiskAssumption
<1>1. \A j \in Goods : f[j] \in Int /\ g[j] \in Int /\ Price[j] \in Int
  BY RiskAssumption
<1>2. \A j \in Goods \ {i} : f[j] = g[j]
  OBVIOUS
<1>3. g[i] = Share(k, x, i) /\ f[i] = Share(h, x, i)
  BY DEF Share
<1>4. WorthOf(h, x) = Sum(f, Goods) /\ WorthOf(k, x) = Sum(g, Goods)
  BY SumOfFunction DEF WorthOf
<1> HIDE DEF f, g
<1>5. Sum(g, Goods) = Sum(f, Goods) + (g[i] - f[i])
  BY <1>0, <1>1, <1>2, SumChange
<1>6. Sum(f, Goods) \in Int
  BY <1>0, <1>1, SumInt
<1> QED  BY <1>1, <1>3, <1>4, <1>5, <1>6

-----------------------------------------------------------------------------
(* The steps. *)

LEMMA RiskStart == RiskInit => RiskInv
<1> SUFFICES ASSUME RiskInit PROVE RiskInv
  OBVIOUS
<1> USE RiskAssumption DEF RiskInit
<1>1. RiskTypeOK
  BY DEF RiskTypeOK, NoTrades
<1>2. RightTimes /\ InTime /\ ToOthers /\ NothingGoesEarly
  BY DEF RightTimes, InTime, ToOthers, NothingGoesEarly
<1>3. WithinQuota
  BY DEF WithinQuota, OneGift, NoTrades
<1>4. OutflowIsLoss
  <2> SUFFICES ASSUME NEW p \in Traders PROVE netFlowAlerts(p) = 0
    <3>1. \A p \in Traders : WorthOf(OwnerAtStart, p) \in Int
      BY WorthInt
    <3> QED  BY <3>1 DEF OutflowIsLoss
  <2> DEFINE f == [d \in Days |-> tally[p][d].net]
  <2>1. netFlowAlerts(p) = Sum(f, Days) /\ \A d \in Days : f[d] = 0
    BY SumOfFunction DEF netFlowAlerts, NoTrades
  <2> HIDE DEF f
  <2>2. Sum(f, Days) = 0 * Cardinality(Days)
    BY <2>1, DaysAreFew, SumConst
  <2>3. Cardinality(Days) \in Nat
    BY DaysAreFew, FS_CardinalityType
  <2> QED  BY <2>1, <2>2, <2>3
<1> QED  BY <1>1, <1>2, <1>3, <1>4 DEF RiskInv

SameBooks == UNCHANGED <<open, holder, place, terms, after, tally, got, early, bartered>>

LEMMA BooksSame ==
  ASSUME RiskInv, SameBooks
  PROVE  NothingGoesEarly' /\ OutflowIsLoss' /\ ToOthers' /\ (RightTimes /\ now' >= now /\ now \in Nat /\ now' \in Nat => RightTimes')
<1>1. NothingGoesEarly' /\ ToOthers'
  BY DEF RiskInv, SameBooks, NothingGoesEarly, ToOthers
<1>2. \A p \in Traders : netFlowAlerts(p)' = netFlowAlerts(p) /\ WorthOf(holder, p)' = WorthOf(holder, p)
  BY DEF SameBooks, netFlowAlerts, WorthOf
<1>3. OutflowIsLoss'
  BY <1>2 DEF RiskInv, SameBooks, OutflowIsLoss, WorthOf
<1>4. RightTimes /\ now' >= now /\ now \in Nat /\ now' \in Nat => RightTimes'
  BY DEF RiskInv, RiskTypeOK, SameBooks, RightTimes
<1> QED  BY <1>1, <1>3, <1>4

\* A handler begins that checked what the invariant says of it.
LEMMA BeginKeeps ==
  ASSUME RiskInv, NEW r \in Runs, NEW b, FitsHandler(b), SameBooks, now' = now, run[r] = None,
         run' = [run EXCEPT ![r] = b],
         Cooldown # 0 =>
           /\ b.op \in Movers => CheckHolds(b)
           /\ b.op \in {"gift", "offer"} => b.to # Sender(b)
           /\ b.op = "buy" => holder[b.item] # b.to \/ Stuck(b),
         open = {"gift"} =>
           /\ Gives(b) /\ tally[Sender(b)][Day].value + Price[b.item] <= MaxValue
           /\ \A s \in Runs : run[s] # None => run[s].lock # b.lock
  PROVE  RiskInv'
<1>1. run' = [s \in Runs |-> run'[s]] /\ run'[r] = b /\ \A s \in Runs : s # r => run'[s] = run[s]
  BY DEF RiskInv, RiskTypeOK
<1>2. RiskTypeOK'
  <2>1. \A s \in Runs : run'[s] # None => FitsHandler(run[s])'
    BY <1>1 DEF RiskInv, RiskTypeOK, FitsHandler, SameBooks
  <2> QED  BY <1>1, <2>1 DEF RiskInv, RiskTypeOK, SameBooks
<1>3. InTime'
  BY <1>1 DEF RiskInv, InTime, CheckHolds, Stuck, SameBooks
<1>4. WithinQuota'
  <2> SUFFICES ASSUME open = {"gift"} PROVE OneGift'
    BY DEF WithinQuota, SameBooks
  <2>1. OneGift
    BY DEF RiskInv, WithinQuota
  <2>2. Day' = Day
    BY DEF Day
  <2>3. \A s \in Runs : run'[s] # None =>
          Gives(run'[s]) /\ tally[Sender(run'[s])][Day].value + Price[run'[s].item] <= MaxValue
    BY <1>1, <2>1 DEF OneGift
  <2>4. \A s \in Runs : s # r /\ run[s] # None => Sender(run[s]) # Sender(b)
    BY <2>1 DEF OneGift, Gives
  <2>5. \A s, t \in Runs : s # t /\ run'[s] # None /\ run'[t] # None => Sender(run'[s]) # Sender(run'[t])
    BY <1>1, <2>1, <2>4 DEF OneGift
  <2> QED  BY <2>1, <2>2, <2>3, <2>5 DEF OneGift, SameBooks
<1>5. now \in Nat
  BY DEF RiskInv, RiskTypeOK
<1> QED  BY <1>2, <1>3, <1>4, <1>5, BooksSame DEF RiskInv

\* Where locks hold.
LEMMA LocksDiffer ==
  ASSUME NEW lock, Free(lock), "slow" \notin open
  PROVE  \A s \in Runs : run[s] # None => run[s].lock # lock
BY DEF Free, Busy

LEMMA MayGiveKeeps ==
  ASSUME RiskInv, NEW r \in Runs, NEW p \in Traders, NEW q \in Traders, NEW i \in Goods, MayGive(r, p, q, i)
  PROVE  RiskInv'
<1> DEFINE b == [op |-> "gift", lock |-> <<"pet", p>>, item |-> i, to |-> q, coin |-> 0, at |-> now]
<1>1. /\ run[r] = None /\ Free(<<"pet", p>>) /\ run' = [run EXCEPT ![r] = b] /\ SameBooks /\ now' = now
      /\ p # q /\ resolve(p, i) /\ assertDailyQuota(p, Price[i])
  BY DEF MayGive, Begin, SameBooks, Ghosts
<1>2. FitsHandler(b) /\ CheckHolds(b) /\ Gives(b) /\ Sender(b) = p
  BY <1>1 DEF RiskInv, RiskTypeOK, FitsHandler, CheckHolds, resolve, Gives, Sender, Movers
<1>3. tally[p][Day].value + Price[i] <= MaxValue
  BY <1>1 DEF assertDailyQuota
<1>4. b.op = "gift" /\ b.to = q /\ b.item = i /\ b.lock = <<"pet", p>>
  OBVIOUS
<1>5. open = {"gift"} => \A s \in Runs : run[s] # None => run[s].lock # b.lock
  BY <1>1, LocksDiffer
<1> HIDE DEF b
<1> QED  BY <1>1, <1>2, <1>3, <1>4, <1>5, BeginKeeps

\* The others begin only where more is open than gifts.
LEMMA MayListKeeps ==
  ASSUME RiskInv, NEW r \in Runs, NEW p \in Traders, NEW i \in Goods, MayList(r, p, i)
  PROVE  RiskInv'
<1> DEFINE b == [op |-> "list", lock |-> <<"pet", p>>, item |-> i, to |-> p, coin |-> 0, at |-> now]
<1>1. /\ run[r] = None /\ run' = [run EXCEPT ![r] = b] /\ SameBooks /\ now' = now
      /\ open # {"gift"} /\ resolve(p, i)
  BY DEF MayList, Begin, SameBooks, Ghosts
<1>2. FitsHandler(b) /\ CheckHolds(b) /\ b.op = "list"
  BY <1>1 DEF RiskInv, RiskTypeOK, FitsHandler, CheckHolds, resolve, Sender, Movers
<1> HIDE DEF b
<1> QED  BY <1>1, <1>2, BeginKeeps

LEMMA MayBuyKeeps ==
  ASSUME RiskInv, NEW r \in Runs, NEW q \in Traders, NEW i \in Goods, MayBuy(r, q, i)
  PROVE  RiskInv'
<1> DEFINE b == [op |-> "buy", lock |-> <<"listing", i>>, item |-> i, to |-> q, coin |-> 0, at |-> now]
<1>1. /\ run[r] = None /\ run' = [run EXCEPT ![r] = b] /\ SameBooks /\ now' = now
      /\ open # {"gift"} /\ holder[i] # q
  BY DEF MayBuy, Begin, SameBooks, Ghosts
<1>2. FitsHandler(b) /\ b.op = "buy" /\ b.item = i /\ b.to = q
  BY <1>1 DEF RiskInv, RiskTypeOK, FitsHandler, Movers
<1> HIDE DEF b
<1>3. b.op \notin Movers
  BY <1>2 DEF Movers
<1> QED  BY <1>1, <1>2, <1>3, BeginKeeps

LEMMA MayOfferKeeps ==
  ASSUME RiskInv, NEW r \in Runs, NEW p \in Traders, NEW q \in Traders, NEW i \in Goods, NEW coin \in Coins,
         MayOffer(r, p, q, i, coin)
  PROVE  RiskInv'
<1> DEFINE b == [op |-> "offer", lock |-> <<"trade", p>>, item |-> i, to |-> q, coin |-> coin, at |-> now]
<1>1. /\ run[r] = None /\ run' = [run EXCEPT ![r] = b] /\ SameBooks /\ now' = now
      /\ open # {"gift"} /\ resolve(p, i) /\ p # q
  BY DEF MayOffer, Begin, SameBooks, Ghosts
<1>2. FitsHandler(b) /\ CheckHolds(b) /\ b.op = "offer" /\ Sender(b) = p /\ b.to = q
  BY <1>1, RiskAssumption DEF RiskInv, RiskTypeOK, FitsHandler, CheckHolds, resolve, Sender, Movers
<1> HIDE DEF b
<1> QED  BY <1>1, <1>2, BeginKeeps

LEMMA MayAcceptKeeps ==
  ASSUME RiskInv, NEW r \in Runs, NEW q \in Traders, NEW i \in Goods, MayAccept(r, q, i)
  PROVE  RiskInv'
<1> DEFINE b == [op |-> "accept", lock |-> <<"trade", q>>, item |-> i, to |-> q, coin |-> terms[i].coin, at |-> now]
<1>1. /\ run[r] = None /\ run' = [run EXCEPT ![r] = b] /\ SameBooks /\ now' = now
      /\ place[i] = "offered"
  BY DEF MayAccept, Begin, SameBooks, Ghosts
<1>2. FitsHandler(b) /\ b.op = "accept"
  BY <1>1 DEF RiskInv, RiskTypeOK, FitsHandler, Movers
<1> HIDE DEF b
<1>3. b.op \notin Movers
  BY <1>2 DEF Movers
<1>4. open # {"gift"}
  BY <1>1 DEF RiskInv, WithinQuota, OneGift
<1> QED  BY <1>1, <1>2, <1>3, <1>4, BeginKeeps

\* A handler is done: nothing is asked of it any more.
LEMMA OthersLeft ==
  ASSUME RiskTypeOK, NEW r \in Runs, run' = [run EXCEPT ![r] = None]
  PROVE  /\ run' = [s \in Runs |-> run'[s]]
         /\ \A s \in Runs : run'[s] # None => s # r /\ run'[s] = run[s] /\ run[s] # None
BY DEF RiskTypeOK

LEMMA DropKeeps ==
  ASSUME RiskInv, NEW r \in Runs, Drop(r)
  PROVE  RiskInv'
<1>1. /\ SameBooks /\ now' = now /\ run' = [s \in Runs |-> run'[s]]
      /\ \A s \in Runs : run'[s] # None => run'[s] = run[s] /\ run[s] # None
  BY OthersLeft DEF Drop, RiskInv, SameBooks, Ghosts
<1>2. RiskTypeOK'
  BY <1>1 DEF RiskInv, RiskTypeOK, FitsHandler, SameBooks
<1>3. InTime'
  BY <1>1 DEF RiskInv, InTime, CheckHolds, Stuck, SameBooks
<1>4. WithinQuota'
  BY <1>1 DEF RiskInv, WithinQuota, OneGift, SameBooks, Day
<1>5. now \in Nat
  BY DEF RiskInv, RiskTypeOK
<1> QED  BY <1>1, <1>2, <1>3, <1>4, <1>5, BooksSame DEF RiskInv

LEMMA UnwindKeeps ==
  ASSUME RiskInv, NEW i \in Goods, Unwind(i)
  PROVE  RiskInv'
<1> USE DEF Unwind, RiskInv, Ghosts
<1>1. RiskTypeOK'
  BY DEF RiskTypeOK, FitsHandler
<1>2. /\ place' = [place EXCEPT ![i] = "held"] /\ \A j \in Goods : place[j] = "held" => place'[j] = "held"
      /\ \A j \in Goods : place'[j] = "offered" => place[j] = "offered" /\ terms'[j] = terms[j]
  BY DEF RiskTypeOK
<1>3. RightTimes' /\ ToOthers' /\ NothingGoesEarly'
  BY <1>2 DEF RightTimes, ToOthers, NothingGoesEarly
<1>4. InTime'
  BY <1>2 DEF InTime, CheckHolds, Stuck, RiskTypeOK, FitsHandler
<1>5. WithinQuota'
  BY <1>2 DEF WithinQuota, OneGift, Day
<1>6. OutflowIsLoss'
  BY DEF OutflowIsLoss, netFlowAlerts, WorthOf
<1> QED  BY <1>1, <1>3, <1>4, <1>5, <1>6

LEMMA TickKeeps ==
  ASSUME RiskInv, Tick
  PROVE  RiskInv'
<1>1. SameBooks /\ run' = run /\ now' = now + 1 /\ now < MaxHour
  BY DEF Tick, SameBooks, Ghosts
<1>2. now \in Nat /\ MaxHour \in Nat
  BY RiskAssumption DEF RiskInv, RiskTypeOK
<1>3. \A s \in Runs : run[s] # None => run[s].at = now
  BY DEF Tick, Busy
<1>4. RiskTypeOK'
  BY <1>1, <1>2, <1>3 DEF RiskInv, RiskTypeOK, FitsHandler, SameBooks
<1>5. InTime'
  BY <1>1 DEF RiskInv, InTime, CheckHolds, Stuck, SameBooks
<1>6. WithinQuota'
  <2> SUFFICES ASSUME open = {"gift"} PROVE OneGift'
    BY <1>1 DEF WithinQuota, SameBooks
  <2>1. OneGift
    BY DEF RiskInv, WithinQuota
  <2>2. Day \in Days /\ Day' \in Days /\ Day <= Day' /\ Day \in Int /\ Day' \in Int
    <3>1. Day = now \div DayHours /\ Day' = (now + 1) \div DayHours /\ DayHours \in Nat \ {0}
      BY <1>1, RiskAssumption DEF Day
    <3>2. now <= now + 1 /\ now + 1 <= MaxHour /\ now + 1 \in Nat /\ now <= MaxHour
      BY <1>1, <1>2
    <3>3. /\ Day \in Nat /\ Day' \in Nat /\ MaxHour \div DayHours \in Nat
          /\ Day <= Day' /\ Day <= MaxHour \div DayHours /\ Day' <= MaxHour \div DayHours
      BY <1>2, <3>1, <3>2, DivGrows
    <3> QED  BY <3>3 DEF Days
  <2>3. ASSUME NEW s \in Runs, run[s] # None
        PROVE  tally[Sender(run[s])][Day'].value + Price[run[s].item] <= MaxValue
    <3>1. Gives(run[s]) /\ tally[Sender(run[s])][Day].value + Price[run[s].item] <= MaxValue
      BY <2>1, <2>3 DEF OneGift
    <3>2. run[s].item \in Goods /\ Sender(run[s]) \in Traders
      BY <2>3, <3>1 DEF RiskInv, RiskTypeOK, FitsHandler, Gives, Movers
    <3>3. tally[Sender(run[s])][Day].value \in Nat /\ Price[run[s].item] \in Nat /\ MaxValue \in Nat
      BY <2>2, <3>2, RiskAssumption DEF RiskInv, RiskTypeOK
    <3>4. CASE Day' = Day
      BY <3>1, <3>4
    <3>5. CASE Day' > Day
      BY <3>1, <3>2, <3>3, <3>5, <2>1, <2>2 DEF OneGift
    <3> QED  BY <2>2, <3>4, <3>5
  <2>4. \A p \in Traders : \A d \in Days : d > Day' => tally[p][d].value = 0
    <3>1. \A d \in Days : d > Day' => d > Day
      BY <2>2 DEF Days
    <3> QED  BY <2>1, <3>1 DEF OneGift
  <2> QED  BY <1>1, <2>1, <2>3, <2>4 DEF OneGift, SameBooks
<1> QED  BY <1>1, <1>2, <1>4, <1>5, <1>6, BooksSame DEF RiskInv

-----------------------------------------------------------------------------
(* What is posted. *)

\* Whoever has checked the item that he has, or finds it in ESCROW, finds nobody's stuck.
LEMMA SenderIsFirst ==
  ASSUME RiskInv, Cooldown # 0, NEW r \in Runs, run[r] # None, run[r].op \in Movers,
         holder[run[r].item] = Sender(run[r])
  PROVE  /\ after[run[r].item] <= now
         /\ \A s \in Runs : run[s] # None /\ run[s].item = run[r].item => ~ Stuck(run[s])
<1> DEFINE i == run[r].item
<1>1. after[i] <= run[r].at /\ i \in Goods /\ run[r].at <= now /\ run[r].at \in Nat /\ now \in Nat
  BY DEF RiskInv, InTime, CheckHolds, RiskTypeOK, FitsHandler
<1>2. after[i] = got[i] + Cooldown /\ got[i] \in Int /\ after[i] \in Int
  BY <1>1 DEF RiskInv, RightTimes, RiskTypeOK
<1>3. Cooldown \in Nat /\ Cooldown >= 2
  BY RiskAssumption
<1>4. \A s \in Runs : run[s] # None => run[s].at \in Nat /\ now <= run[s].at + 1
  BY DEF RiskInv, RiskTypeOK, FitsHandler
<1> QED  BY <1>1, <1>2, <1>3, <1>4 DEF Stuck

\* Nothing leaves before its time.
LEMMA LeavesInTime ==
  ASSUME RiskInv, NEW r \in Runs, run[r] # None, run[r].op \in Movers,
         holder[run[r].item] = Sender(run[r]), Leaves(run[r].item)
  PROVE  NothingGoesEarly'
<1> DEFINE i == run[r].item
<1>1. i \in Goods /\ now \in Nat
  BY DEF RiskInv, RiskTypeOK, FitsHandler
<1>2. after[i] = got[i] + Cooldown /\ got[i] \in Int /\ got[i] <= now /\ Cooldown \in Nat
  BY <1>1, RiskAssumption DEF RiskInv, RightTimes, RiskTypeOK
<1>3. ~(now < got[i] + Cooldown)
  <2>1. CASE Cooldown = 0
    BY <1>1, <1>2, <2>1
  <2>2. CASE Cooldown # 0
    BY <1>1, <1>2, <2>2, SenderIsFirst
  <2> QED  BY <2>1, <2>2
<1> QED  BY <1>3 DEF Leaves, RiskInv, NothingGoesEarly

LEMMA LockKeeps ==
  ASSUME RiskInv, NEW r \in Runs, run[r] # None, Lock(run[r]), run' = [run EXCEPT ![r] = None],
         UNCHANGED <<open, now>>
  PROVE  RiskInv'
<1> DEFINE b == run[r]  i == run[r].item
<1>1. /\ b.op \in {"list", "offer"} /\ b.op \in Movers /\ holder[i] = Sender(b) /\ place[i] = "held"
      /\ holder' = holder /\ after' = after /\ tally' = tally /\ got' = got /\ bartered' = bartered
      /\ i \in Goods /\ FitsHandler(b) /\ Leaves(i)
  BY DEF Lock, Sender, Movers, RiskInv, RiskTypeOK, FitsHandler
<1>2. \/ b.op = "list" /\ place' = [place EXCEPT ![i] = "listed"] /\ terms' = terms
      \/ b.op = "offer" /\ place' = [place EXCEPT ![i] = "offered"]
           /\ terms' = [terms EXCEPT ![i] = [to |-> b.to, coin |-> b.coin]]
  BY DEF Lock
<1>3. /\ run' = [s \in Runs |-> run'[s]]
      /\ \A s \in Runs : run'[s] # None => s # r /\ run'[s] = run[s] /\ run[s] # None
  BY OthersLeft DEF RiskInv
<1>4. \A s \in Runs : run'[s] # None => FitsHandler(run[s])'
  BY <1>3 DEF RiskInv, RiskTypeOK, FitsHandler
<1>5. RiskTypeOK'
  <2>1. terms' = [j \in Goods |-> terms'[j]] /\ place' \in [Goods -> {"held", "listed", "offered"}]
    BY <1>1, <1>2 DEF RiskInv, RiskTypeOK
  <2>2. \A j \in Goods : place'[j] = "offered" => terms'[j].to \in Traders /\ terms'[j].coin \in Nat
    BY <1>1, <1>2 DEF RiskInv, RiskTypeOK, FitsHandler
  <2> QED  BY <1>1, <1>3, <1>4, <2>1, <2>2 DEF RiskInv, RiskTypeOK
<1>6. RightTimes'
  BY <1>1 DEF RiskInv, RightTimes
<1>7. ToOthers'
  <2> SUFFICES ASSUME Cooldown # 0, NEW j \in Goods, place'[j] = "offered" PROVE terms'[j].to # holder[j]
    BY <1>1 DEF ToOthers
  <2>1. b.op = "offer" => b.to # holder[i]
    BY <1>1 DEF RiskInv, InTime
  <2> QED  BY <1>1, <1>2, <2>1 DEF RiskInv, ToOthers, RiskTypeOK
<1>8. InTime'
  <2> SUFFICES ASSUME Cooldown # 0, NEW s \in Runs, run'[s] # None
               PROVE  /\ run'[s].op \in Movers => CheckHolds(run[s])'
                      /\ run'[s].op \in {"gift", "offer"} => run'[s].to # Sender(run[s])'
                      /\ run'[s].op = "buy" => holder'[run'[s].item] # run'[s].to \/ Stuck(run[s])'
    BY DEF InTime
  <2>1. run'[s] = run[s] /\ run[s] # None /\ run[s].item \in Goods
    BY <1>3 DEF RiskInv, RiskTypeOK, FitsHandler
  <2>2. run[s].item = i => ~ Stuck(run[s])
    BY <1>1, <2>1, SenderIsFirst
  <2>3. Stuck(run[s]) => Stuck(run[s])'
    BY <1>1, <1>2, <2>1, <2>2 DEF Stuck, RiskInv, RiskTypeOK
  <2> QED  BY <1>1, <2>1, <2>3 DEF RiskInv, InTime, CheckHolds, Sender
<1>9. WithinQuota'
  <2>1. open # {"gift"}
    BY <1>1 DEF RiskInv, WithinQuota, OneGift, Gives
  <2> QED  BY <2>1 DEF WithinQuota
<1>10. NothingGoesEarly'
  BY <1>1, LeavesInTime
<1>11. OutflowIsLoss'
  BY <1>1 DEF RiskInv, OutflowIsLoss, netFlowAlerts, WorthOf
<1> QED  BY <1>5, <1>6, <1>7, <1>8, <1>9, <1>10, <1>11 DEF RiskInv

-----------------------------------------------------------------------------
(* An item comes to a player. *)

\* Whatever brings it: nobody's check was of somebody else's item, and the next one
\* has to wait.
LEMMA ArrivalKeeps ==
  ASSUME RiskInv, NEW r \in Runs, NEW i \in Goods, NEW q \in Traders, Arrives(i, q),
         run' = [run EXCEPT ![r] = None], UNCHANGED <<open, now>>,
         Cooldown # 0 =>
           /\ q # holder[i]
           /\ \A s \in Runs : run[s] # None /\ run[s].item = i => ~ Stuck(run[s]),
         tally' \in Tallies, bartered' \in [Traders -> Int]
  PROVE  RiskTypeOK' /\ RightTimes' /\ InTime' /\ ToOthers'
<1>1. /\ holder' = [holder EXCEPT ![i] = q] /\ place' = [place EXCEPT ![i] = "held"]
      /\ terms' = [terms EXCEPT ![i] = None] /\ after' = [after EXCEPT ![i] = now + Cooldown]
      /\ got' = [got EXCEPT ![i] = now]
  BY DEF Arrives, Restart
<1>2. /\ run' = [s \in Runs |-> run'[s]]
      /\ \A s \in Runs : run'[s] # None => s # r /\ run'[s] = run[s] /\ run[s] # None
  BY OthersLeft DEF RiskInv
<1>3. now \in 0 .. MaxHour /\ now \in Int /\ Cooldown \in Int
  BY RiskAssumption DEF RiskInv, RiskTypeOK
<1>4. \A j \in Goods : j # i => /\ holder'[j] = holder[j] /\ place'[j] = place[j] /\ terms'[j] = terms[j]
                                /\ after'[j] = after[j] /\ got'[j] = got[j]
  BY <1>1 DEF RiskInv, RiskTypeOK
<1>5. /\ holder'[i] = q /\ place'[i] = "held" /\ after'[i] = now + Cooldown /\ got'[i] = now
  BY <1>1 DEF RiskInv, RiskTypeOK
<1>6. RiskTypeOK'
  <2>1. \A s \in Runs : run'[s] # None => FitsHandler(run[s])'
    BY <1>2 DEF RiskInv, RiskTypeOK, FitsHandler
  <2>2. \A j \in Goods : place'[j] = "offered" => terms'[j].to \in Traders /\ terms'[j].coin \in Nat
    BY <1>4, <1>5 DEF RiskInv, RiskTypeOK
  <2>3. holder' \in [Goods -> Traders] /\ place' \in [Goods -> {"held", "listed", "offered"}]
    BY <1>1 DEF RiskInv, RiskTypeOK
  <2>4. got' \in [Goods -> Int] /\ after' \in [Goods -> Int]
    BY <1>1, <1>3 DEF RiskInv, RiskTypeOK
  <2>5. terms' = [j \in Goods |-> terms'[j]]
    BY <1>1 DEF RiskInv, RiskTypeOK
  <2> QED  BY <1>2, <1>3, <2>1, <2>2, <2>3, <2>4, <2>5 DEF RiskTypeOK, Tallies
<1>7. RightTimes'
  BY <1>3, <1>4, <1>5 DEF RiskInv, RightTimes
<1>8. ToOthers'
  BY <1>4, <1>5 DEF RiskInv, ToOthers
<1>9. InTime'
  <2> SUFFICES ASSUME Cooldown # 0, NEW s \in Runs, run'[s] # None
               PROVE  /\ run'[s].op \in Movers => CheckHolds(run[s])'
                      /\ run'[s].op \in {"gift", "offer"} => run'[s].to # Sender(run[s])'
                      /\ run'[s].op = "buy" => holder'[run'[s].item] # run'[s].to \/ Stuck(run[s])'
    BY DEF InTime
  <2>1. run'[s] = run[s] /\ run[s] # None /\ FitsHandler(run[s])
    BY <1>2 DEF RiskInv, RiskTypeOK
  <2>2. /\ run[s].op \in Movers => CheckHolds(run[s])
        /\ run[s].op \in {"gift", "offer"} => run[s].to # Sender(run[s])
        /\ run[s].op = "buy" => holder[run[s].item] # run[s].to \/ Stuck(run[s])
    BY <2>1 DEF RiskInv, InTime
  <2>3. CASE run[s].item # i
    BY <1>4, <2>1, <2>2, <2>3 DEF CheckHolds, Stuck, Sender, FitsHandler
  <2>4. CASE run[s].item = i
    <3>1. Stuck(run[s])'
      BY <1>5, <2>1, <2>4 DEF Stuck, FitsHandler
    <3>2. run[s].op \in Movers => holder'[i] # Sender(run[s])
      BY <1>5, <2>1, <2>2, <2>4 DEF CheckHolds
    <3> QED  BY <2>1, <2>2, <2>4, <3>1, <3>2 DEF CheckHolds, Sender
  <2> QED  BY <2>3, <2>4
<1> QED  BY <1>6, <1>7, <1>8, <1>9

\* Two entries in the tally, and the sums with them.
LEMMA TwoRecords ==
  ASSUME RiskInv, NEW p \in Traders, NEW v \in Nat, NEW n \in Int,
         NEW q \in Traders, NEW w \in Nat, NEW m \in Int,
         tally' = record(record(tally, p, v, n), q, w, m)
  PROVE  /\ tally' \in Tallies
         /\ \A x \in Traders :
              /\ netFlowAlerts(x) \in Int
              /\ netFlowAlerts(x)' = netFlowAlerts(x) + (IF x = p THEN n ELSE 0) + (IF x = q THEN m ELSE 0)
<1>1. tally \in Tallies /\ Day \in Days
  BY DayIsOne DEF RiskInv, RiskTypeOK, Tallies
<1> DEFINE t == record(tally, p, v, n)
<1>2. t \in Tallies /\ record(t, q, w, m) \in Tallies
  BY <1>1, RecordIs
<1>3. ASSUME NEW x \in Traders
      PROVE  /\ netFlowAlerts(x) \in Int
             /\ netFlowAlerts(x)' = netFlowAlerts(x) + (IF x = p THEN n ELSE 0) + (IF x = q THEN m ELSE 0)
  <2>1. netFlowAlerts(x) = NetOf(tally, x) /\ netFlowAlerts(x)' = NetOf(tally', x)
    BY DEF netFlowAlerts, NetOf
  <2>2. NetOf(tally, x) \in Int /\ NetOf(t, x) = NetOf(tally, x) + (IF x = p THEN n ELSE 0)
    BY <1>1, NetRecord
  <2> HIDE DEF t
  <2>3. NetOf(record(t, q, w, m), x) = NetOf(t, x) + (IF x = q THEN m ELSE 0)
    BY <1>1, <1>2, NetRecord
  <2>4. tally' = record(t, q, w, m)
    BY DEF t
  <2> QED  BY <2>1, <2>2, <2>3, <2>4
<1> QED  BY <1>2, <1>3

LEMMA WorthArrives ==
  ASSUME RiskInv, NEW i \in Goods, NEW q \in Traders, Arrives(i, q), NEW x \in Traders
  PROVE  /\ WorthOf(holder, x) \in Int
         /\ WorthOf(holder, x)'
              = WorthOf(holder, x) + (IF q = x THEN Price[i] ELSE 0) - (IF holder[i] = x THEN Price[i] ELSE 0)
<1>1. holder \in [Goods -> Traders] /\ holder' = [holder EXCEPT ![i] = q]
  BY DEF RiskInv, RiskTypeOK, Arrives
<1>2. holder' \in [Goods -> Traders] /\ holder'[i] = q /\ \A j \in Goods \ {i} : holder'[j] = holder[j]
  BY <1>1
<1>3. WorthOf(holder', x) = WorthOf(holder, x) + (Share(holder', x, i) - Share(holder, x, i))
  <2>1. holder \in Hands /\ holder' \in Hands
    BY <1>1, <1>2 DEF Hands
  <2> QED  BY <1>2, <2>1, WorthMoves
<1>4. WorthOf(holder, x) \in Int /\ Price[i] \in Int
  <2>1. holder \in [Goods -> Traders]
    BY <1>1
  <2>2. Price[i] \in Int
    BY RiskAssumption
  <2>3. WorthOf(holder, x) \in Int
    BY <2>1, WorthInt
  <2> QED  BY <2>2, <2>3
<1>5. WorthOf(holder, x)' = WorthOf(holder', x)
  BY DEF WorthOf
<1> QED  BY <1>2, <1>3, <1>4, <1>5 DEF Share

\* The two entries of a change of hands are what it changes of what the two own, coins apart.
LEMMA BooksBalance ==
  ASSUME RiskInv, NEW i \in Goods, NEW q \in Traders, Arrives(i, q), NEW coin \in Nat,
         \A x \in Traders :
           /\ netFlowAlerts(x) \in Int
           /\ netFlowAlerts(x)' = netFlowAlerts(x) + (IF x = holder[i] THEN Price[i] - coin ELSE 0)
                                   + (IF x = q THEN coin - Price[i] ELSE 0),
         \A x \in Traders :
           bartered'[x] = bartered[x] + (IF x = holder[i] THEN coin ELSE 0) - (IF x = q THEN coin ELSE 0)
  PROVE  OutflowIsLoss'
<1> SUFFICES ASSUME NEW x \in Traders
             PROVE  netFlowAlerts(x)' = WorthOf(OwnerAtStart, x) - WorthOf(holder, x)' - bartered'[x]
  BY DEF OutflowIsLoss, WorthOf
<1>1. netFlowAlerts(x) = WorthOf(OwnerAtStart, x) - WorthOf(holder, x) - bartered[x]
  BY DEF RiskInv, OutflowIsLoss
<1>2. WorthOf(OwnerAtStart, x) \in Int /\ Price[i] \in Int /\ bartered[x] \in Int
  BY WorthInt, RiskAssumption DEF RiskInv, RiskTypeOK
<1>3. /\ WorthOf(holder, x) \in Int
      /\ WorthOf(holder, x)'
           = WorthOf(holder, x) + (IF q = x THEN Price[i] ELSE 0) - (IF holder[i] = x THEN Price[i] ELSE 0)
  BY WorthArrives
<1> QED  BY <1>1, <1>2, <1>3

LEMMA GiftCounts ==
  ASSUME Day \in Days, NEW t \in Tallies, NEW p \in Traders, NEW q \in Traders, NEW v \in Nat
  PROVE  \A x \in Traders : \A d \in Days :
           record(record(t, p, v, v), q, 0, -v)[x][d].value
             = t[x][d].value + (IF x = p /\ d = Day THEN v ELSE 0)
<1> DEFINE u == record(t, p, v, v)
<1>1. /\ u \in Tallies /\ u[p][Day].value = t[p][Day].value + v
      /\ \A x \in Traders : \A d \in Days : x # p \/ d # Day => u[x][d] = t[x][d]
  BY RecordIs
<1> HIDE DEF u
<1> DEFINE m == -v  o == 0
<1>2. o \in Nat /\ m \in Int
  OBVIOUS
<1> HIDE DEF m, o
<1>3. /\ record(u, q, o, m)[q][Day].value = u[q][Day].value + o
      /\ \A x \in Traders : \A d \in Days : x # q \/ d # Day => record(u, q, o, m)[x][d] = u[x][d]
  <2>1. record(u, q, o, m) \in Tallies
    BY <1>1, <1>2, RecordIs
  <2>2. record(u, q, o, m)[q][Day].value = u[q][Day].value + o
    BY <1>1, <1>2, RecordIs
  <2>3. \A x \in Traders : \A d \in Days : x # q \/ d # Day => record(u, q, o, m)[x][d] = u[x][d]
    BY <1>1, <1>2, RecordIs
  <2> QED  BY <2>2, <2>3
<1>4. \A x \in Traders : \A d \in Days : t[x][d].value \in Nat /\ u[x][d].value \in Nat
  BY <1>1 DEF Tallies
<1> QED  BY <1>1, <1>3, <1>4 DEF u, m, o

\* A gift is on the day's account of the giver, who is alone at it.
LEMMA GiveKeeps ==
  ASSUME RiskInv, NEW r \in Runs, run[r] # None, Give(run[r]), run' = [run EXCEPT ![r] = None],
         UNCHANGED <<open, now>>
  PROVE  RiskInv'
<1> DEFINE b == run[r]  i == run[r].item  p == Sender(run[r])  q == run[r].to
<1>1. /\ b.op = "gift" /\ b.op \in Movers /\ holder[i] = p /\ place[i] = "held"
      /\ Leaves(i) /\ Arrives(i, q) /\ bartered' = bartered
      /\ tally' = record(record(tally, p, Price[i], Price[i]), q, 0, -Price[i])
  BY DEF Give, Sender, Movers
<1>2. FitsHandler(b) /\ i \in Goods /\ p \in Traders /\ q \in Traders /\ Price[i] \in Nat
  BY <1>1, RiskAssumption DEF RiskInv, RiskTypeOK, FitsHandler
<1>3. /\ tally' \in Tallies
      /\ \A x \in Traders :
           /\ netFlowAlerts(x) \in Int
           /\ netFlowAlerts(x)' = netFlowAlerts(x) + (IF x = p THEN Price[i] ELSE 0) + (IF x = q THEN -Price[i] ELSE 0)
  <2> DEFINE P == Price[i]
  <2>1. P \in Nat /\ 0 \in Nat /\ P \in Int /\ -P \in Int /\ p \in Traders /\ q \in Traders
    BY <1>2
  <2>2. tally' = record(record(tally, p, P, P), q, 0, -P)
    BY <1>1
  <2> HIDE DEF P, p, q
  <2> QED  BY <2>1, <2>2, TwoRecords DEF P
<1>4. NothingGoesEarly'
  BY <1>1, LeavesInTime
<1>5. RiskTypeOK' /\ RightTimes' /\ InTime' /\ ToOthers'
  <2>1. Cooldown # 0 => q # holder[i] /\ \A s \in Runs : run[s] # None /\ run[s].item = i => ~ Stuck(run[s])
    BY <1>1, SenderIsFirst DEF RiskInv, InTime
  <2> QED  BY <1>1, <1>2, <1>3, <2>1, ArrivalKeeps DEF RiskInv, RiskTypeOK
<1>6. OutflowIsLoss'
  <2>1. \A x \in Traders :
          /\ netFlowAlerts(x) \in Int
          /\ netFlowAlerts(x)' = netFlowAlerts(x) + (IF x = holder[i] THEN Price[i] - 0 ELSE 0)
                                   + (IF x = q THEN 0 - Price[i] ELSE 0)
    BY <1>1, <1>2, <1>3
  <2>2. \A x \in Traders :
          bartered'[x] = bartered[x] + (IF x = holder[i] THEN 0 ELSE 0) - (IF x = q THEN 0 ELSE 0)
    BY <1>1 DEF RiskInv, RiskTypeOK
  <2> QED  BY <1>1, <1>2, <2>1, <2>2, BooksBalance
<1>7. WithinQuota'
  <2> SUFFICES ASSUME open = {"gift"} PROVE OneGift'
    BY DEF WithinQuota
  <2>1. OneGift
    BY DEF RiskInv, WithinQuota
  <2>2. Day' = Day /\ Day \in Days
    BY DayIsOne DEF RiskInv, Day
  <2>3. /\ run' = [s \in Runs |-> run'[s]]
        /\ \A s \in Runs : run'[s] # None => s # r /\ run'[s] = run[s] /\ run[s] # None
    BY OthersLeft DEF RiskInv
  <2>4. place' = [place EXCEPT ![i] = "held"] /\ \A j \in Goods : place'[j] = "held"
    BY <1>1, <2>1 DEF Arrives, OneGift, RiskInv, RiskTypeOK
  <2>7. \A x \in Traders : \A d \in Days :
          tally'[x][d].value = tally[x][d].value + (IF x = p /\ d = Day THEN Price[i] ELSE 0)
    <3> DEFINE P == Price[i]
    <3>1. P \in Nat /\ p \in Traders /\ q \in Traders /\ tally \in Tallies /\ Day \in Days
      BY <1>2, <2>2 DEF RiskInv, RiskTypeOK, Tallies
    <3>2. tally' = record(record(tally, p, P, P), q, 0, -P)
      BY <1>1
    <3> HIDE DEF P, p, q
    <3> QED  BY <3>1, <3>2, GiftCounts DEF P
  <2>8. \A x \in Traders : \A d \in Days : tally[x][d].value \in Nat
    BY DEF RiskInv, RiskTypeOK
  <2>9. \A s \in Runs : run'[s] # None =>
          Gives(run'[s]) /\ tally'[Sender(run'[s])][Day].value + Price[run'[s].item] <= MaxValue
    <3> SUFFICES ASSUME NEW s \in Runs, run'[s] # None
                 PROVE  Gives(run[s]) /\ tally'[Sender(run[s])][Day].value + Price[run[s].item] <= MaxValue
      BY <2>3
    <3>1. run[s] # None /\ s # r /\ Gives(run[s]) /\ Sender(run[s]) # p
          /\ tally[Sender(run[s])][Day].value + Price[run[s].item] <= MaxValue
      BY <2>1, <2>3 DEF OneGift
    <3>2. Sender(run[s]) \in Traders
      BY <3>1 DEF RiskInv, RiskTypeOK, FitsHandler, Gives, Movers
    <3> QED  BY <2>2, <2>7, <2>8, <3>1, <3>2
  <2>10. \A x \in Traders : \A d \in Days : tally'[x][d].value <= MaxValue
    <3>1. tally[p][Day].value + Price[i] <= MaxValue
      BY <2>1 DEF OneGift
    <3> QED  BY <1>2, <2>1, <2>7, <2>8, <3>1 DEF OneGift
  <2>11. \A x \in Traders : \A d \in Days : d > Day => tally'[x][d].value = 0
    <3>1. \A d \in Days : d > Day => d # Day
      BY <2>2 DEF Days
    <3> QED  BY <1>2, <2>1, <2>7, <2>8, <3>1 DEF OneGift
  <2>12. \A s, u \in Runs : s # u /\ run'[s] # None /\ run'[u] # None => Sender(run'[s]) # Sender(run'[u])
    BY <2>1, <2>3 DEF OneGift
  <2> QED  BY <2>2, <2>4, <2>9, <2>10, <2>11, <2>12 DEF OneGift
<1> QED  BY <1>4, <1>5, <1>6, <1>7 DEF RiskInv

LEMMA SaleKeeps ==
  ASSUME RiskInv, NEW r \in Runs, run[r] # None, settleTrade(run[r]), run' = [run EXCEPT ![r] = None],
         UNCHANGED <<open, now>>
  PROVE  RiskInv'
<1> DEFINE b == run[r]  i == run[r].item  p == holder[run[r].item]  q == run[r].to
<1>1. /\ b.op = "buy" /\ place[i] = "listed" /\ Arrives(i, q) /\ early' = early /\ bartered' = bartered
      /\ tally' = record(record(tally, q, Price[i], -Price[i]), p, 0, Price[i])
  BY DEF settleTrade
<1>2. i \in Goods /\ p \in Traders /\ q \in Traders /\ Price[i] \in Nat
  BY RiskAssumption DEF RiskInv, RiskTypeOK, FitsHandler
<1>3. /\ tally' \in Tallies
      /\ \A x \in Traders :
           /\ netFlowAlerts(x) \in Int
           /\ netFlowAlerts(x)' = netFlowAlerts(x) + (IF x = q THEN -Price[i] ELSE 0) + (IF x = p THEN Price[i] ELSE 0)
  <2> DEFINE P == Price[i]
  <2>1. P \in Nat /\ 0 \in Nat /\ P \in Int /\ -P \in Int /\ p \in Traders /\ q \in Traders
    BY <1>2
  <2>2. tally' = record(record(tally, q, P, -P), p, 0, P)
    BY <1>1
  <2> HIDE DEF P, p, q
  <2> QED  BY <2>1, <2>2, TwoRecords DEF P
<1>4. NothingGoesEarly'
  BY <1>1 DEF RiskInv, NothingGoesEarly
<1>5. RiskTypeOK' /\ RightTimes' /\ InTime' /\ ToOthers'
  <2>1. Cooldown # 0 => q # holder[i] /\ \A s \in Runs : run[s] # None /\ run[s].item = i => ~ Stuck(run[s])
    BY <1>1 DEF RiskInv, InTime, Stuck
  <2> QED  BY <1>1, <1>2, <1>3, <2>1, ArrivalKeeps DEF RiskInv, RiskTypeOK
<1>6. OutflowIsLoss'
  <2>1. \A x \in Traders :
          /\ netFlowAlerts(x) \in Int
          /\ netFlowAlerts(x)' = netFlowAlerts(x) + (IF x = holder[i] THEN Price[i] - 0 ELSE 0)
                                   + (IF x = q THEN 0 - Price[i] ELSE 0)
    BY <1>1, <1>2, <1>3
  <2>2. \A x \in Traders :
          bartered'[x] = bartered[x] + (IF x = holder[i] THEN 0 ELSE 0) - (IF x = q THEN 0 ELSE 0)
    BY <1>1 DEF RiskInv, RiskTypeOK
  <2> QED  BY <1>1, <1>2, <2>1, <2>2, BooksBalance
<1>7. WithinQuota'
  BY <1>1, <1>2 DEF RiskInv, WithinQuota, OneGift
<1> QED  BY <1>4, <1>5, <1>6, <1>7 DEF RiskInv

LEMMA BarterKeeps ==
  ASSUME RiskInv, NEW r \in Runs, run[r] # None, settle(run[r]), run' = [run EXCEPT ![r] = None],
         UNCHANGED <<open, now>>
  PROVE  RiskInv'
<1> DEFINE b == run[r]  i == run[r].item  p == holder[run[r].item]  q == run[r].to  c == run[r].coin
<1>1. /\ place[i] = "offered" /\ terms[i] = [to |-> q, coin |-> c] /\ Arrives(i, q) /\ early' = early
      /\ tally' = record(record(tally, p, Price[i], Price[i] - c), q, c, c - Price[i])
      /\ bartered' = [bartered EXCEPT ![p] = @ + c, ![q] = @ - c]
  BY DEF settle
<1>2. i \in Goods /\ p \in Traders /\ q \in Traders /\ Price[i] \in Nat /\ c \in Nat
  BY RiskAssumption DEF RiskInv, RiskTypeOK, FitsHandler
<1>3. /\ tally' \in Tallies
      /\ \A x \in Traders :
           /\ netFlowAlerts(x) \in Int
           /\ netFlowAlerts(x)' = netFlowAlerts(x) + (IF x = p THEN Price[i] - c ELSE 0)
                                                   + (IF x = q THEN c - Price[i] ELSE 0)
  <2> DEFINE P == Price[i]
  <2>1. P \in Nat /\ c \in Nat /\ P - c \in Int /\ c - P \in Int /\ p \in Traders /\ q \in Traders
    BY <1>2
  <2>2. tally' = record(record(tally, p, P, P - c), q, c, c - P)
    BY <1>1
  <2> HIDE DEF P, p, q, c
  <2>3. /\ tally' \in Tallies
        /\ \A x \in Traders :
             /\ netFlowAlerts(x) \in Int
             /\ netFlowAlerts(x)' = netFlowAlerts(x) + (IF x = p THEN P - c ELSE 0) + (IF x = q THEN c - P ELSE 0)
    BY <2>1, <2>2, TwoRecords
  <2> QED  BY <2>3 DEF P
<1>4. NothingGoesEarly'
  BY <1>1 DEF RiskInv, NothingGoesEarly
<1>5. /\ bartered' \in [Traders -> Int]
      /\ \A x \in Traders : bartered'[x] = bartered[x] + (IF x = p THEN c ELSE 0) - (IF x = q THEN c ELSE 0)
  <2>1. bartered \in [Traders -> Int]
    BY DEF RiskInv, RiskTypeOK
  <2> HIDE DEF p, q, c
  <2> QED  BY <1>1, <1>2, <2>1
<1>6. RiskTypeOK' /\ RightTimes' /\ InTime' /\ ToOthers'
  <2>1. Cooldown # 0 => q # holder[i] /\ \A s \in Runs : run[s] # None /\ run[s].item = i => ~ Stuck(run[s])
    BY <1>1, <1>2 DEF RiskInv, ToOthers, Stuck
  <2>2. Arrives(i, q) /\ run' = [run EXCEPT ![r] = None] /\ UNCHANGED <<open, now>>
    BY <1>1
  <2>3. tally' \in Tallies /\ bartered' \in [Traders -> Int] /\ i \in Goods /\ q \in Traders
    BY <1>2, <1>3, <1>5
  <2> HIDE DEF i, p, q, c
  <2> QED  BY <2>1, <2>2, <2>3, ArrivalKeeps
<1>7. OutflowIsLoss'
  <2>1. i \in Goods /\ q \in Traders /\ c \in Nat /\ Arrives(i, q) /\ p = holder[i]
    BY <1>1, <1>2
  <2> HIDE DEF i, p, q, c
  <2> QED  BY <1>3, <1>5, <2>1, BooksBalance
<1>8. WithinQuota'
  BY <1>1, <1>2 DEF RiskInv, WithinQuota, OneGift
<1> QED  BY <1>4, <1>6, <1>7, <1>8 DEF RiskInv

LEMMA RiskStep == RiskInv /\ [RiskNext]_riskVars => RiskInv'
<1> SUFFICES ASSUME RiskInv, [RiskNext]_riskVars PROVE RiskInv'
  OBVIOUS
<1>1. ASSUME NEW r \in Runs, NEW p \in Traders, NEW q \in Traders, NEW i \in Goods, MayGive(r, p, q, i)
      PROVE  RiskInv'
  BY <1>1, MayGiveKeeps
<1>2. ASSUME NEW r \in Runs, NEW p \in Traders, NEW q \in Traders, NEW i \in Goods, NEW coin \in Coins,
             MayOffer(r, p, q, i, coin)
      PROVE  RiskInv'
  BY <1>2, MayOfferKeeps
<1>3. ASSUME NEW r \in Runs, NEW p \in Traders, NEW i \in Goods,
             MayList(r, p, i) \/ MayBuy(r, p, i) \/ MayAccept(r, p, i)
      PROVE  RiskInv'
  BY <1>3, MayListKeeps, MayBuyKeeps, MayAcceptKeeps
<1>4. ASSUME NEW r \in Runs, Post(r) PROVE RiskInv'
  <2>1. /\ run[r] # None /\ run' = [run EXCEPT ![r] = None] /\ UNCHANGED <<open, now>>
        /\ Give(run[r]) \/ Lock(run[r]) \/ settleTrade(run[r]) \/ settle(run[r])
    BY <1>4 DEF Post
  <2> QED  BY <2>1, GiveKeeps, LockKeeps, SaleKeeps, BarterKeeps
<1>5. ASSUME NEW r \in Runs, Drop(r) PROVE RiskInv'
  BY <1>5, DropKeeps
<1>6. ASSUME NEW i \in Goods, Unwind(i) PROVE RiskInv'
  BY <1>6, UnwindKeeps
<1>7. CASE Tick
  BY <1>7, TickKeeps
<1>8. CASE UNCHANGED riskVars
  <2>1. SameBooks /\ now' = now /\ run' = run
    BY <1>8 DEF riskVars, SameBooks
  <2>2. RiskTypeOK' /\ InTime' /\ WithinQuota'
    BY <2>1 DEF RiskInv, RiskTypeOK, FitsHandler, InTime, CheckHolds, Stuck, WithinQuota, OneGift, Day, SameBooks
  <2>3. now \in Nat
    BY DEF RiskInv, RiskTypeOK
  <2> QED  BY <2>1, <2>2, <2>3, BooksSame DEF RiskInv
<1> QED  BY <1>1, <1>2, <1>3, <1>4, <1>5, <1>6, <1>7, <1>8 DEF RiskNext

(* Nothing goes on before its time and the outflow on record is what was   *)
(* lost, whichever locks a check was made under and though they run out;   *)
(* and of gifts alone, while their locks hold, no more than the quota in a *)
(* day (trade-risk.service.ts).                                            *)
THEOREM TradeStaysInBounds == RiskSpec => []RiskHolds
<1>1. RiskInv => RiskHolds
  <2> SUFFICES ASSUME RiskInv PROVE QuotaHolds
    BY DEF RiskInv, RiskHolds
  <2> QED  BY DEF RiskInv, WithinQuota, OneGift, QuotaHolds
<1> QED  BY <1>1, RiskStart, RiskStep, PTL DEF RiskSpec
=============================================================================
