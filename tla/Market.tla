------------------------------- MODULE Market -------------------------------
(***************************************************************************)
(* The market: fixed-price listings and auctions, with the money that      *)
(* bids freeze. A handler of a listing runs under the Redis lock           *)
(* "market:listing:{id}"; it reads the listing and the highest bid, checks *)
(* them, and only then opens its transaction. So every request is two      *)
(* actions, Enter (lock, read, check) and its commit. The lock has a TTL   *)
(* of 5 s and is not renewed: where "lapses" is in the regime, a second    *)
(* request may enter while a slow one is still inside.                     *)
(*                                                                         *)
(* A transaction is atomic (Posting.tla); one that dies leaves no trace    *)
(* and is the same as a request that never came. Putting an item up for    *)
(* sale is in Instances.tla: listings are open from the start here.        *)
(***************************************************************************)
EXTENDS Integers, Sequences, FiniteSets, Functions

CONSTANTS
  Users, Nobody,
  Listings,      \* ids, ordered by expires_at
  SellerOf,      \* market_listing.seller_account_id
  Auctions,      \* the listings with mode = 'auction'
  AskOf,         \* market_listing.price: the price, or the lowest bid
  FeeBps,        \* market_listing.fee_bps
  Money,         \* bound: what each user starts with
  MaxPrice, MaxBids,   \* bounds
  MaxInside,     \* bound: requests in one listing's lock, when locks lapse
  Quota,         \* market.risk.maxValuePerDay
  Limit,         \* findExpiredListings' limit (200)
  Regimes        \* sets out of "lapses" (locks run out) and "bans" (operators ban users)

ASSUME MarketAssumption ==
  /\ Listings \subseteq Nat /\ Auctions \subseteq Listings
  /\ SellerOf \in [Listings -> Users] /\ AskOf \in [Listings -> Nat]
  /\ IsFiniteSet(Users) /\ Nobody \notin Users /\ FeeBps \in 0 .. 10000
  /\ {Money, MaxPrice, MaxBids, MaxInside, Quota, Limit} \subseteq Nat
  /\ Regimes \subseteq SUBSET {"lapses", "bans"}

VARIABLES
  wallet, frozen, fees,   \* asset_balance of the currency; the FEE account
  status, overdue,        \* market_listing.status; expires_at <= now()
  item,                   \* who has the listed item: Nobody while it is in ESCROW
  bids,                   \* market_bid rows by id: [listing, user, price, status]
  inside,                 \* requests past their checks
  value,                  \* trade_risk_daily.trade_value of the day
  banned,
  regime                  \* what may go wrong; never changes

vars == <<wallet, frozen, fees, status, overdue, item, bids, inside, value, banned, regime>>

Bid == [listing : Listings, user : Users, price : 1 .. MaxPrice,
        status : {"active", "outbid", "cancelled", "won"}]
Request == [op : {"buy", "bid", "cancel", "settle", "expire"}, listing : Listings,
            user : Users, price : Nat, top : Nat]

TypeOK ==
  /\ wallet \in [Users -> Nat] /\ frozen \in [Users -> Nat] /\ fees \in Nat
  /\ status \in [Listings -> {"listed", "sold", "cancelled", "expired"}]
  /\ overdue \in [Listings -> BOOLEAN]
  /\ item \in [Listings -> Users \cup {Nobody}]
  /\ bids \in Seq(Bid) /\ inside \subseteq Request
  /\ value \in [Users -> Nat] /\ banned \subseteq Users /\ regime \in Regimes

Init ==
  /\ wallet = [u \in Users |-> Money] /\ frozen = [u \in Users |-> 0] /\ fees = 0
  /\ status = [l \in Listings |-> "listed"] /\ overdue = [l \in Listings |-> FALSE]
  /\ item = [l \in Listings |-> Nobody]
  /\ bids = <<>> /\ inside = {}
  /\ value = [u \in Users |-> 0] /\ banned = {} /\ regime \in Regimes

-----------------------------------------------------------------------------
(* Entering: the lock, the reads and the checks. *)

Active(l)  == {n \in DOMAIN bids : bids[n].listing = l /\ bids[n].status = "active"}
\* topBid: by price, then by age; 0 for none.
TopOf(l) ==
  IF Active(l) = {} THEN 0
  ELSE CHOOSE n \in Active(l) :
         \A k \in Active(l) : bids[k].price < bids[n].price \/ (bids[k].price = bids[n].price /\ n <= k)

Enter(op, l, u, price) ==
  /\ Cardinality({r \in inside : r.listing = l}) < IF "lapses" \in regime THEN MaxInside ELSE 1
  /\ status[l] = "listed"
  /\ inside' = inside \cup {[op |-> op, listing |-> l, user |-> u, price |-> price, top |-> TopOf(l)]}
  /\ UNCHANGED <<regime, wallet, frozen, fees, status, overdue, item, bids, value, banned>>

\* PlayerStatusGuard and the checks common to bid and buyNow.
MayTrade(u, l, price) ==
  /\ u \notin banned /\ u # SellerOf[l] /\ ~overdue[l]
  /\ value[u] + price <= Quota

EnterBuy(u, l) ==
  /\ l \notin Auctions
  /\ MayTrade(u, l, AskOf[l])
  /\ Enter("buy", l, u, AskOf[l])

\* Faulty: only the asking price counts.
AnyPrice(p, n) == TRUE

Above(p, n) == n # 0 => p > bids[n].price

EnterBid(u, l, price) ==
  /\ l \in Auctions /\ Len(bids) + Cardinality(inside) < MaxBids
  /\ MayTrade(u, l, price)
  /\ price >= AskOf[l] /\ Above(price, TopOf(l))
  /\ TopOf(l) # 0 => bids[TopOf(l)].user # u
  /\ Enter("bid", l, u, price)

EnterCancel(u, l) == u = SellerOf[l] /\ u \notin banned /\ Enter("cancel", l, u, 0)
EnterForceCancel(l) == Enter("cancel", l, SellerOf[l], 0)

\* Faulty: the query forgets the status.
AllOverdue == {l \in Listings : overdue[l]}

Stale == {l \in Listings : status[l] = "listed" /\ overdue[l]}
Picked(l) == l \in Stale /\ Cardinality({k \in Stale : k < l}) < Limit

\* settleExpired: the Limit first of the overdue; an auction with bids is
\* settled, everything else goes back.
EnterExpired(l) ==
  /\ Picked(l)
  /\ Enter(IF l \in Auctions /\ TopOf(l) # 0 THEN "settle" ELSE "expire", l, SellerOf[l], 0)

-----------------------------------------------------------------------------
(* Transactions. *)

Fee(price) == (price * FeeBps) \div 10000
Leave(r)   == inside' = inside \ {r}

\* A voucher of a reason that a ban stops.
Clear(S) == S \cap banned = {}

Refund(B, u) == SumFunction([n \in B |-> IF bids[n].user = u THEN bids[n].price ELSE 0])
Bidders(B)   == {bids[n].user : n \in B}

\* refundBid of every bid of B: key bid-refund:{listing}:{bid}, so only once each.
Refundable(B) ==
  /\ Clear(Bidders(B))
  /\ \A n \in B : bids[n].status \in {"active", "won"}
  /\ \A u \in Users : frozen[u] >= Refund(B, u)

\* Faulty: the money goes back, the row stays active.
StaysActive(B, st) == bids

Marked(B, st) == [n \in DOMAIN bids |-> IF n \in B THEN [bids[n] EXCEPT !.status = st] ELSE bids[n]]

OutbidSet(r) == {r.top} \ {0}

CanPay(u, price) == wallet[u] >= price

\* bid: freeze, refund the highest bid that was read, insert. Neither the
\* listing nor the highest bid is looked at again.
CommitBid(r) ==
  LET B == OutbidSet(r)
  IN  /\ r \in inside /\ r.op = "bid" /\ Leave(r)
      /\ Clear({r.user}) /\ CanPay(r.user, r.price) /\ Refundable(B)
      /\ \A n \in Active(r.listing) : bids[n].user # r.user       \* uq_bid_active_bidder
      /\ wallet' = [u \in Users |-> wallet[u] + Refund(B, u) - IF u = r.user THEN r.price ELSE 0]
      /\ frozen' = [u \in Users |-> frozen[u] - Refund(B, u) + IF u = r.user THEN r.price ELSE 0]
      /\ bids' = Append(Marked(B, "outbid"),
                        [listing |-> r.listing, user |-> r.user, price |-> r.price, status |-> "active"])
      /\ UNCHANGED <<regime, fees, status, overdue, item, value, banned>>

\* settleTrade's rows besides the balances: the listing, the item, the day's figures.
Sold(l, buyer, price) ==
  /\ status[l] = "listed"
  /\ status' = [status EXCEPT ![l] = "sold"]
  /\ item' = [item EXCEPT ![l] = buyer]
  /\ value' = [value EXCEPT ![buyer] = @ + price]
  /\ fees' = fees + Fee(price)

Gain(l, u, price) == IF u = SellerOf[l] THEN price - Fee(price) ELSE 0

CommitBuy(r) ==
  /\ r \in inside /\ r.op = "buy" /\ Leave(r)
  /\ Clear({r.user, SellerOf[r.listing]}) /\ CanPay(r.user, r.price)
  /\ wallet' = [u \in Users |-> wallet[u] + Gain(r.listing, u, r.price) - IF u = r.user THEN r.price ELSE 0]
  /\ Sold(r.listing, r.user, r.price)
  /\ UNCHANGED <<regime, frozen, overdue, bids, banned>>

\* settleAuction: the highest bid is the one that was read, the others are read now.
Losers(r) == Active(r.listing) \ {r.top}

CommitSettle(r) ==
  LET winner == bids[r.top].user
      price  == bids[r.top].price
      B      == Losers(r)
  IN  /\ r \in inside /\ r.op = "settle" /\ Leave(r)
      /\ Clear({winner, SellerOf[r.listing]}) /\ Refundable(B)
      /\ frozen[winner] >= price + Refund(B, winner)
      /\ frozen' = [u \in Users |-> frozen[u] - Refund(B, u) - IF u = winner THEN price ELSE 0]
      /\ wallet' = [u \in Users |-> wallet[u] + Refund(B, u) + Gain(r.listing, u, price)]
      /\ bids' = [Marked(B, "cancelled") EXCEPT ![r.top].status = "won"]
      /\ Sold(r.listing, winner, price)
      /\ UNCHANGED <<regime, overdue, banned>>

OpenBids(r) == Active(r.listing)

\* unwind: the bids it gives back are read in its transaction.
CommitUnwind(r) ==
  LET B == OpenBids(r)
  IN  /\ r \in inside /\ r.op \in {"cancel", "expire"} /\ Leave(r)
      /\ Clear({SellerOf[r.listing]}) /\ Refundable(B)
      /\ status[r.listing] = "listed"
      /\ status' = [status EXCEPT ![r.listing] = IF r.op = "cancel" THEN "cancelled" ELSE "expired"]
      /\ item' = [item EXCEPT ![r.listing] = SellerOf[r.listing]]
      /\ wallet' = [u \in Users |-> wallet[u] + Refund(B, u)]
      /\ frozen' = [u \in Users |-> frozen[u] - Refund(B, u)]
      /\ bids' = Marked(B, "cancelled")
      /\ UNCHANGED <<regime, fees, overdue, value, banned>>

Commit(r) == CommitBid(r) \/ CommitBuy(r) \/ CommitSettle(r) \/ CommitUnwind(r)

\* The transaction throws: nothing stays, the lock is released.
Fail(r) ==
  /\ r \in inside /\ ~ENABLED Commit(r)
  /\ Leave(r)
  /\ UNCHANGED <<regime, wallet, frozen, fees, status, overdue, item, bids, value, banned>>

-----------------------------------------------------------------------------
Expires(l) ==
  /\ ~overdue[l]
  /\ overdue' = [overdue EXCEPT ![l] = TRUE]
  /\ UNCHANGED <<regime, wallet, frozen, fees, status, item, bids, inside, value, banned>>

Ban(u) ==
  /\ "bans" \in regime
  /\ banned' \in {banned \cup {u}, banned \ {u}}        \* ban, unban
  /\ UNCHANGED <<regime, wallet, frozen, fees, status, overdue, item, bids, inside, value>>

Next ==
  \/ \E l \in Listings, u \in Users :
       EnterBuy(u, l) \/ EnterCancel(u, l) \/ \E p \in 1 .. MaxPrice : EnterBid(u, l, p)
  \/ \E l \in Listings : EnterForceCancel(l) \/ EnterExpired(l) \/ Expires(l)
  \/ \E r \in inside :
       CommitBid(r) \/ CommitBuy(r) \/ CommitSettle(r) \/ CommitUnwind(r) \/ Fail(r)
  \/ \E u \in Users : Ban(u)

Spec == Init /\ [][Next]_vars

\* The clock passes every expiry date, the cron runs every five minutes, and
\* a request that is inside commits or throws.
Fairness ==
  /\ \A l \in Listings : WF_vars(Expires(l)) /\ SF_vars(EnterExpired(l))
  /\ WF_vars(\E r \in inside : Commit(r) \/ Fail(r))

FairSpec == Spec /\ Fairness

-----------------------------------------------------------------------------
(* Properties. *)

LocksHold == "lapses" \notin regime

(* While locks hold, what is frozen on an account is its active bids, no   *)
(* more and no less: the money of a bid is there when it wins and comes    *)
(* back when it loses (market.service.ts:462-466,                          *)
(* trade-settlement.service.ts:153-154).                                   *)
FrozenIsActiveBids ==
  LocksHold => \A u \in Users :
    frozen[u] = Refund({n \in DOMAIN bids : bids[n].status = "active"}, u)

(* While locks hold no bid outlives its listing: once a listing is closed  *)
(* every bid on it is won or given back                                    *)
(* (trade-settlement.service.ts:150-154).                                  *)
NoBidOutlivesListing ==
  LocksHold => \A n \in DOMAIN bids : bids[n].status = "active" => status[bids[n].listing] = "listed"

(* An auction goes to the highest of all the bids it accepted              *)
(* (market.service.ts:562-564, 500-503).                                   *)
HighestBidWins ==
  LocksHold => \A l \in Auctions : status[l] = "sold" =>
    \E n \in DOMAIN bids :
      /\ bids[n].listing = l /\ bids[n].status = "won" /\ item[l] = bids[n].user
      /\ \A k \in DOMAIN bids : bids[k].listing = l => bids[k].price <= bids[n].price

(* Bids end with their listing, and the right one wins.                    *)
BidsEndRight == NoBidOutlivesListing /\ HighestBidWins

(* Money is neither made nor lost: what is frozen, available and taken as  *)
(* fees is what there was (README.md:20, trade-settlement.service.ts:45).  *)
MoneyConserved ==
  SumFunction([u \in Users |-> wallet[u] + frozen[u]]) + fees = Money * Cardinality(Users)

(* Every coin is accounted for, on each account and over all of them.      *)
MoneyAccounted == FrozenIsActiveBids /\ MoneyConserved

(* While no one is banned, a listing past its date is closed in the end:   *)
(* its item does not stay in ESCROW, nor its bids frozen                   *)
(* (market-settle.service.ts:10-14, 40-41). A ban on the seller or on any  *)
(* bidder stops it for as long as it lasts: no leg of 'market_unlist',     *)
(* 'market_settle' or 'bid_refund' may touch a banned account.             *)
OverdueCloses ==
  \A l \in Listings :
    [](overdue[l] /\ status[l] = "listed" /\ banned = {} => <>(status[l] # "listed" \/ banned # {}))
=============================================================================
