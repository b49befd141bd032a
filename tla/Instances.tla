----------------------------- MODULE Instances -----------------------------
(***************************************************************************)
(* Unique items: item_instance (owner, state, serial), the double entries  *)
(* item_instance_entry they are derived from, and the listings and barter  *)
(* offers that keep an item in the ESCROW account.                         *)
(*                                                                         *)
(* A handler checks the item outside the transaction (SubjectResolver      *)
(* .resolve), under a Redis lock: "pet" of the owner for a gift, a recycle *)
(* or a listing, "trade" of the owner for a barter. The two locks do not   *)
(* exclude each other, nor do the lock of an offer's sender (cancel), of   *)
(* its receiver (accept, reject) and none (expiry); and a lock may run     *)
(* out. So a check and its commit are two actions, with whatever the other *)
(* locks allow in between.                                                 *)
(* Closing a listing is one action: settleTrade and unwind repeat the      *)
(* status check in the transaction and roll back when it fails.            *)
(*                                                                         *)
(* The currencies that change hands are in Market.tla and Trade.tla.       *)
(***************************************************************************)
EXTENDS Integers, FiniteSets, Sequences

CONSTANTS
  Players, Items, Offers,
  Escrow,        \* the ESCROW system account
  NoOne,
  MintLimit,     \* asset_def.mint_limit of the items
  MaxEntries,    \* bound: vouchers that touch an item
  Switches       \* the sets of handlers that are in play together; "lapses": locks run out

Accounts == Players \cup {Escrow}
States   == {"unminted", "held", "listed", "escrowed", "burned"}
PetOps   == {"gift", "recycle", "list"}
TradeOps == {"offer", "accept", "cancel", "reject", "expire"}

ASSUME InstancesAssumption ==
  /\ Escrow \notin Players /\ NoOne \notin Accounts
  /\ \A R \in Switches : R \subseteq PetOps \cup TradeOps \cup {"sell", "unlist", "reverse", "lapses"}

VARIABLES
  owner, state, serial,   \* item_instance
  minted,                 \* asset_def.minted_count
  entries,                \* item_instance_entry: <<item, from (-1), to (+1)>>, NoOne for no row
  listings,               \* market_listing rows in state 'listed': <<item, seller>>
  offer,                  \* trade_offer rows, each of one item for one item
  pending,                \* requests between their check and their transaction
  toReverse, reversed,    \* entries a reverse() has checked, and those reversed
  ops                     \* the regime: what the feature switches and operators let run

itemVars == <<owner, state, serial, minted, entries, listings, offer, pending, toReverse, reversed, ops>>

NoOffer == [from |-> NoOne, to |-> NoOne, give |-> NoOne, want |-> NoOne,
            status |-> "none", posted |-> {}]

\* A request: its operation, the lock it holds, the item or the offer it is about.
Call(op, u, i, x) == [op |-> op, user |-> u, item |-> i, arg |-> x]
LockOf(r) == IF r.op \in PetOps THEN <<"pet", r.user>>
             ELSE IF r.op = "expire" THEN <<"none", r.arg>> ELSE <<"trade", r.user>>
LockFree(r) == "lapses" \in ops \/ \A q \in pending : LockOf(q) # LockOf(r)

ItemsTypeOK ==
  /\ owner \in [Items -> Accounts \cup {NoOne}]
  /\ state \in [Items -> States]
  /\ serial \in [Items -> 0 .. MintLimit]
  /\ minted \in 0 .. MintLimit
  /\ entries \in Seq(Items \X (Accounts \cup {NoOne}) \X (Accounts \cup {NoOne}))
  /\ Len(entries) <= MaxEntries
  /\ listings \subseteq Items \X Players
  /\ \A r \in pending : r.op \in PetOps \cup TradeOps /\ r.user \in Players
  /\ toReverse \cup reversed \subseteq DOMAIN entries
  /\ ops \in Switches

ItemsInit ==
  /\ owner = [i \in Items |-> NoOne]
  /\ state = [i \in Items |-> "unminted"]
  /\ serial = [i \in Items |-> 0]
  /\ minted = 0
  /\ entries = <<>>
  /\ listings = {}
  /\ offer = [o \in Offers |-> NoOffer]
  /\ pending = {}
  /\ toReverse = {}
  /\ reversed = {}
  /\ ops \in Switches

-----------------------------------------------------------------------------
(* The ledger's three operations on an instance. *)

Log(S) == Len(entries) + Len(S) <= MaxEntries /\ entries' = entries \o S

SerialOf(n) == n + 1

\* mintInstance: the bump of minted_count and the serial are one statement.
Mint(i, u) ==
  /\ state[i] = "unminted"
  /\ minted < MintLimit
  /\ minted' = minted + 1
  /\ serial' = [serial EXCEPT ![i] = SerialOf(minted)]
  /\ owner' = [owner EXCEPT ![i] = u]
  /\ state' = [state EXCEPT ![i] = "held"]
  /\ Log(<< <<i, NoOne, u>> >>)
  /\ UNCHANGED <<listings, offer, pending, toReverse, reversed, ops>>

\* moveInstanceById: the UPDATE asks for the owner, not for the state.
Move(i, from, to, st) ==
  /\ from # to /\ owner[i] = from
  /\ owner' = [owner EXCEPT ![i] = to]
  /\ state' = [state EXCEPT ![i] = st]
  /\ Log(<< <<i, from, to>> >>)
  /\ UNCHANGED <<serial, minted>>

OwnerAfterBurn(i) == owner[i]

\* burnInstance: the last owner stays on the row.
Burn(i, from) ==
  /\ owner[i] = from /\ state[i] = "held"
  /\ owner' = [owner EXCEPT ![i] = OwnerAfterBurn(i)]
  /\ state' = [state EXCEPT ![i] = "burned"]
  /\ Log(<< <<i, from, NoOne>> >>)
  /\ UNCHANGED <<serial, minted>>

-----------------------------------------------------------------------------
(* Checks. *)

\* SubjectResolver.resolve of an instance.
Held(u, i) == owner[i] = u /\ state[i] = "held"

Accept(r) ==
  /\ r.op \in ops /\ LockFree(r)
  /\ pending' = pending \cup {r}
  /\ UNCHANGED <<owner, state, serial, minted, entries, listings, offer, toReverse, reversed, ops>>

CheckGift(u, i, v) == u # v /\ Held(u, i) /\ Accept(Call("gift", u, i, v))
CheckRecycle(u, i) == Held(u, i) /\ Accept(Call("recycle", u, i, NoOne))
CheckList(u, i)    == Held(u, i) /\ Accept(Call("list", u, i, NoOne))

CheckOffer(u, i, v, j, o) ==
  /\ offer[o] = NoOffer
  /\ \A r \in pending : r.op = "offer" => r.arg[1] # o     \* o: the id INSERT will assign
  /\ u # v /\ Held(u, i) /\ Held(v, j)
  /\ Accept(Call("offer", u, i, <<o, v, j>>))

\* respond(accept): the receiver's side is checked again, the sender's is in escrow.
CheckAccept(o) ==
  /\ offer[o].status = "pending"
  /\ Held(offer[o].to, offer[o].want)
  /\ Accept(Call("accept", offer[o].to, offer[o].want, o))

CheckUnwind(o, op) ==
  /\ op \in {"cancel", "reject", "expire"}
  /\ offer[o].status = "pending"
  /\ LET u == IF op = "reject" THEN offer[o].to ELSE offer[o].from
     IN  Accept(Call(op, u, offer[o].give, o))

-----------------------------------------------------------------------------
(* Transactions. *)

Done(r) == pending' = pending \ {r}

CommitGift(r) ==
  /\ r \in pending /\ r.op = "gift"
  /\ Move(r.item, r.user, r.arg, "held")
  /\ Done(r) /\ UNCHANGED <<listings, offer, toReverse, reversed, ops>>

CommitRecycle(r) ==
  /\ r \in pending /\ r.op = "recycle"
  /\ Burn(r.item, r.user)
  /\ Done(r) /\ UNCHANGED <<listings, offer, toReverse, reversed, ops>>

ListedState  == "listed"
OfferedState == "escrowed"      \* moveInstance's default for a system account

\* uq_listing_instance_active: one open listing per item.
CommitList(r) ==
  /\ r \in pending /\ r.op = "list"
  /\ \A l \in listings : l[1] # r.item
  /\ Move(r.item, r.user, Escrow, ListedState)
  /\ listings' = listings \cup {<<r.item, r.user>>}
  /\ Done(r) /\ UNCHANGED <<offer, toReverse, reversed, ops>>

\* Faulty: the status of the listing is not part of the transaction.
StaysListed(l) == listings

Closed(l) == listings \ {l}

\* buyNow and settleAuction, through settleTrade.
Sell(l, buyer) ==
  /\ "sell" \in ops
  /\ l \in listings /\ buyer # l[2]
  /\ Move(l[1], Escrow, buyer, "held")
  /\ listings' = Closed(l)
  /\ UNCHANGED <<offer, pending, toReverse, reversed, ops>>

\* cancel, forceCancel and expiry, through unwind.
Unlist(l) ==
  /\ "unlist" \in ops
  /\ l \in listings
  /\ Move(l[1], Escrow, l[2], "held")
  /\ listings' = Closed(l)
  /\ UNCHANGED <<offer, pending, toReverse, reversed, ops>>

CommitOffer(r) ==
  /\ r \in pending /\ r.op = "offer"
  /\ Move(r.item, r.user, Escrow, OfferedState)
  /\ offer' = [offer EXCEPT ![r.arg[1]] =
                 [from |-> r.user, to |-> r.arg[2], give |-> r.item, want |-> r.arg[3],
                  status |-> "pending", posted |-> {}]]
  /\ Done(r) /\ UNCHANGED <<listings, toReverse, reversed, ops>>

\* UPDATE trade_offer ... WHERE status = 'pending': no row hit is no error.
AfterEnd(o, key, st) ==
  [offer EXCEPT ![o].posted = @ \cup {key},
                ![o].status = IF @ = "pending" THEN st ELSE @]

\* settle: both moves and the status in one transaction.
CommitAccept(r) ==
  LET o == r.arg
      i == offer[o].give
      j == offer[o].want
      u == offer[o].from
      v == offer[o].to
  IN  /\ r \in pending /\ r.op = "accept"
      /\ "settle" \notin offer[o].posted
      /\ owner[i] = Escrow /\ owner[j] = v
      /\ owner' = [owner EXCEPT ![i] = v, ![j] = u]
      /\ state' = [state EXCEPT ![i] = "held", ![j] = "held"]
      /\ Log(<< <<i, Escrow, v>>, <<j, v, u>> >>)
      /\ offer' = AfterEnd(o, "settle", "accepted")
      /\ Done(r) /\ UNCHANGED <<serial, minted, listings, toReverse, reversed, ops>>

\* unwindOffer: the voucher's key depends on the status it is unwound to.
CommitReturn(r) ==
  /\ r \in pending /\ r.op \in {"cancel", "reject", "expire"}
  /\ r.op \notin offer[r.arg].posted
  /\ Move(r.item, Escrow, offer[r.arg].from, "held")
  /\ offer' = AfterEnd(r.arg, r.op, r.op)
  /\ Done(r) /\ UNCHANGED <<listings, toReverse, reversed, ops>>

\* The transaction fails (or the process does) and leaves no trace.
Abandon(r) ==
  /\ r \in pending
  /\ Done(r)
  /\ UNCHANGED <<owner, state, serial, minted, entries, listings, offer, toReverse, reversed, ops>>

\* reverse() of a voucher that moved one item (a mint or a burn is refused);
\* a second reverse of the same voucher is in Ledger.tla.
CheckReverse(n) ==
  /\ "reverse" \in ops
  /\ n \in DOMAIN entries \ (toReverse \cup reversed)
  /\ entries[n][2] # NoOne /\ entries[n][3] # NoOne
  /\ toReverse' = toReverse \cup {n}
  /\ UNCHANGED <<owner, state, serial, minted, entries, listings, offer, pending, reversed, ops>>

Reverse(n) ==
  /\ n \in toReverse
  /\ Move(entries[n][1], entries[n][3], entries[n][2], "held")
  /\ toReverse' = toReverse \ {n}
  /\ reversed' = reversed \cup {n}
  /\ UNCHANGED <<listings, offer, pending, ops>>

ItemsNext ==
  \/ \E i \in Items, u \in Players : Mint(i, u)
  \/ \E i \in Items, u, v \in Players : CheckGift(u, i, v)
  \/ \E i \in Items, u \in Players : CheckRecycle(u, i) \/ CheckList(u, i)
  \/ \E i, j \in Items, u, v \in Players, o \in Offers : CheckOffer(u, i, v, j, o)
  \/ \E o \in Offers : CheckAccept(o)
  \/ \E o \in Offers, op \in {"cancel", "reject", "expire"} : CheckUnwind(o, op)
  \/ \E r \in pending :
       \/ CommitGift(r) \/ CommitRecycle(r) \/ CommitList(r)
       \/ CommitOffer(r) \/ CommitAccept(r) \/ CommitReturn(r) \/ Abandon(r)
  \/ \E l \in listings : Unlist(l) \/ \E u \in Players : Sell(l, u)
  \/ \E n \in 1 .. MaxEntries : CheckReverse(n) \/ Reverse(n)

ItemsSpec == ItemsInit /\ [][ItemsNext]_itemVars

-----------------------------------------------------------------------------
(* Properties. *)

EntriesOf(i) == {n \in DOMAIN entries : entries[n][1] = i}
Gains(i)     == {n \in EntriesOf(i) : entries[n][3] # NoOne}
Losses(i)    == {n \in EntriesOf(i) : entries[n][2] # NoOne}
Minted(i)    == state[i] # "unminted"

(* Reconcile invariant 5: the entries of an item add up to one while it    *)
(* exists and to zero once it is burned (reconcile.service.ts:175-196).    *)
EntriesMatchState ==
  \A i \in Items : Minted(i) =>
    Cardinality(Gains(i)) - Cardinality(Losses(i)) = IF state[i] = "burned" THEN 0 ELSE 1

\* Where all that can take an item from its owner runs under one lock, which lasts: no
\* barter beside a recycle, nothing undone.
OneLock == ops \cap {"reverse", "lapses"} = {} /\ ~("recycle" \in ops /\ ops \cap {"offer", "accept"} # {})

(* Reconcile invariant 6: the owner on the row is the account of the last  *)
(* +1 entry, for burned items too (reconcile.service.ts:198-214).          *)
OwnerIsLastGain ==
  \A i \in Items : Minted(i) =>
    \E n \in Gains(i) : entries[n][3] = owner[i] /\ \A k \in Gains(i) : k <= n

(* What is on file of an item agrees with its row: invariant 6 always, 5   *)
(* where one lock that lasts guards an item. Those of barter and recycle   *)
(* do not exclude each other: an offer that has read it as held moves it,  *)
(* burned meanwhile, into ESCROW.                                          *)
EntriesMatchRow == OwnerIsLastGain /\ (OneLock => EntriesMatchState)

(* Reconcile invariant 7: ESCROW holds exactly the items marked listed or  *)
(* escrowed (reconcile.service.ts:216-232), stated of each item and not    *)
(* only of the two counts. A reversal breaks it: it puts an item back into *)
(* ESCROW as 'held'.                                                       *)
EscrowIsMarked ==
  "reverse" \notin ops =>
    \A i \in Items : owner[i] = Escrow <=> state[i] \in {"listed", "escrowed"}

(* On the market alone every item in ESCROW is there for one open listing, *)
(* and every open listing has its item there: no item is sold twice and    *)
(* none is stranded (market.service.ts:258-264). A barter that is accepted *)
(* or returned after it has ended breaks it, for it takes the item out of  *)
(* whatever claim holds it by then.                                        *)
OneClaimInEscrow ==
  ops \cap {"offer", "reverse"} = {} =>
    \A i \in Items :
      Cardinality({l \in listings : l[1] = i}) = IF owner[i] = Escrow THEN 1 ELSE 0

(* ESCROW agrees with the states of the items and with the open claims.    *)
EscrowHoldsClaims == EscrowIsMarked /\ OneClaimInEscrow
(* Every item's row, its entries and the open claims on it agree.          *)
ItemsAddUp == EntriesMatchRow /\ EscrowHoldsClaims

=============================================================================
