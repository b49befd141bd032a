------------------------------- MODULE Trade -------------------------------
(***************************************************************************)
(* Barter offers (trade.service.ts) seen from the coins they hold: an      *)
(* offer freezes its sender's coins; an accept pays them to the receiver   *)
(* against the receiver's own; a reject, a cancel or the expiry gives them *)
(* back. The items of an offer are in Instances.tla.                       *)
(*                                                                         *)
(* The sender's cancel runs under the lock trade:{from}, the receiver's    *)
(* answer under trade:{to}, the expiry job under none, and a lock may run  *)
(* out: any two handlers of an offer may be inside at once. Each reads the *)
(* offer first and opens its transaction later; in the transaction only    *)
(* the voucher's key and the balances can stop it, for the UPDATE of the   *)
(* status does not look at how many rows it hit.                           *)
(***************************************************************************)
EXTENDS Integers, FiniteSets, Functions, SumProofs, TLAPS

CONSTANTS
  Users,
  Offers,       \* ids, in the order the expiry job's query returns them
  Coins,        \* the amounts offered and asked
  Money,        \* bound: coins of each user at the start
  MaxInside,    \* bound: requests between their read and their transaction
  Limit         \* the 200 of expireCron

ASSUME TradeAssumption ==
  IsFiniteSet(Users) /\ Offers \subseteq Nat /\ Coins \subseteq Nat /\ Money \in Nat /\ Limit \in Nat

VARIABLES
  wallet, frozen,   \* asset_balance of game_coin
  offer,            \* trade_offer rows
  posted,           \* vouchers: <<offer, "settle" or the status it was unwound to>>
  inside,           \* requests that have read their offer
  todo,             \* the rest of the list expireCron is working on
  banned

vars == <<wallet, frozen, offer, posted, inside, todo, banned>>

Ends    == {"accepted", "rejected", "cancelled", "expired"}
NoOffer == [status |-> "none"]
Offer   == [from : Users, to : Users, give : Coins, ask : Coins,
            status : Ends \cup {"pending"}, late : BOOLEAN]

TypeOK ==
  /\ wallet \in [Users -> Nat] /\ frozen \in [Users -> Nat]
  /\ offer \in [Offers -> Offer \cup {NoOffer}]
  /\ posted \subseteq Offers \X Ends
  /\ inside \subseteq Ends \X Offers
  /\ todo \subseteq Offers /\ banned \subseteq Users

Init ==
  /\ wallet = [u \in Users |-> Money] /\ frozen = [u \in Users |-> 0]
  /\ offer = [o \in Offers |-> NoOffer]
  /\ posted = {} /\ inside = {} /\ todo = {} /\ banned = {}

-----------------------------------------------------------------------------
Pending(o) == offer[o].status = "pending"
Add(f, u, n) == [f EXCEPT ![u] = @ + n]

\* offer: the freeze and the row in one transaction.
Propose(o, u, v, give, ask) ==
  /\ offer[o] = NoOffer /\ u # v /\ {u, v} \cap banned = {}
  /\ give + ask > 0 /\ wallet[u] >= give
  /\ wallet' = Add(wallet, u, -give)
  /\ frozen' = Add(frozen, u, give)
  /\ offer' = [offer EXCEPT ![o] = [from |-> u, to |-> v, give |-> give, ask |-> ask,
                                    status |-> "pending", late |-> FALSE]]
  /\ UNCHANGED <<posted, inside, todo, banned>>

GoesLate(o) ==
  /\ Pending(o) /\ ~offer[o].late
  /\ offer' = [offer EXCEPT ![o].late = TRUE]
  /\ UNCHANGED <<wallet, frozen, posted, inside, todo, banned>>

Ban(u) ==
  /\ banned' \in {banned \cup {u}, banned \ {u}}     \* ban, unban
  /\ UNCHANGED <<wallet, frozen, offer, posted, inside, todo>>

\* Who sends a request; nobody is banned who does.
Actor(r) == IF r[1] = "cancelled" THEN {offer[r[2]].from}
            ELSE IF r[1] = "expired" THEN {} ELSE {offer[r[2]].to}

\* It has read the offer. Nothing below rests on the lock it holds meanwhile, which may
\* have run out: others are inside as well.
Enter(end, o) ==
  LET r == <<end, o>>
  IN  /\ Pending(o) /\ Actor(r) \cap banned = {}
      /\ Cardinality(inside) < MaxInside /\ inside' = inside \cup {r}
      /\ UNCHANGED <<wallet, frozen, offer, posted, todo, banned>>

\* respond and cancel; an answer that comes late expires the offer instead.
Respond(o, end) == Pending(o) /\ end \in {"accepted", "rejected"} /\ ~offer[o].late /\ Enter(end, o)
Cancel(o)       == Enter("cancelled", o)
RespondLate(o)  == Pending(o) /\ offer[o].late /\ Enter("expired", o)

-----------------------------------------------------------------------------
(* The transactions. *)

\* Faulty: the row keeps its status.
StaysPending(o, end) == offer

\* UPDATE ... WHERE id = o AND status = 'pending', whatever it hits.
Ended(o, end) == [offer EXCEPT ![o].status = IF @ = "pending" THEN end ELSE @]

\* Faulty: nothing asks whether the frozen coins are there.
TakenOnTrust(f) == TRUE

Backed(f) == frozen[f.from] >= f.give

\* trade_offer is not a reason that a ban lets through.
Clear(S) == S \cap banned = {}

Settle(o) ==
  LET f == offer[o]
  IN  /\ <<o, "accepted">> \notin posted
      /\ Clear({f.from, f.to})
      /\ Backed(f) /\ wallet[f.to] + f.give >= f.ask
      /\ frozen' = Add(frozen, f.from, -f.give)
      /\ wallet' = Add(Add(wallet, f.to, f.give - f.ask), f.from, f.ask)
      /\ offer' = Ended(o, "accepted")
      /\ posted' = posted \cup {<<o, "accepted">>}

\* Faulty: the coins leave the frozen column and arrive nowhere.
NothingBack(f) == 0

Back(f) == f.give

\* unwindOffer: an offer of items only has no leg and so, here, no voucher.
Unwind(o, end) ==
  LET f == offer[o]
  IN  /\ f.give > 0 => <<o, end>> \notin posted /\ Clear({f.from}) /\ Backed(f)
      /\ frozen' = Add(frozen, f.from, -f.give)
      /\ wallet' = Add(wallet, f.from, Back(f))
      /\ offer' = Ended(o, end)
      /\ posted' = IF f.give > 0 THEN posted \cup {<<o, end>>} ELSE posted

Apply(r) == IF r[1] = "accepted" THEN Settle(r[2]) ELSE Unwind(r[2], r[1])

Commit(r) ==
  /\ r \in inside /\ Apply(r)
  /\ inside' = inside \ {r}
  /\ UNCHANGED <<todo, banned>>

\* The transaction throws (or its process dies): nothing stays.
GiveUp(r) ==
  /\ r \in inside
  /\ inside' = inside \ {r}
  /\ UNCHANGED <<wallet, frozen, offer, posted, todo, banned>>

-----------------------------------------------------------------------------
(* expireCron. *)

Late == {o \in Offers : Pending(o) /\ offer[o].late}
First(S) == {o \in S : Cardinality({p \in S : p < o}) < Limit}

CronReads ==
  /\ todo = {} /\ Late # {}
  /\ todo' = First(Late)
  /\ UNCHANGED <<wallet, frozen, offer, posted, inside, banned>>

Current == CHOOSE o \in todo : \A p \in todo : o <= p

CronUnwinds ==
  /\ todo # {} /\ Unwind(Current, "expired")
  /\ todo' = todo \ {Current}
  /\ UNCHANGED <<inside, banned>>

\* A duplicate key is passed over, any other error ends the round.
CronFails ==
  LET f == offer[Current]
      duplicate == f.give > 0 /\ <<Current, "expired">> \in posted
  IN  /\ todo # {}
      /\ duplicate \/ (f.give > 0 /\ ~(Clear({f.from}) /\ Backed(f)))
      /\ todo' = IF duplicate THEN todo \ {Current} ELSE {}
      /\ UNCHANGED <<wallet, frozen, offer, posted, inside, banned>>

Cron == CronReads \/ CronUnwinds \/ CronFails

Next ==
  \/ \E o \in Offers, u, v \in Users, give, ask \in Coins : Propose(o, u, v, give, ask)
  \/ \E o \in Offers : GoesLate(o) \/ Cancel(o) \/ RespondLate(o) \/ \E e \in Ends : Respond(o, e)
  \/ \E r \in inside : Commit(r) \/ GiveUp(r)
  \/ CronReads \/ CronUnwinds \/ CronFails
  \/ \E u \in Users : Ban(u)

Spec == Init /\ [][Next]_vars

\* The clock passes every deadline and the job runs every ten minutes.
FairSpec == Spec /\ WF_vars(Cron) /\ \A o \in Offers : WF_vars(GoesLate(o))

-----------------------------------------------------------------------------
(* Properties. *)

Of(u)     == {o \in Offers : offer[o] # NoOffer /\ offer[o].from = u}
OneEach   == \A u \in Users : Cardinality(Of(u)) <= 1

(* What is frozen on an account is what its pending offer holds: it is not *)
(* paid out of another's coins and leaves no coins behind                  *)
(* (trade.service.ts:58-61, 617). It takes a second offer of the same      *)
(* sender to break this (EndsOnce's run).                                  *)
FrozenIsPendingOffers ==
  \A u \in Users : Cardinality(Of(u)) <= 1 =>
    frozen[u] = SumFunction([o \in {p \in Of(u) : Pending(p)} |-> offer[o].give])

(* An offer ends once: it is not both paid out and given back              *)
(* (trade.service.ts:442, 617).                                            *)
Endings(o) == {e \in Ends : <<o, e>> \in posted}
EndsOnce   == \A o \in Offers : Cardinality(Endings(o)) <= 1

(* Though no lock and no status check sees to it, the only offer of a      *)
(* sender ends once, and its status says how: the frozen coins give out    *)
(* (trade.service.ts:442, 617).                                            *)
OnlyOfferEndsOnce ==
  \A u \in Users : Cardinality(Of(u)) <= 1 =>
    \A o \in Of(u) : Endings(o) \subseteq {offer[o].status} \/ offer[o].give = 0

(* Coins are neither made nor lost by any end of an offer, nor by two of   *)
(* them (README.md:20).                                                    *)
CoinsConserved ==
  SumFunction([u \in Users |-> wallet[u] + frozen[u]]) = Money * Cardinality(Users)

(* Every coin is accounted for, on each account and over all of them.      *)
CoinsAccounted == FrozenIsPendingOffers /\ CoinsConserved

(* While no one is banned and no one has two offers out, an offer past its *)
(* deadline ends (trade.service.ts:60, 617, 657-674).                      *)
LateOffersEnd ==
  \A o \in Offers :
    LET Due == Pending(o) /\ offer[o].late /\ banned = {} /\ OneEach
    IN  [](Due => <>~Due)

-----------------------------------------------------------------------------
(* Proofs, for any number of users, offers and coins: no coin is made or   *)
(* lost by any interleaving of answers, cancels and the expiry job, and    *)
(* the only offer of a sender ends once.                                   *)
(*                                                                         *)
(* Nothing in the code keeps an offer from being ended twice but the       *)
(* balance: a second end finds no frozen coins to take. So the invariant   *)
(* ties the frozen column of a sender with one offer to that offer: its    *)
(* coins while it is pending, zero afterwards. For this to be inductive it *)
(* must also say that whatever is under way, on the job's list or on file  *)
(* is about an offer that was made.                                        *)

Made(o) == offer[o] # NoOffer

\* Requests, the job's list and the vouchers are about offers that were made.
AllMade ==
  /\ \A r \in inside : Made(r[2])
  /\ \A o \in todo : Made(o)
  /\ \A p \in posted : Made(p[1])

\* Only finitely many offers were made yet.
FewOffers == IsFiniteSet({o \in Offers : Made(o)})

Alone(u) == \A o, p \in Of(u) : o = p

\* The only offer of a sender: while it is pending it has no voucher and all
\* that is frozen is its coins; afterwards nothing is frozen, and a voucher, if
\* it had coins to move, says how it ended.
OnlyOfferHolds ==
  \A u \in Users : Alone(u) =>
    /\ Of(u) = {} => frozen[u] = 0
    /\ \A o \in Of(u) :
         IF Pending(o) THEN frozen[u] = offer[o].give /\ Endings(o) = {}
         ELSE frozen[u] = 0 /\ (Endings(o) \subseteq {offer[o].status} \/ offer[o].give = 0)

IInv == TypeOK /\ AllMade /\ FewOffers /\ OnlyOfferHolds /\ CoinsConserved

-----------------------------------------------------------------------------
(* Coins. *)

\* A step that leaves what each user has, in both columns, leaves the total.
LEMMA SameCoins ==
  ASSUME TypeOK, TypeOK', CoinsConserved,
         \A u \in Users : wallet'[u] + frozen'[u] = wallet[u] + frozen[u]
  PROVE  CoinsConserved'
<1>1. [u \in Users |-> wallet'[u] + frozen'[u]] = [u \in Users |-> wallet[u] + frozen[u]]
  OBVIOUS
<1> QED  BY <1>1 DEF CoinsConserved

\* What one user gains, another loses.
LEMMA MovedCoins ==
  ASSUME TypeOK, TypeOK', CoinsConserved, NEW x \in Users, NEW y \in Users, NEW c \in Int,
         \A u \in Users : wallet'[u] + frozen'[u]
           = (wallet[u] + frozen[u]) + ((IF u = x THEN c ELSE 0) + (IF u = y THEN -c ELSE 0))
  PROVE  CoinsConserved'
<1> DEFINE f == [u \in Users |-> wallet[u] + frozen[u]]
           g == [u \in Users |-> wallet'[u] + frozen'[u]]
<1>1. \A u \in Users : f[u] \in Int
  BY DEF TypeOK
<1>2. \A u \in Users : g[u] = f[u] + ((IF u = x THEN c ELSE 0) + (IF u = y THEN -c ELSE 0))
  OBVIOUS
<1>3. IsFiniteSet(Users) /\ -c \in Int
  BY TradeAssumption
<1>4. SumFunction(f) = Sum(f, Users) /\ SumFunction(g) = Sum(g, Users)
  BY SumOfFunction
<1>5. Sum(g, Users) = Sum(f, Users) + (c + -c)
  <2> DEFINE d == -c
  <2>1. d \in Int /\ \A u \in Users : g[u] = f[u] + ((IF u = x THEN c ELSE 0) + (IF u = y THEN d ELSE 0))
    BY <1>2
  <2> HIDE DEF f, g, d
  <2>2. Sum(g, Users) = Sum(f, Users) + (c + d)
    BY <1>1, <1>3, <2>1, SumMoves
  <2> QED  BY <2>2 DEF d
<1>6. Sum(f, Users) \in Int
  <2> HIDE DEF f
  <2> QED  BY <1>1, <1>3, SumInt
<1>7. SumFunction(g) = SumFunction(f)
  <2> HIDE DEF f, g
  <2> QED  BY <1>4, <1>5, <1>6
<1> QED  BY <1>7 DEF CoinsConserved

-----------------------------------------------------------------------------
(* The end of an offer. *)

\* An offer that was made is a full record.
LEMMA MadeIsOffer ==
  ASSUME TypeOK, NEW o \in Offers, Made(o)
  PROVE  offer[o] \in Offer
BY DEF TypeOK, Made

\* The UPDATE of the status touches one offer and of it the status only.
LEMMA EndedIsOffer ==
  ASSUME TypeOK, NEW o \in Offers, Made(o), NEW end \in Ends, offer' = Ended(o, end)
  PROVE  /\ offer' \in [Offers -> Offer \cup {NoOffer}]
         /\ offer'[o].from = offer[o].from /\ offer'[o].give = offer[o].give
         /\ offer'[o].status = IF Pending(o) THEN end ELSE offer[o].status
         /\ \A p \in Offers : p # o => offer'[p] = offer[p]
         /\ \A p \in Offers : Made(p)' <=> Made(p)
<1>1. offer[o] \in Offer
  BY MadeIsOffer
<1>2. offer' = [offer EXCEPT ![o] = [offer[o] EXCEPT !.status = IF @ = "pending" THEN end ELSE @]]
  BY DEF Ended
<1>3. offer'[o] = [offer[o] EXCEPT !.status = IF @ = "pending" THEN end ELSE @]
  BY <1>2 DEF TypeOK
<1>4. offer'[o] \in Offer /\ offer'[o].from = offer[o].from /\ offer'[o].give = offer[o].give
      /\ offer'[o].status = IF Pending(o) THEN end ELSE offer[o].status
  BY <1>1, <1>3 DEF Offer, Pending
<1>5. \A p \in Offers : p # o => offer'[p] = offer[p]
  BY <1>2 DEF TypeOK
<1>6. offer' \in [Offers -> Offer \cup {NoOffer}]
  BY <1>2, <1>3, <1>4 DEF TypeOK
<1>7. offer'[o] # NoOffer
  BY <1>1, <1>4 DEF NoOffer, Offer, Ends, Pending
<1>8. \A p \in Offers : Made(p)' <=> Made(p)
  BY <1>5, <1>7 DEF Made
<1> QED  BY <1>4, <1>5, <1>6, <1>8

\* Whatever ends an offer takes its coins out of the frozen column, marks it,
\* and leaves the other offers and their vouchers alone.
Concludes(o, end) ==
  /\ frozen' = Add(frozen, offer[o].from, -offer[o].give)
  /\ offer' = Ended(o, end)
  /\ frozen[offer[o].from] >= offer[o].give \/ offer[o].give = 0
  /\ posted' \in {posted, posted \cup {<<o, end>>}}

\* An end of any offer keeps what is said of the only offers.
LEMMA EndKeepsOnly ==
  ASSUME TypeOK, OnlyOfferHolds, NEW o \in Offers, Made(o), NEW end \in Ends, Concludes(o, end)
  PROVE  OnlyOfferHolds'
<1> DEFINE f == offer[o]
<1>1. /\ offer' \in [Offers -> Offer \cup {NoOffer}]
      /\ offer'[o].from = f.from /\ offer'[o].give = f.give
      /\ offer'[o].status = IF Pending(o) THEN end ELSE f.status
      /\ \A p \in Offers : p # o => offer'[p] = offer[p]
      /\ \A p \in Offers : Made(p)' <=> Made(p)
  BY EndedIsOffer DEF Concludes
<1>2. f \in Offer /\ f.from \in Users /\ f.give \in Nat
  BY MadeIsOffer, TradeAssumption DEF Offer
<1>3. \A u \in Users : Of(u)' = Of(u)
  BY <1>1 DEF Of, Made
<1>4. \A p \in Offers : p # o => Endings(p)' = Endings(p) /\ (Pending(p)' <=> Pending(p))
  BY <1>1 DEF Concludes, Endings, Pending
<1>5. Endings(o)' \subseteq Endings(o) \cup {end}
  BY DEF Concludes, Endings
<1>6. frozen'[f.from] = frozen[f.from] - f.give /\ \A u \in Users : u # f.from => frozen'[u] = frozen[u]
  BY <1>2 DEF Concludes, Add, TypeOK
<1>7. ~Pending(o)'
  BY <1>1 DEF Pending, Ends
<1> SUFFICES ASSUME NEW u \in Users, Alone(u)'
             PROVE  /\ (Of(u) = {} => frozen[u] = 0)'
                    /\ \A p \in Of(u) :
                         IF Pending(p)' THEN frozen'[u] = offer'[p].give /\ Endings(p)' = {}
                         ELSE frozen'[u] = 0 /\ (Endings(p)' \subseteq {offer'[p].status} \/ offer'[p].give = 0)
  BY <1>3 DEF OnlyOfferHolds
<1>8. Alone(u)
  BY <1>3 DEF Alone
<1>9. CASE u # f.from
  <2>1. o \notin Of(u)
    BY <1>9 DEF Of
  <2>2. Of(u) \subseteq Offers
    BY DEF Of
  <2> QED  BY <1>1, <1>3, <1>4, <1>6, <1>8, <1>9, <2>1, <2>2 DEF OnlyOfferHolds
<1>10. CASE u = f.from
  <2>1. o \in Of(u) /\ Of(u) = {o}
    BY <1>8, <1>10 DEF Of, Made, Alone
  <2>2. CASE Pending(o)
    <3>1. frozen[u] = f.give /\ Endings(o) = {}
      BY <1>8, <2>1, <2>2 DEF OnlyOfferHolds
    <3>2. frozen'[u] = 0 /\ Endings(o)' \subseteq {end}
      BY <1>2, <1>5, <1>6, <1>10, <3>1
    <3> QED  BY <1>1, <1>3, <1>7, <2>1, <2>2, <3>2
  <2>3. CASE ~Pending(o)
    <3>1. frozen[u] = 0 /\ (Endings(o) \subseteq {f.status} \/ f.give = 0)
      BY <1>8, <2>1, <2>3 DEF OnlyOfferHolds
    <3>2. f.give = 0
      BY <1>2, <1>10, <3>1 DEF Concludes
    <3>3. frozen'[u] = 0
      BY <1>6, <1>10, <3>1, <3>2
    <3> QED  BY <1>1, <1>3, <1>7, <2>1, <3>2, <3>3
  <2> QED  BY <2>2, <2>3
<1> QED  BY <1>9, <1>10

\* A transaction that ends an offer, paid out or given back.
LEMMA EndKeeps ==
  ASSUME IInv, NEW o \in Offers, Made(o), NEW end \in Ends,
         (end = "accepted" /\ Settle(o)) \/ Unwind(o, end)
  PROVE  /\ wallet' \in [Users -> Nat] /\ frozen' \in [Users -> Nat]
         /\ offer' \in [Offers -> Offer \cup {NoOffer}] /\ posted' \subseteq Offers \X Ends
         /\ \A p \in Offers : Made(p)' <=> Made(p)
         /\ \A v \in posted' : Made(v[1])
         /\ OnlyOfferHolds' /\ (TypeOK' => CoinsConserved')
<1> DEFINE f == offer[o]
<1>0. TypeOK /\ OnlyOfferHolds /\ CoinsConserved /\ AllMade
  BY DEF IInv
<1>1. f \in Offer /\ f.from \in Users /\ f.to \in Users /\ f.give \in Nat /\ f.ask \in Nat
  BY <1>0, MadeIsOffer, TradeAssumption DEF Offer
<1>2. Concludes(o, end)
  BY <1>1 DEF Concludes, Settle, Unwind, Backed
<1>3. OnlyOfferHolds'
  BY <1>0, <1>2, EndKeepsOnly
<1>4. offer' \in [Offers -> Offer \cup {NoOffer}] /\ \A p \in Offers : Made(p)' <=> Made(p)
  BY <1>0, <1>2, EndedIsOffer DEF Concludes
<1>5. posted' \subseteq Offers \X Ends /\ \A v \in posted' : Made(v[1])
  BY <1>0, <1>2 DEF Concludes, AllMade, TypeOK
<1>6. frozen' \in [Users -> Nat]
  BY <1>0, <1>1, <1>2 DEF Concludes, Add, TypeOK
<1>7. CASE Settle(o)
  <2>1. wallet' = [[wallet EXCEPT ![f.to] = @ + (f.give - f.ask)] EXCEPT ![f.from] = @ + f.ask]
        /\ wallet[f.to] + f.give >= f.ask
    BY <1>7 DEF Settle, Add
  <2>2. wallet' \in [Users -> Nat]
    BY <1>0, <1>1, <2>1 DEF TypeOK
  <2> DEFINE c == f.give - f.ask
  <2>3. \A u \in Users : wallet'[u] = wallet[u] + (IF u = f.to THEN c ELSE 0) + (IF u = f.from THEN f.ask ELSE 0)
    BY <1>0, <1>1, <2>1 DEF TypeOK
  <2>4. \A u \in Users : frozen'[u] = frozen[u] + (IF u = f.from THEN -f.give ELSE 0)
    BY <1>0, <1>1, <1>2 DEF Concludes, Add, TypeOK
  <2>5. \A u \in Users : wallet'[u] + frozen'[u]
           = (wallet[u] + frozen[u]) + ((IF u = f.to THEN c ELSE 0) + (IF u = f.from THEN -c ELSE 0))
    BY <1>0, <1>1, <2>3, <2>4 DEF TypeOK
  <2>6. c \in Int
    BY <1>1
  <2>7. TypeOK' => CoinsConserved'
    <3> HIDE DEF f, c
    <3> QED  BY <1>0, <1>1, <2>5, <2>6, MovedCoins
  <2> QED  BY <1>3, <1>4, <1>5, <1>6, <2>2, <2>7
<1>8. CASE Unwind(o, end)
  <2>1. wallet' = [wallet EXCEPT ![f.from] = @ + f.give]
    BY <1>8 DEF Unwind, Add, Back
  <2>2. wallet' \in [Users -> Nat]
    BY <1>0, <1>1, <2>1 DEF TypeOK
  <2>3. \A u \in Users : wallet'[u] + frozen'[u] = wallet[u] + frozen[u]
    BY <1>0, <1>1, <1>2, <2>1 DEF Concludes, Add, TypeOK
  <2>4. TypeOK' => CoinsConserved'
    BY <1>0, <2>3, SameCoins
  <2> QED  BY <1>3, <1>4, <1>5, <1>6, <2>2, <2>4
<1> QED  BY <1>7, <1>8

-----------------------------------------------------------------------------
(* The invariant. *)

\* Nothing was offered yet.
LEMMA InitHolds == Init => IInv
<1> SUFFICES ASSUME Init PROVE IInv
  OBVIOUS
<1>1. TypeOK
  BY TradeAssumption DEF Init, TypeOK
<1>2. AllMade
  BY DEF Init, AllMade
<1>3. {o \in Offers : Made(o)} = {}
  BY DEF Init, Made
<1>4. FewOffers
  BY <1>3, FS_EmptySet DEF FewOffers
<1>5. OnlyOfferHolds
  <2>1. \A u \in Users : Of(u) = {} /\ frozen[u] = 0
    BY <1>3 DEF Of, Init, Made
  <2> QED  BY <2>1 DEF OnlyOfferHolds
<1>6. CoinsConserved
  <2> DEFINE f == [u \in Users |-> wallet[u] + frozen[u]]
  <2>1. \A u \in Users : f[u] = Money
    BY TradeAssumption DEF Init
  <2>2. SumFunction(f) = Sum(f, Users)
    BY SumOfFunction
  <2>3. Sum(f, Users) = Money * Cardinality(Users)
    <3> HIDE DEF f
    <3> QED  BY <2>1, TradeAssumption, SumConst
  <2> QED  BY <2>2, <2>3 DEF CoinsConserved
<1> QED  BY <1>1, <1>2, <1>4, <1>5, <1>6 DEF IInv

\* A step that touches no offer, no coins and no voucher.
LEMMA Untouched ==
  ASSUME IInv, UNCHANGED <<wallet, frozen, offer, posted>>,
         inside' \subseteq Ends \X Offers, \A r \in inside' : Made(r[2]),
         todo' \subseteq Offers, \A o \in todo' : Made(o), banned' \subseteq Users
  PROVE  IInv'
<1>1. TypeOK' /\ AllMade' /\ FewOffers' /\ CoinsConserved'
  BY DEF IInv, TypeOK, AllMade, FewOffers, CoinsConserved, Made
<1>2. OnlyOfferHolds'
  BY DEF IInv, OnlyOfferHolds, Alone, Of, Pending, Endings
<1> QED  BY <1>1, <1>2 DEF IInv

\* A new offer freezes its coins: the first of its sender, or one more.
LEMMA ProposeKeeps ==
  ASSUME IInv, NEW o \in Offers, NEW u \in Users, NEW v \in Users, NEW give \in Coins, NEW ask \in Coins,
         Propose(o, u, v, give, ask)
  PROVE  IInv'
<1> DEFINE f == [from |-> u, to |-> v, give |-> give, ask |-> ask, status |-> "pending", late |-> FALSE]
<1>0. TypeOK /\ AllMade /\ FewOffers /\ OnlyOfferHolds /\ CoinsConserved /\ ~Made(o)
  BY DEF IInv, Propose, Made
<1>1. give \in Nat /\ ask \in Nat /\ wallet[u] >= give
  BY TradeAssumption DEF Propose
<1>2. offer' = [offer EXCEPT ![o] = f] /\ f \in Offer /\ f # NoOffer
  BY DEF Propose, Offer, NoOffer
<1>3. offer'[o] = f /\ \A p \in Offers : p # o => offer'[p] = offer[p]
  BY <1>0, <1>2 DEF TypeOK
<1>4. \A p \in Offers : Made(p)' <=> Made(p) \/ p = o
  BY <1>2, <1>3 DEF Made
<1>5. wallet' = [wallet EXCEPT ![u] = @ + -give] /\ frozen' = [frozen EXCEPT ![u] = @ + give]
      /\ UNCHANGED <<posted, inside, todo, banned>>
  BY DEF Propose, Add
<1>6. TypeOK'
  BY <1>0, <1>1, <1>2, <1>5 DEF TypeOK
<1>7. AllMade'
  BY <1>0, <1>4, <1>5 DEF AllMade, TypeOK
<1>8. FewOffers'
  <2> DEFINE S == {p \in Offers : Made(p)}
  <2>1. S' = S \cup {o}
    BY <1>4
  <2>2. IsFiniteSet(S)
    BY <1>0 DEF FewOffers
  <2>3. IsFiniteSet(S \cup {o})
    <3> HIDE DEF S
    <3> QED  BY <2>2, FS_AddElement
  <2> QED  BY <2>1, <2>3 DEF FewOffers
<1>9. CoinsConserved'
  <2>1. \A w \in Users : wallet'[w] + frozen'[w] = wallet[w] + frozen[w]
    BY <1>0, <1>1, <1>5 DEF TypeOK
  <2> QED  BY <1>0, <1>6, <2>1, SameCoins
<1>10. OnlyOfferHolds'
  <2>1. Of(u)' = Of(u) \cup {o} /\ \A w \in Users : w # u => Of(w)' = Of(w)
    <3>1. offer[o] = NoOffer /\ offer'[o].from = u /\ offer'[o] # NoOffer
      BY <1>0, <1>2, <1>3 DEF Made
    <3>2. \A w \in Users, p \in Offers : p \in Of(w)' <=> p \in Of(w) \/ (p = o /\ w = u)
      BY <1>3, <3>1 DEF Of
    <3>3. \A w \in Users : Of(w) \subseteq Offers /\ Of(w)' \subseteq Offers
      BY DEF Of
    <3> HIDE DEF Of
    <3> QED  BY <3>2, <3>3
  <2>2. \A p \in Offers : Endings(p)' = Endings(p)
    BY <1>5 DEF Endings
  <2>3. Endings(o) = {}
    BY <1>0 DEF AllMade, Endings
  <2>4. \A w \in Users : o \notin Of(w)
    BY <1>0 DEF Of, Made
  <2> SUFFICES ASSUME NEW w \in Users, Alone(w)'
               PROVE  /\ (Of(w) = {} => frozen[w] = 0)'
                      /\ \A p \in Of(w)' :
                           IF Pending(p)' THEN frozen'[w] = offer'[p].give /\ Endings(p)' = {}
                           ELSE frozen'[w] = 0 /\ (Endings(p)' \subseteq {offer'[p].status} \/ offer'[p].give = 0)
    BY DEF OnlyOfferHolds
  <2>5. CASE w = u
    <3>1. Of(u)' = {o} /\ Of(u) = {}
      BY <2>1, <2>4, <2>5 DEF Alone
    <3>2. frozen[u] = 0
      BY <1>0, <3>1 DEF OnlyOfferHolds, Alone
    <3>3. frozen'[u] = give
      BY <1>0, <1>1, <1>5, <3>2 DEF TypeOK
    <3> QED  BY <1>3, <2>2, <2>3, <2>5, <3>1, <3>3 DEF Pending
  <2>6. CASE w # u
    <3>1. frozen'[w] = frozen[w] /\ Of(w)' = Of(w) /\ Of(w) \subseteq Offers /\ Alone(w)
      BY <1>0, <1>5, <2>1, <2>6 DEF TypeOK, Of, Alone
    <3>2. \A p \in Of(w) : offer'[p] = offer[p] /\ Endings(p)' = Endings(p) /\ (Pending(p)' <=> Pending(p))
      BY <1>3, <2>2, <2>4, <3>1 DEF Pending
    <3> QED  BY <1>0, <3>1, <3>2 DEF OnlyOfferHolds
  <2> QED  BY <2>5, <2>6
<1> QED  BY <1>6, <1>7, <1>8, <1>9, <1>10 DEF IInv

\* The clock passes a deadline.
LEMMA GoesLateKeeps ==
  ASSUME IInv, NEW o \in Offers, GoesLate(o)
  PROVE  IInv'
<1>0. TypeOK /\ AllMade /\ FewOffers /\ OnlyOfferHolds /\ CoinsConserved
  BY DEF IInv
<1>1. Made(o) /\ offer[o] \in Offer
  <2>1. Made(o)
    BY DEF GoesLate, Pending, Made, NoOffer
  <2> QED  BY <1>0, <2>1, MadeIsOffer
<1>2. /\ offer'[o] \in Offer /\ offer' \in [Offers -> Offer \cup {NoOffer}]
      /\ offer'[o].from = offer[o].from /\ offer'[o].give = offer[o].give /\ offer'[o].status = offer[o].status
      /\ \A p \in Offers : p # o => offer'[p] = offer[p]
      /\ UNCHANGED <<wallet, frozen, posted, inside, todo, banned>>
  <2>1. offer' = [offer EXCEPT ![o] = [offer[o] EXCEPT !.late = TRUE]]
    BY DEF GoesLate
  <2>2. offer'[o] = [offer[o] EXCEPT !.late = TRUE]
    BY <1>0, <2>1 DEF TypeOK
  <2>3. /\ offer'[o] \in Offer
        /\ offer'[o].from = offer[o].from /\ offer'[o].give = offer[o].give /\ offer'[o].status = offer[o].status
    BY <1>1, <2>2 DEF Offer
  <2> QED  BY <1>0, <2>1, <2>3 DEF TypeOK, GoesLate
<1>3. \A p \in Offers : (Made(p)' <=> Made(p)) /\ (Pending(p)' <=> Pending(p)) /\ Endings(p)' = Endings(p)
                       /\ (Made(p) => offer'[p].from = offer[p].from /\ offer'[p].give = offer[p].give
                                       /\ offer'[p].status = offer[p].status)
  <2>1. offer'[o] # NoOffer
    BY <1>1, <1>2 DEF GoesLate, Pending, NoOffer
  <2> QED  BY <1>1, <1>2, <2>1 DEF Made, Pending, Endings
<1>4. \A u \in Users : Of(u)' = Of(u) /\ Of(u) \subseteq Offers /\ \A p \in Of(u) : Made(p)
  BY <1>3 DEF Of, Made
<1>5. OnlyOfferHolds'
  BY <1>0, <1>2, <1>3, <1>4 DEF OnlyOfferHolds, Alone
<1>6. TypeOK' /\ AllMade' /\ CoinsConserved'
  BY <1>0, <1>2, <1>3 DEF TypeOK, AllMade, CoinsConserved
<1>7. FewOffers'
  <2>1. {p \in Offers : Made(p)}' = {p \in Offers : Made(p)}
    BY <1>3
  <2> QED  BY <1>0, <2>1 DEF FewOffers
<1> QED  BY <1>5, <1>6, <1>7 DEF IInv

\* The end of an offer, in a request or in the job.
LEMMA EndStepKeeps ==
  ASSUME IInv, NEW o \in Offers, Made(o), NEW end \in Ends,
         (end = "accepted" /\ Settle(o)) \/ Unwind(o, end),
         inside' \subseteq inside, todo' \subseteq todo, banned' = banned
  PROVE  IInv'
<1>0. TypeOK /\ AllMade /\ FewOffers
  BY DEF IInv
<1>1. /\ wallet' \in [Users -> Nat] /\ frozen' \in [Users -> Nat]
      /\ offer' \in [Offers -> Offer \cup {NoOffer}] /\ posted' \subseteq Offers \X Ends
      /\ \A p \in Offers : Made(p)' <=> Made(p)
      /\ \A v \in posted' : Made(v[1])
      /\ OnlyOfferHolds' /\ (TypeOK' => CoinsConserved')
  BY EndKeeps
<1>2. TypeOK'
  BY <1>0, <1>1 DEF TypeOK
<1>3. AllMade'
  BY <1>0, <1>1, <1>2 DEF AllMade, TypeOK
<1>4. {p \in Offers : Made(p)}' = {p \in Offers : Made(p)}
  BY <1>1
<1> QED  BY <1>0, <1>1, <1>2, <1>3, <1>4 DEF IInv, FewOffers

\* Every step, one by one.
LEMMA NextKeeps == IInv /\ [Next]_vars => IInv'
<1> SUFFICES ASSUME IInv, [Next]_vars PROVE IInv'
  OBVIOUS
<1>0. TypeOK /\ AllMade
  BY DEF IInv
<1>1. ASSUME NEW o \in Offers, NEW u \in Users, NEW v \in Users, NEW give \in Coins, NEW ask \in Coins,
             Propose(o, u, v, give, ask)
      PROVE  IInv'
  BY <1>1, ProposeKeeps
<1>2. ASSUME NEW o \in Offers, GoesLate(o) PROVE IInv'
  BY <1>2, GoesLateKeeps
<1>3. ASSUME NEW o \in Offers, NEW end \in Ends, Enter(end, o) PROVE IInv'
  <2>1. Made(o)
    BY <1>3 DEF Enter, Pending, Made, NoOffer
  <2>2. inside' = inside \cup {<<end, o>>} /\ UNCHANGED <<wallet, frozen, offer, posted, todo, banned>>
    BY <1>3 DEF Enter
  <2>3. inside' \subseteq Ends \X Offers /\ \A r \in inside' : Made(r[2])
    BY <1>0, <2>1, <2>2 DEF TypeOK, AllMade
  <2> QED  BY <1>0, <2>2, <2>3, Untouched DEF TypeOK, AllMade
<1>4. ASSUME NEW r \in inside, Commit(r) PROVE IInv'
  <2>1. r[1] \in Ends /\ r[2] \in Offers /\ Made(r[2])
    BY <1>0 DEF TypeOK, AllMade
  <2>2. inside' \subseteq inside /\ todo' = todo /\ banned' = banned
    BY <1>4 DEF Commit
  <2>3. (r[1] = "accepted" /\ Settle(r[2])) \/ Unwind(r[2], r[1])
    BY <1>4 DEF Commit, Apply
  <2> QED  BY <2>1, <2>2, <2>3, EndStepKeeps
<1>5. ASSUME NEW r \in inside, GiveUp(r) PROVE IInv'
  BY <1>0, <1>5, Untouched DEF GiveUp, TypeOK, AllMade
<1>6. ASSUME CronReads PROVE IInv'
  <2>1. todo' \subseteq Offers /\ \A o \in todo' : Made(o)
    BY <1>6 DEF CronReads, First, Late, Pending, Made, NoOffer
  <2> QED  BY <1>0, <1>6, <2>1, Untouched DEF CronReads, TypeOK, AllMade
<1>7. ASSUME CronUnwinds PROVE IInv'
  <2>1. Current \in todo
    <3>1. \E o \in todo : \A p \in todo : o <= p
      BY <1>0, <1>7, LeastNatural, TradeAssumption DEF CronUnwinds, TypeOK
    <3> QED  BY <3>1 DEF Current
  <2>2. Current \in Offers /\ Made(Current)
    BY <1>0, <2>1 DEF TypeOK, AllMade
  <2>3. Unwind(Current, "expired") /\ inside' \subseteq inside /\ todo' \subseteq todo /\ banned' = banned
    BY <1>7 DEF CronUnwinds
  <2>4. "expired" \in Ends
    BY DEF Ends
  <2> HIDE DEF Current
  <2> QED  BY <2>2, <2>3, <2>4, EndStepKeeps
<1>8. ASSUME CronFails PROVE IInv'
  <2>1. todo' \subseteq todo /\ UNCHANGED <<wallet, frozen, offer, posted, inside, banned>>
    BY <1>8 DEF CronFails
  <2> QED  BY <1>0, <2>1, Untouched DEF TypeOK, AllMade
<1>9. ASSUME NEW u \in Users, Ban(u) PROVE IInv'
  BY <1>0, <1>9, Untouched DEF Ban, TypeOK, AllMade
<1>10. CASE UNCHANGED vars
  BY <1>0, <1>10, Untouched DEF vars, TypeOK, AllMade
<1> QED
  BY <1>1, <1>2, <1>3, <1>4, <1>5, <1>6, <1>7, <1>8, <1>9, <1>10 DEF Next, Cancel, RespondLate, Respond, Ends

\* The invariant holds for ever.
LEMMA Invariance == Spec => []IInv
  BY InitHolds, NextKeeps, PTL DEF Spec

-----------------------------------------------------------------------------
(* Theorems. *)

\* At most one offer made, counted.
LEMMA CountAlone ==
  ASSUME IInv, NEW u \in Users, Cardinality(Of(u)) <= 1
  PROVE  Alone(u) /\ IsFiniteSet(Of(u))
<1>1. Of(u) \in SUBSET {o \in Offers : Made(o)}
  BY DEF Of, Made
<1>2. IsFiniteSet(Of(u)) /\ Cardinality(Of(u)) \in Nat
  BY <1>1, FS_Subset, FS_CardinalityType DEF IInv, FewOffers
<1>3. ASSUME NEW o \in Of(u), NEW p \in Of(u), o # p PROVE FALSE
  <2>1. IsFiniteSet({o, p}) /\ Cardinality({o, p}) = 2
    <3>1. IsFiniteSet({o}) /\ Cardinality({o}) = 1
      BY FS_Singleton
    <3>2. {o, p} = {o} \cup {p} /\ p \notin {o}
      BY <1>3
    <3>3. Cardinality({o} \cup {p}) = Cardinality({o}) + 1 /\ IsFiniteSet({o} \cup {p})
      BY <3>1, <3>2, FS_AddElement
    <3> QED  BY <3>1, <3>2, <3>3
  <2>2. Cardinality({o, p}) <= Cardinality(Of(u))
    BY <1>2, FS_Subset
  <2> QED  BY <1>2, <2>1, <2>2
<1> QED  BY <1>2, <1>3 DEF Alone

\* Every variable keeps its type: no coins are frozen or available below zero.
THEOREM TypeCorrect == Spec => []TypeOK
<1>1. IInv => TypeOK
  BY DEF IInv
<1> QED  BY <1>1, Invariance, PTL

\* The only offer of a sender ends once, and its status says how, though the
\* receiver's answer, the sender's cancel and the expiry job share no lock and
\* none looks at the status again (trade.service.ts:442, 617).
THEOREM OnlyOneEnd == Spec => []OnlyOfferEndsOnce
<1>1. IInv => OnlyOfferEndsOnce
  <2> SUFFICES ASSUME IInv, NEW u \in Users, Cardinality(Of(u)) <= 1, NEW o \in Of(u)
               PROVE  Endings(o) \subseteq {offer[o].status} \/ offer[o].give = 0
    BY DEF OnlyOfferEndsOnce
  <2>1. Alone(u)
    BY CountAlone
  <2> QED  BY <2>1 DEF IInv, OnlyOfferHolds
<1> QED  BY <1>1, Invariance, PTL

\* However offers end, and however often, no coin is made or lost; and what is
\* frozen on the account of a sender with one offer is what that offer holds
\* (trade.service.ts:58-61, 442, 617).
THEOREM CoinsAreKept == Spec => []CoinsAccounted
<1>1. IInv => CoinsAccounted
  <2> SUFFICES ASSUME IInv PROVE FrozenIsPendingOffers
    BY DEF IInv, CoinsAccounted
  <2> SUFFICES ASSUME NEW u \in Users, Cardinality(Of(u)) <= 1
               PROVE  frozen[u] = SumFunction([o \in {p \in Of(u) : Pending(p)} |-> offer[o].give])
    BY DEF FrozenIsPendingOffers
  <2>1. Alone(u) /\ IsFiniteSet(Of(u))
    BY CountAlone
  <2> DEFINE S == {p \in Of(u) : Pending(p)}
             f == [o \in S |-> offer[o].give]
  <2>2. SumFunction(f) = Sum(f, S)
    BY SumOfFunction
  <2>3. CASE S = {}
    <3>1. frozen[u] = 0
      BY <2>1, <2>3 DEF IInv, OnlyOfferHolds
    <3> QED  BY <2>2, <2>3, <3>1, SumEmpty
  <2>4. CASE S # {}
    <3>1. PICK o \in Of(u) : Pending(o)
      BY <2>4
    <3>2. S = {o}
      BY <2>1, <3>1 DEF Alone
    <3>3. frozen[u] = offer[o].give
      BY <2>1, <3>1 DEF IInv, OnlyOfferHolds
    <3>4. offer[o].give \in Nat
      BY MadeIsOffer, TradeAssumption DEF IInv, Of, Made, Offer
    <3>5. f[o] = offer[o].give
      BY <3>2
    <3>6. Sum(f, S) = offer[o].give
      <4>1. IsFiniteSet(S) /\ o \in S /\ \A y \in S : f[y] = IF y = o THEN offer[o].give ELSE 0
        BY <3>2, <3>5, FS_Singleton
      <4> HIDE DEF f, S
      <4> QED  BY <3>4, <4>1, SumPoint
    <3> QED  BY <2>2, <3>3, <3>6
  <2> QED  BY <2>3, <2>4
<1> QED  BY <1>1, Invariance, PTL
=============================================================================
