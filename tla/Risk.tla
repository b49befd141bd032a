-------------------------------- MODULE Risk --------------------------------
(***************************************************************************)
(* What keeps trading between players in bounds (trade-risk.service.ts,    *)
(* tradable_after): an item that has just come from another player stays   *)
(* for a time; a day has a quota of trades and of value; and what a player *)
(* gives and gets is added up by day, for the report on those who only     *)
(* give. Gifts, sales and barter are checked and committed under           *)
(* different locks, and a barter is checked on one day and taken on        *)
(* another.                                                                *)
(***************************************************************************)
EXTENDS Integers, FiniteSets, Functions

CONSTANTS
  Traders, Goods,
  OwnerAtStart,          \* [Items -> Players]
  Price,                 \* asset_def.price: an item is listed for it
  Coins,                 \* what may be asked for an item in barter
  MaxRatio,              \* trade.valuationBand
  MaxTrades, MaxValue,   \* market.risk
  Cooldown, DayHours, MaxHour,
  Runs, None,
  Openings                \* which of "gift", "market", "barter" are open, and
                          \* "slow" where a handler may outlast its lock

ASSUME RiskAssumption ==
  /\ OwnerAtStart \in [Goods -> Traders] /\ Price \in [Goods -> Nat] /\ Coins \subseteq Nat
  /\ IsFiniteSet(Goods)
  /\ {MaxTrades, MaxValue, DayHours} \subseteq Nat \ {0} /\ {Cooldown, MaxHour, MaxRatio} \subseteq Nat
  /\ Cooldown # 1   \* 72 hours or none: a handler, done in the next one, is done before
  /\ \A R \in Openings : R \subseteq {"gift", "market", "barter", "slow"}

VARIABLES
  open,      \* market.features, and whether handlers are "slow"
  now,
  holder,    \* whose it is, or was before it went to ESCROW
  place,     \* "held", "listed" or "offered"
  terms,     \* for what and to whom it is offered
  after,     \* tradable_after
  tally,     \* trade_risk_daily
  run,       \* a handler that has checked and not yet posted
  got,       \* ghost: when an item came from another player
  early,     \* ghost: items that went on before their time
  bartered   \* ghost: coins got by barter

riskVars == <<open, now, holder, place, terms, after, tally, run, got, early, bartered>>
Ghosts   == <<got, early, bartered>>

Days     == 0 .. MaxHour \div DayHours
Day      == now \div DayHours
NoTrades == [count |-> 0, value |-> 0, net |-> 0]

RiskInit ==
  /\ open \in Openings /\ now = 0
  /\ terms = [i \in Goods |-> None]
  /\ holder = OwnerAtStart /\ place = [i \in Goods |-> "held"] /\ after = [i \in Goods |-> 0]
  /\ tally = [p \in Traders |-> [d \in Days |-> NoTrades]]
  /\ run = [r \in Runs |-> None]
  /\ got = [i \in Goods |-> -Cooldown] /\ early = {} /\ bartered = [p \in Traders |-> 0]

-----------------------------------------------------------------------------
(* What is checked.                                                        *)

Busy == {run[r] : r \in {r \in Runs : run[r] # None}}
\* A lock runs out after five seconds, whether or not its holder is done; what
\* has run out keeps nobody else from the same lock.
Free(lock) == "slow" \in open \/ \A b \in Busy : b.lock # lock

resolve(p, i) == holder[i] = p /\ place[i] = "held" /\ after[i] <= now

assertDailyQuota(p, v) ==
  LET today == tally[p][Day] IN today.count < MaxTrades /\ today.value + v <= MaxValue

assertValuationBand(from, to) ==
  /\ from > 0 /\ to > 0
  /\ from <= MaxRatio * to /\ to <= MaxRatio * from

Begin(r, op, lock, i, to, coin) ==
  /\ run[r] = None /\ Free(lock)
  /\ run' = [run EXCEPT ![r] = [op |-> op, lock |-> lock, item |-> i, to |-> to, coin |-> coin, at |-> now]]
  /\ UNCHANGED <<open, now, holder, place, terms, after, tally, Ghosts>>

MayGive(r, p, q, i) ==
  /\ "gift" \in open /\ p # q /\ resolve(p, i) /\ assertDailyQuota(p, Price[i])
  /\ Begin(r, "gift", <<"pet", p>>, i, q, 0)

MayList(r, p, i) ==
  /\ "market" \in open /\ resolve(p, i)
  /\ Begin(r, "list", <<"pet", p>>, i, p, 0)

MayBuy(r, q, i) ==
  /\ "market" \in open /\ place[i] = "listed" /\ holder[i] # q /\ assertDailyQuota(q, Price[i])
  /\ Begin(r, "buy", <<"listing", i>>, i, q, 0)

\* The quota is that of the day of the offer; it is used on the day of the answer.
MayOffer(r, p, q, i, coin) ==
  /\ "barter" \in open /\ p # q /\ resolve(p, i)
  /\ assertValuationBand(Price[i], coin) /\ assertDailyQuota(p, Price[i])
  /\ Begin(r, "offer", <<"trade", p>>, i, q, coin)

MayAccept(r, q, i) ==
  /\ place[i] = "offered" /\ terms[i].to = q /\ assertDailyQuota(q, terms[i].coin)
  /\ Begin(r, "accept", <<"trade", q>>, i, q, terms[i].coin)

-----------------------------------------------------------------------------
(* What is posted.                                                         *)

record(t, p, value, net) ==
  [t EXCEPT ![p][Day] = [count |-> @.count + 1, value |-> @.value + value, net |-> @.net + net]]

\* Faulty: the item keeps its time.
KeepsOld(i) == after[i]

Restart(i) == now + Cooldown

Arrives(i, q) ==
  /\ holder' = [holder EXCEPT ![i] = q]
  /\ place' = [place EXCEPT ![i] = "held"] /\ terms' = [terms EXCEPT ![i] = None]
  /\ after' = [after EXCEPT ![i] = Restart(i)]
  /\ got' = [got EXCEPT ![i] = now]

Leaves(i) == early' = IF now < got[i] + Cooldown THEN early \cup {i} ELSE early

Give(b) ==
  LET p == b.lock[2] IN
  /\ b.op = "gift" /\ holder[b.item] = p /\ place[b.item] = "held"
  /\ Leaves(b.item) /\ Arrives(b.item, b.to)
  /\ tally' = record(record(tally, p, Price[b.item], Price[b.item]), b.to, 0, -Price[b.item])
  /\ UNCHANGED bartered

\* To ESCROW, from where it comes back as it was.
Lock(b) ==
  /\ b.op \in {"list", "offer"} /\ holder[b.item] = b.lock[2] /\ place[b.item] = "held"
  /\ Leaves(b.item)
  /\ \/ /\ b.op = "list" /\ place' = [place EXCEPT ![b.item] = "listed"]
        /\ UNCHANGED terms
     \/ /\ b.op = "offer" /\ place' = [place EXCEPT ![b.item] = "offered"]
        /\ terms' = [terms EXCEPT ![b.item] = [to |-> b.to, coin |-> b.coin]]
  /\ UNCHANGED <<holder, after, tally, got, bartered>>

settleTrade(b) ==
  /\ b.op = "buy" /\ place[b.item] = "listed"
  /\ Arrives(b.item, b.to)
  /\ tally' = record(record(tally, b.to, Price[b.item], -Price[b.item]),
                     holder[b.item], 0, Price[b.item])
  /\ UNCHANGED <<early, bartered>>

settle(b) ==
  LET p == holder[b.item]  v == Price[b.item] IN
  /\ b.op = "accept" /\ place[b.item] = "offered"
  /\ terms[b.item] = [to |-> b.to, coin |-> b.coin]
  /\ Arrives(b.item, b.to)
  /\ tally' = record(record(tally, p, v, v - b.coin), b.to, b.coin, b.coin - v)
  /\ bartered' = [bartered EXCEPT ![p] = @ + b.coin, ![b.to] = @ - b.coin]
  /\ UNCHANGED early

Post(r) ==
  /\ run[r] # None /\ run' = [run EXCEPT ![r] = None]
  /\ \E b \in {run[r]} : Give(b) \/ Lock(b) \/ settleTrade(b) \/ settle(b)
  /\ UNCHANGED <<open, now>>

\* Refused by the ledger, or the process died.
Drop(r) ==
  /\ run[r] # None /\ run' = [run EXCEPT ![r] = None]
  /\ UNCHANGED <<open, now, holder, place, terms, after, tally, Ghosts>>

\* Withdrawn, rejected, expired; open or not.
Unwind(i) ==
  /\ place[i] # "held"
  /\ place' = [place EXCEPT ![i] = "held"] /\ terms' = [terms EXCEPT ![i] = None]
  /\ UNCHANGED <<open, now, holder, after, tally, run, Ghosts>>

\* A handler is done within an hour; midnight may come in between.
Tick ==
  /\ now < MaxHour /\ \A b \in Busy : b.at = now
  /\ now' = now + 1
  /\ UNCHANGED <<open, holder, place, terms, after, tally, run, Ghosts>>

RiskNext ==
  \/ \E r \in Runs, p, q \in Traders, i \in Goods : MayGive(r, p, q, i)
  \/ \E r \in Runs, p, q \in Traders, i \in Goods, coin \in Coins : MayOffer(r, p, q, i, coin)
  \/ \E r \in Runs, p \in Traders, i \in Goods : MayList(r, p, i) \/ MayBuy(r, p, i) \/ MayAccept(r, p, i)
  \/ \E r \in Runs : Post(r) \/ Drop(r)
  \/ \E i \in Goods : Unwind(i)
  \/ Tick

RiskSpec == RiskInit /\ [][RiskNext]_riskVars

-----------------------------------------------------------------------------
(* Properties. *)

(* subject-resolver.service.ts:50: what has come from another player does  *)
(* not go on to the next, nor to ESCROW, before its time, whichever locks  *)
(* the checks were made under, and also when those locks ran out.          *)
NothingGoesEarly == early = {}

(* trade-risk.service.ts:98-103: what goes through one lock, gifts, keeps  *)
(* the value of a day within the quota, across midnight too, as long as no *)
(* handler outlasts its lock: two gifts at once both read the day as it    *)
(* was. Purchases and barter are checked under other locks or on other     *)
(* days.                                                                   *)
QuotaHolds ==
  open = {"gift"} => \A p \in Traders : \A d \in Days : tally[p][d].value <= MaxValue

WorthOf(whose, p) == SumFunction([i \in Goods |-> IF whose[i] = p THEN Price[i] ELSE 0])
\* The report on the days of the model.
netFlowAlerts(p) == SumFunction([d \in Days |-> tally[p][d].net])

(* trade-risk-daily.entity.ts:22-25: the outflow on record is what a       *)
(* player's belongings have lost, less the coins of his barters. The coins *)
(* a seller gets for a sale do not count.                                  *)
OutflowIsLoss ==
  \A p \in Traders : netFlowAlerts(p) = WorthOf(OwnerAtStart, p) - WorthOf(holder, p) - bartered[p]

(* trade-risk.service.ts, subject-resolver.service.ts: nothing goes on     *)
(* before its time and the outflow on record is what was lost, also where  *)
(* locks run out; the quota holds for gifts while locks hold.              *)
RiskHolds == NothingGoesEarly /\ QuotaHolds /\ OutflowIsLoss
=============================================================================
