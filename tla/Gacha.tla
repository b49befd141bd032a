------------------------------- MODULE Gacha -------------------------------
(***************************************************************************)
(* Drawing from a pool (gacha.service.ts, gacha.config.ts). The roll is    *)
(* saved first, then the pity counter, then one voucher charges the cost   *)
(* and grants the prizes, then the row is marked: four transactions under  *)
(* the player's lock. A request sent again finds its row and hands over    *)
(* what was rolled, out of the pool the second request names.              *)
(***************************************************************************)
EXTENDS Integers, Sequences, Functions, FiniteSetsExt

CONSTANTS
  Handlers, Biz,
  GameCoin,  \* the currency whose balance every draw is prechecked against
  Pool,      \* pool key -> [asset, cost, costTen, pity, dupe ("null": nothing), entries]
  Ten,       \* what a ten-draw draws
  Unique,    \* prizes that are unique and not tradable
  Purse,     \* bound: balance of each currency
  Limit,     \* copies of each unique prize that are left to mint at first
  Regimes    \* which of "dies", "slow", "spends", "soldout", "crosses" happen

\* entrySchema: a prize has a weight and is rare or not.
SoundPools ==
  \A p \in DOMAIN Pool :
    /\ {Pool[p].cost, Pool[p].costTen, Pool[p].pity} \subseteq Nat /\ Pool[p].dupe \notin Unique
    /\ Len(Pool[p].entries) \in Nat \ {0} /\ DOMAIN Pool[p].entries = 1..Len(Pool[p].entries)
    /\ \A n \in DOMAIN Pool[p].entries :
         Pool[p].entries[n].weight \in Nat \ {0} /\ Pool[p].entries[n].rare \in BOOLEAN

ASSUME GachaAssumption ==
  {Ten, Limit} \subseteq Nat \ {0} /\ Purse \in Nat /\ SoundPools

VARIABLES
  regime,
  wallet,    \* the balance of each currency
  owned,     \* copies the player has of each unique prize
  left,      \* mint_limit - minted_count
  pity,      \* gacha_state: draws since the last rare one
  draws,     \* gacha_draw: the row of each bizId
  granted,   \* the voucher gacha:draw:{bizId}
  doing,     \* what each handler is about to do
  held,      \* the handler that owns the player's lock
  rares      \* the draws of each pool in the order they were saved: rare or not

drawVars == <<regime, wallet, owned, left, pity, draws, granted, doing, held, rares>>

Pools  == DOMAIN Pool
Assets == {Pool[p].asset : p \in Pools} \cup {GameCoin}
None   == [none |-> TRUE]
Idle   == [at |-> "ready"]

Prize(e)   == [code |-> e.code, rare |-> e.rare]
GachaEntry == UNION {{Prize(e) : e \in Range(Pool[p].entries)} : p \in Pools}
Compensates(p) == Pool[p].dupe # "null"
GachaPrize == GachaEntry \cup {[code |-> Pool[p].dupe, rare |-> b] : p \in Pools, b \in BOOLEAN}
GachaDraw  == [pool : Pools, cost : Nat, asset : Assets, prizes : Seq(GachaPrize), delivered : BOOLEAN]

DrawTypeOK ==
  /\ regime \in Regimes /\ wallet \in [Assets -> 0..Purse]
  /\ owned \in [Unique -> Nat] /\ left \in [Unique -> 0..Limit] /\ pity \in [Pools -> Nat]
  /\ \A b \in Biz : draws[b] = None \/ draws[b] \in GachaDraw
  /\ held \subseteq Handlers

DrawInit ==
  /\ regime \in Regimes
  /\ wallet = [a \in Assets |-> Purse] /\ owned = [u \in Unique |-> 0]
  /\ left = [u \in Unique |-> Limit] /\ pity = [p \in Pools |-> 0]
  /\ draws = [b \in Biz |-> None] /\ granted = [b \in Biz |-> None]
  /\ doing = [r \in Handlers |-> Idle] /\ held = {} /\ rares = [p \in Pools |-> <<>>]

-----------------------------------------------------------------------------
(* gacha.config.ts: the entries of a pool, by their numbers. *)

totalWeight(p, E) == MapThenSumSet(LAMBDA n : Pool[p].entries[n].weight, E)

\* The first entry whose weights, added up, exceed t; the last one if none does.
pickEntry(p, E, t) ==
  LET over == {n \in E : t < totalWeight(p, {m \in E : m <= n})}
  IN  IF over = {} THEN Max(E) ELSE Min(over)

allEntries(p)  == DOMAIN Pool[p].entries
rareEntries(p) == {n \in allEntries(p) : Pool[p].entries[n].rare}

\* Every entry a random number can pick.
Picks(p, E) == {pickEntry(p, E, t) : t \in 0..(totalWeight(p, E) - 1)}

\* Faulty: the draw that reaches the number is not yet forced.
ForcedLate(p, n) == Pool[p].pity > 0 /\ n >= Pool[p].pity

Forced(p, n) == Pool[p].pity > 0 /\ n + 1 >= Pool[p].pity

\* What one draw can give after n draws without a rare one.
Draw1(p, n) ==
  {Pool[p].entries[e] :
     e \in Picks(p, IF Forced(p, n) /\ rareEntries(p) # {} THEN rareEntries(p) ELSE allEntries(p))}

\* pity, n before them, is counted draw by draw: after the first k of them.
After(n, entries, k) ==
  LET hits == {j \in 1..k : entries[j].rare}
  IN  IF hits = {} THEN n + k ELSE k - Max(hits)

rollAll(p, times, n) ==
  {s \in [1..times -> Range(Pool[p].entries)] :
     \A k \in 1..times : s[k] \in Draw1(p, After(n, s, k - 1))}

\* A unique prize that cannot be traded is worth nothing twice: the second one, of
\* the player's or of this round, becomes the consumable of a pool that has one.
plan(p, entries) ==
  [n \in DOMAIN entries |->
     IF /\ Compensates(p) /\ entries[n].code \in Unique
        /\ owned[entries[n].code] > 0 \/ \E m \in 1..(n - 1) : entries[m].code = entries[n].code
     THEN [code |-> Pool[p].dupe, rare |-> entries[n].rare]
     ELSE Prize(entries[n])]

-----------------------------------------------------------------------------
IsAt(r, at)  == doing[r].at = at
Goto(r, at)  == doing' = [doing EXCEPT ![r].at = at]
Row(r)       == draws[doing[r].biz]
Carry(r, at, row, n) == doing' = [doing EXCEPT ![r].at = at, ![r].row = row, ![r].pity = n]
Quit(r)      == doing' = [doing EXCEPT ![r] = Idle] /\ held' = held \ {r}
Price(p, n)  == IF n = Ten THEN Pool[p].costTen ELSE Pool[p].cost

SamePool(b, p) ==
  /\ draws[b] # None => draws[b].pool = p
  /\ \A q \in Handlers : ~IsAt(q, "ready") /\ doing[q].biz = b => doing[q].pool = p

\* Unless the client "crosses", a bizId is sent again for the pool it was made for.
Request(r, b, p, n) ==
  /\ IsAt(r, "ready") /\ held = {}
  /\ "crosses" \notin regime => SamePool(b, p)
  /\ held' = {r}
  /\ doing' = [doing EXCEPT ![r] = [at |-> "look", biz |-> b, pool |-> p, times |-> n,
                                    row |-> None, pity |-> 0]]
  /\ UNCHANGED <<regime, wallet, owned, left, pity, draws, granted, rares>>

Replay(r) ==
  /\ IsAt(r, "look") /\ Row(r) # None
  /\ IF Row(r).delivered THEN Quit(r)
     ELSE Carry(r, "deliver", Row(r), doing[r].pity) /\ UNCHANGED held
  /\ UNCHANGED <<regime, wallet, owned, left, pity, draws, granted, rares>>

\* The code compares costAsset with 'marketing', which no pool has: its values are
\* game_coin and marketing_point. So a pool of points is prechecked on coins.
CanPay(p, n) == wallet[GameCoin] >= Price(p, n)

Precheck(r) ==
  /\ IsAt(r, "look") /\ Row(r) = None
  /\ IF CanPay(doing[r].pool, doing[r].times) THEN Goto(r, "roll") /\ UNCHANGED held ELSE Quit(r)
  /\ UNCHANGED <<regime, wallet, owned, left, pity, draws, granted, rares>>

Roll(r) ==
  /\ IsAt(r, "roll")
  /\ LET p == doing[r].pool
     IN \E entries \in rollAll(p, doing[r].times, pity[p]) :
          Carry(r, "save",
                [pool |-> p, cost |-> Price(p, doing[r].times), asset |-> Pool[p].asset,
                 prizes |-> plan(p, entries), delivered |-> FALSE],
                After(pity[p], entries, doing[r].times))
  /\ UNCHANGED <<regime, wallet, owned, left, pity, draws, granted, held, rares>>

\* Faulty: the row of a bizId is written over.
Upsert(b) == TRUE

\* uq_gacha_draw_user_biz
Unsaved(b) == draws[b] = None

SaveDraw(r) ==
  /\ IsAt(r, "save")
  /\ IF Unsaved(doing[r].biz)
     THEN /\ draws' = [draws EXCEPT ![doing[r].biz] = doing[r].row]
          /\ rares' = [rares EXCEPT ![doing[r].pool] =
                         @ \o [n \in DOMAIN doing[r].row.prizes |-> doing[r].row.prizes[n].rare]]
          /\ Goto(r, "state") /\ UNCHANGED held
     ELSE Quit(r) /\ UNCHANGED <<draws, rares>>
  /\ UNCHANGED <<regime, wallet, owned, left, pity, granted>>

SaveState(r) ==
  /\ IsAt(r, "state") /\ Goto(r, "deliver")
  /\ pity' = [pity EXCEPT ![doing[r].pool] = doing[r].pity]
  /\ UNCHANGED <<regime, wallet, owned, left, draws, granted, held, rares>>

Copies(u, row) == Cardinality({n \in DOMAIN row.prizes : row.prizes[n].code = u})

\* reward.exchange: all of it, or nothing, and once.
Deliver(r) ==
  /\ IsAt(r, "deliver")
  /\ LET b == doing[r].biz  row == doing[r].row  a == Pool[doing[r].pool].asset
     IN IF granted[b] # None
        THEN Goto(r, "mark") /\ UNCHANGED <<wallet, owned, left, granted, held>>
        ELSE IF wallet[a] >= row.cost /\ \A u \in Unique : left[u] >= Copies(u, row)
        THEN /\ wallet' = [wallet EXCEPT ![a] = @ - row.cost]
             /\ owned' = [u \in Unique |-> owned[u] + Copies(u, row)]
             /\ left' = [u \in Unique |-> left[u] - Copies(u, row)]
             /\ granted' = [granted EXCEPT ![b] = [asset |-> a, cost |-> row.cost, prizes |-> row.prizes]]
             /\ Goto(r, "mark") /\ UNCHANGED held
        ELSE Quit(r) /\ UNCHANGED <<wallet, owned, left, granted>>
  /\ UNCHANGED <<regime, pity, draws, rares>>

MarkDelivered(r) ==
  /\ IsAt(r, "mark") /\ Quit(r)
  /\ draws' = [draws EXCEPT ![doing[r].biz].delivered = TRUE]
  /\ UNCHANGED <<regime, wallet, owned, left, pity, granted, rares>>

-----------------------------------------------------------------------------
(* What happens beside it. *)

DrawDies(r) ==
  /\ "dies" \in regime /\ ~IsAt(r, "ready") /\ Quit(r)
  /\ UNCHANGED <<regime, wallet, owned, left, pity, draws, granted, rares>>

Lapse ==
  /\ "slow" \in regime /\ held # {} /\ held' = {}
  /\ UNCHANGED <<regime, wallet, owned, left, pity, draws, granted, doing, rares>>

\* A bid or an offer of this player freezes money under a lock of its own.
SpendElsewhere(a) ==
  /\ "spends" \in regime /\ wallet[a] > 0
  /\ wallet' = [wallet EXCEPT ![a] = @ - 1]
  /\ UNCHANGED <<regime, owned, left, pity, draws, granted, doing, held, rares>>

OtherMints(u) ==
  /\ "soldout" \in regime /\ left[u] > 0
  /\ left' = [left EXCEPT ![u] = @ - 1]
  /\ UNCHANGED <<regime, wallet, owned, pity, draws, granted, doing, held, rares>>

Step(r) ==
  \/ Replay(r) \/ Precheck(r) \/ Roll(r) \/ SaveDraw(r) \/ SaveState(r)
  \/ Deliver(r) \/ MarkDelivered(r)

DrawNext ==
  \/ \E r \in Handlers, b \in Biz, p \in Pools, n \in {1, Ten} : Request(r, b, p, n)
  \/ \E r \in Handlers : Step(r) \/ DrawDies(r)
  \/ Lapse
  \/ \E a \in Assets : SpendElsewhere(a)
  \/ \E u \in Unique : OtherMints(u)

DrawSpec == DrawInit /\ [][DrawNext]_drawVars

-----------------------------------------------------------------------------
Only(R) == regime \subseteq R

\* What was charged and granted for a bizId is what its row says was rolled, in
\* the row's currency unless the repeat names another pool; through deaths,
\* lapsed locks and repeats.
NeverRerolled ==
  \A b \in Biz : granted[b] # None =>
    /\ draws[b] # None
    /\ granted[b].prizes = draws[b].prizes /\ granted[b].cost = draws[b].cost
    /\ "crosses" \notin regime => granted[b].asset = draws[b].asset

\* No run of as many draws as the pool's pity without a rare one, across requests
\* and within a ten-draw; a death before the counter is saved breaks it, and so
\* does a lock that lapses.
RareWithinPity ==
  Only({"spends", "soldout", "crosses"}) =>
    \A p \in Pools : Pool[p].pity > 0 /\ rareEntries(p) # {} =>
      \A i \in 1..(Len(rares[p]) - Pool[p].pity + 1) :
        \E j \in i..(i + Pool[p].pity - 1) : rares[p][j]

\* A pool that is prechecked on its own currency and makes up for a second copy.
Deliverable(p) == Pool[p].asset = GameCoin /\ Compensates(p)

\* Nobody keeps a roll of a pool of coins to pay for later: with nothing going wrong and
\* no other spending, every row whose request has ended is delivered. A bid beside the
\* draw, or a prize sold out since, leaves one; so may a pool that does not compensate,
\* where a round has more copies of a unique prize than can be minted; and so does a
\* pool of points, for a player who has coins and no points.
NoRollInReserve ==
  Only({"crosses"}) /\ held = {} =>
    \A b \in Biz : draws[b] # None /\ Deliverable(draws[b].pool) => draws[b].delivered

\* gacha.service.ts: a roll is delivered once, as its row says it was rolled, nobody
\* keeps one of a pool of coins, and there are no more draws without a rare prize than the pool's pity.
DrawsHold == NeverRerolled /\ NoRollInReserve /\ RareWithinPity
=============================================================================
