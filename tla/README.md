# TLA+ models of the pet-game backend

These modules model the backend in `src/src` and the parts of its back office
(`src/admin-web`) that change or show state: the ledger and everything that
posts to it, the jobs run by the clock, what a player does with a pet, and the
operators. Line numbers in comments and below refer to files under `src/src/`
unless a path says otherwise.

    tlc -workers 2 -config MCAccounts.cfg MCAccounts   # any run, see section 3
    tlapm LedgerProofs.tla                             # any module with proofs, see section 4

## 1. The system

A NestJS server in front of PostgreSQL (all that is of value) and Redis (locks,
answers of requests, counters). Every player's request passes the idempotency
interceptor, most handlers then take a Redis lock, and each does a handful of
database transactions of which at most one or two move assets. Cron jobs and
the back office call the same services without the interceptor.

| Part | State | Operations | Talks to | Hard |
|---|---|---|---|---|
| ledger (`ledger/`) | `asset_balance`, `asset_lot`, `asset_txn`, `asset_entry`, `item_instance`, `item_instance_entry`, `asset_def.minted_count` | post, postWithin, reverse; within them legs, lots, mint, move, burn | called by everything | row locks, unique keys, FIFO lots, lots and balances kept apart |
| expiry job (`ledger/expire.service.ts`) | none of its own | daily, run, loadBatch | ledger | reads amounts before it posts them |
| reward gateway (`ledger/reward.service.ts`, `economy/`) | none | grant, charge, apply, exchange | ledger | keys of the vouchers |
| reconciliation (`economy/reconcile.service.ts`) | `reconcile_log` | eleven invariants a day | reads the ledger | its invariants are properties here |
| market (`market/`) | `market_listing`, `market_bid` | list, bid, buy, cancel, settle, unwind, expiry cron, forceCancel, gift, recycle | ledger, lock per listing, trade risk | reads before locks lapse, bans, cron queue of 200 |
| barter (`trade/`) | `trade_offer`, `trade_offer_item` | offer, respond, cancel, expireCron | ledger, locks per player | three locks that do not exclude each other |
| exchange (`exchange/`, `admin/ops/admin-exchange`) | `redeem_order` | redeem, ship, cancel | ledger, two locks | charged before the stock is counted |
| coupons (`exchange/coupon.service.ts`) | Redis only | exchange | ledger | code and replay key expire |
| requests (`common/idempotency`, `common/lock`) | Redis keys | placeholder, answer, lock with TTL 5 s | every handler | TTLs that run out under a running handler |
| one-off claims (daily, dex, social, promo, event, minigame, clinic, condition, breed, items, pet offline income) | one row per thing | claim, settle, hatch, use ... | ledger | two or three transactions in an order of their own |
| race, ad tokens (`race/`, `boost/ad-token`) | `race_record`, tokens in Redis | start, settle, revive, double | ledger | no lock at all, conditional UPDATEs |
| pet care, boosts (`pet/`, `boost/`) | `pet`, counters in Redis | actions, boosts | ledger | counters read before they are raised |
| pvp, seasons, live matchmaking (`pvp/`, `pvp-realtime/`) | `pvp_rank`, `pvp_match`, queues in memory | challenge, season settlement, queue | ledger | rank row reused by a new season |
| gacha (`gacha/`) | `gacha_draw`, `gacha_state` | draw | ledger (ten mints) | plan saved before its voucher |
| home, training, fusion, wardrobe, shop | rows of one player | charge and save | ledger | as the claims; rows saved whole |
| archive (`ledger/partition.service.ts`, `scripts/ops/archive-entries.ts`) | partitions, dumps, objects in the store | ensure, detach, dump, upload, drop | reads the ledger's tables | a script that may die at any step |
| configuration (`config-center/`, `asset-def`) | `game_config`, `asset_def` | edit, reload | read by everything | a cache per process |
| back office (`admin/`, `admin-web/`) | `admin_user`, `admin_role`, `admin_menu`, `admin_setting`; state of the pages | log in, grant, edit, report | ledger, all tables | lost answers, late answers, rows saved whole |

`PROJECT.json` lists every part with its sources, and each hazard at its line.

What makes them correct, in a sentence each:

- ledger: a voucher is posted wholly and once; balances are the sums of their
  lots and of the history; nothing goes below zero; transfers create nothing;
  lots are used earliest first; a request that is sent until it is answered is
  answered.
- items: entries, owner, state and claim of an item agree; an item is on sale
  once.
- expiry: all that is past its date and nothing else, and it ends.
- market: what is frozen is the active bids; the highest bid wins; closed
  listings hold nothing; overdue listings are closed.
- barter: an offer ends once; what is frozen is the pending offers.
- claims: paid once, not marked without being paid, nothing handed over free.
- race: the row records what was paid; the task counts the race once.
- ladder: points are those of the matches; a season is marked settled only
  when its winners are paid.
- draws: what was drawn is what is paid, and pity counters rise with them.
- back office: what an operator sees is what there is, and what he sends once
  is done once.
- exchange: no more orders than stock, no goods with a refund, no order unpaid.

## 2. Modules

Each module's head comment names the files it models; `PROJECT.json` maps every
definition to its lines.

| Run by | Module | Models |
|---|---|---|
| `MCAccounts` | `Ledger` | vouchers with legs over balances and lots, reversals, bans, time |
| | `SignIn` | who a player is: openids, unions, binding, bans |
| | `Accounts` | ledger accounts made inside a transaction or outside, and cached ids |
| `MCRequests` | `Posting`, `Book` | the transaction statement by statement; what a caller of `post`/`postWithin` may rely on |
| | `Claim` | fifteen services that pay or charge once, one ordered sequence of steps each |
| | `Coupon` | discount codes, whose two keys in Redis expire |
| | `Login` | the counters and locks of logging in to the back office |
| `MCMarket` | `Market` | listings and bids with their money |
| | `Risk`, `Track` | holding periods and quotas of trade; the field of a race and its shadows |
| | `Roster` | the pets of a player |
| `Trade` itself | `Trade` | barter offers with their coins |
| `MCExchange` | `Orders` | goods for coins |
| | `Instances` | unique items under the market's and the barter's handlers |
| | `Belongings` | what a player has, wears and has in the house |
| | `Grants`, `Drawer` | grants by hand; the drawer that shows a player |
| | `Catalogue`, `Settings`, `Theme` | asset definitions, game numbers and looks with their caches |
| | `Rights`, `Menus` | roles and menus |
| | `Figures` | reconciliation and reports |
| `MCJobs` | `Expire` | the daily burn beside players |
| | `Season` | the ladder and the settlement of a season |
| | `Archive` | the monthly partitions of the entries |
| `MCPlay` | `Race` | a race from its entry to its second reward |
| | `PetCare`, `Condition` | care, cooldowns, daily caps; illness of a pet |
| | `Gacha`, `Promo`, `Campaign` | draws, promo codes, events |
| | `Matchmaking` | the live queue in memory |

`LedgerProofs` holds the proofs about `Ledger`, `RequestProofs` those about
`Posting`, `Claim` and `Coupon`, `MarketProofs` those about `Market`,
`Instances` and `Risk`, `JobProofs` those about `Expire` and `Archive`,
`PlayProofs` those about `Race`, `Gacha`, `Campaign`, `Matchmaking` and `Promo`, `SumProofs` what
they share about sums; the proofs about `Trade` and `Orders` end those modules.

The modules meet in the voucher. `Posting` shows that a transaction is atomic,
each key is posted once and no row goes below zero (`Book`); the other modules
use that by making a transaction one action. `Ledger` shows what vouchers do to
lots; the modules above the ledger keep only the balances. `Instances` and
`Market`/`Trade` share the handlers: the item's side is in the first, the
money's in the others.

The MC modules put systems that share no state side by side: `which` picks one
at the start and the rest stand still, with `x1, x2, ...` for the picked one's
variables. A behaviour of the composition is a behaviour of one of its parts,
so a property of the composition is one property of each part. A module that is
proved about is extended by its MC module, so that the runs and the proofs speak
of the same definitions; the others are instances.

### State and actions

- **Ledger.** `avail`/`froz` are `asset_balance`, `rem`/`lock` the columns of
  `asset_lot` summed by expiry date (early, late, never), `txn` is `asset_txn`
  by `biz_id`, `reversed` its `reversal_of`. `Post` is `postWithin`'s guards
  (`assertBalanced`, `assertNotBanned`, the conditional UPDATE, the six forms of
  `applyLots`) and effects; a refused voucher leaves no trace and is a step that
  does not happen. `CheckReversal` and `PostReversal` are `reverse()` before and
  in its transaction.
- **Posting.** `InsertTxn`, `UpdateRow`, `NextVoucher`, `Commit`, `Answer` are
  the statements; `Refuse` and `Die` roll back; `Duplicate` is the unique
  violation that `post` turns into a replay. PostgreSQL is modelled by what the
  code relies on: READ COMMITTED, row locks to the end of the transaction, an
  INSERT that waits for another open one of the same key.
- **Claim.** `Service` lists for each service its steps (`check`, `pay`, `mark`,
  `insert`, `make`, `lay`) in the order of the code, what its voucher's key
  names, and how it answers a request that finds the row set. `cache`, `held`
  and `row` are the interceptor, the lock and the row.
- **Instances.** A handler's check (outside the transaction, under its lock) and
  its commit are two actions; `pending` holds the requests in between and the
  locks they hold. `entries` are the rows of `item_instance_entry`.
- **Market.** `inside` holds the requests between their reads and their
  transaction. `EnterExpired` is the cron with its LIMIT; `Ban` an operator.
- **Trade.** `inside` likewise; `todo` is the list `expireCron` works on.
- **Expire.** `old`/`live` are what is past its date and not, `batch` what
  `loadBatch` read, `posted` the keys of the day.
- **Race.** `run` is what each handler is about to do with the row it read;
  every final step is the conditional UPDATE of the code, but that a settled race
  is counted for the daily task after it, in Redis, or not.
- **Gacha.** `doing` is what each handler has in hand (the row it will save, the
  prizes it rolled, the counter it will write), `draws` is `gacha_draw`, `pity`
  the counter of `gacha_state`, `granted` the vouchers. A prize is one piece of
  what its entry names; how many pieces is left out.
- **Promo.** `redeeming` is the step of each handler, `code` the rows with a ghost
  `mark` (the uses when it was switched off), `screen` what the batch page shows.
- **Campaign.** `cache` is what the process remembers for `TTL`; `could` and
  `should` are ghosts: the acts that might be counted, and that have to be.
- **Matchmaking.** Every handler of the gateway is one step, as in a process with
  one thread; `queue` keeps its order. A connection without a track has the empty
  name, which the code takes for none (`if (client.trackKey)`).
- **Orders.** `at` is the step of a request, `desk` of a back-office cancel;
  stock and limit are counts of orders that are not cancelled, as in the code.
- **Pages of the back office** (`Grants`, `Drawer`, `Catalogue`, `Rights`,
  `Menus`, `Settings`, `Theme`): what the browser holds and what the server
  holds are separate variables; a request and its answer are separate steps.

## 3. Runs

| Run (`.cfg`) | Shows | Bounds, and why they do |
|---|---|---|
| `ledger` (`MCAccounts`) | `LotsCarryBalances`: balances are the sums of their lots, nothing below zero, the 409 of `takeFromLots` unreachable. `HistoryAddsUp`: balances are the history, supply is issued less burned. `EarliestFirst`. `PlayersAreKnown`: one account per person, cached ids stay | two players and the fee account, four vouchers of eight shapes, two expiry dates, one reversal. A FIFO cut spans at most three lots and a freeze moves two columns; four vouchers are enough to issue on two dates, freeze, pay or thaw |
| `ledger_double_reversal` (`MCLedgerReversal`) | violation: a voucher reversed twice | two reversal keys |
| `requests` (`MCRequests`) | `BookSpec`: the transaction implements `Book`. `EveryRequestEnds`. `ClaimsAreTrue`, `NothingForFree`: the fifteen services. `OneDiscountPerCoupon`. `LockedUnlocks` | three processes, each request sent at most twice; a sale sent twice and a gift across it, or a two-voucher bid beside a purchase and a mint: a cycle of waits needs two, a duplicate key two, a bystander one. Claims: two bizIds, two runs, any two of "a run dies", "a lock runs out", "a placeholder runs out", "an answer is forgotten", or the first three, amounts 1 or 2. Coupons: two of them, two bizIds, two codes, so that one coupon can have two. Logins: two attempts at once, locked after two failures of the name or three of the address |
| `market` (`MCMarket`) | `BidsEndRight`, `MoneyAccounted`, `OverdueCloses`; `RiskHolds`; `PetsHold` | a seller and two bidders, an auction and a fixed-price listing, three bids, LIMIT 1 for the cron's 200 so that the queue matters; bans or lapsing locks. Trade in bounds: two players and items, two handlers, two days of two hours, so that a check and its transaction may lie on two sides of midnight, under locks that last or do not; that a third player or handler changes nothing is proved. Three races; three pets, and again with two handlers that outlast each other's lock, so that two fusions or a birth and a hatching overlap |
| `trade` (`Trade`) | `OnlyOfferEndsOnce`, `CoinsAccounted`, `LateOffersEnd` | two players, two offers of 0 or 1 coins, two requests and the job inside at once: a double ending takes two |
| `trade_race` (`TradeRace`) | violation: an offer both cancelled and accepted | two offers of one coin, so that other frozen coins are at hand |
| `exchange` (`MCExchange`) | `NotOversold`, `ShippedOrRefunded`, `ChargedOrBack`; `ItemsAddUp`; `ReportIsTrue`, `CatalogueSound`, `AccessAsMeant`, `SettingsHold`, `FiguresHold`; `BelongingsHold` | three requests of two players for one or two items, one an account; two limited items and five entries; a form that is sent twice; two rows of each table of the back office; a month that is detached, or one edit of a balance by hand of plus or minus one; two things to wear and place, and two sofas placed at once in a room of four cells |
| `orders_free` (`MCOrdersFree`) | violation: a live order whose charge was refunded | as `exchange`, orders alone, with cancels |
| `grants_twice` (`MCGrants`) | violation: a grant sent once by the operator is paid twice | one form, one lost answer |
| `jobs` (`MCJobs`) | `QuietBurnIsExact`, `QuietJobEnds`; `LadderAddsUp`, `SeasonSettles`, `NothingLost`; `MonthsAreArchived` | two accounts and a batch of one, so that a burn has several batches; three days, three moves; two seasons, since the rank row of one is overwritten by the next; five months, since the window of kept ones has to pass |
| `archive_sum` (`MCArchiveSum`) | violation: a balance is not the sum of `asset_entry` | the archive alone |
| `play` (`MCPlay`) | `RaceOnRecord`; `DrawsHold`; `CareHolds`; `NobodyWaitsInVain`; `ActsCount`; `PromoHolds` | two handlers at a time, two revives, two tokens a scene; three pools, one of coins with a pity of two, two of points, one of which compensates and one not; the last draws of ten find coins and no points left; two connections of one player and one of another, on a track with a name and one without, a queue of two; a pet over two hours, and one hour with two handlers that outlast each other's lock; one with two illnesses over four hours and two cures at once; an event whose memory lasts two ticks of three, changed once, three acts; two promo handlers, players and codes. That the day's limit is passed by at most the handlers at a time takes more codes than that to be tight, and is proved |

A property that names a regime (`LocksHold`, `Only({...})`, `OneLock`,
`quiet`) says what the code keeps while that much goes right; what it does not
keep otherwise is in section 6. The regimes are variables fixed at the start, so
one run covers all of them, and in each the property speaks of, TLC meets both
sides of its condition. A clause without a condition holds whatever the module's
regimes let go wrong; what those are, its `Regimes` constant lists.

**Locks.** A Redis lock of a request lives 5 s (`common/lock/lock.service.ts:50`)
and may run out while its handler goes on. Every module about handlers under such
a lock has steps in which that happens: always in `Trade` and `Campaign`, which
use no lock at all, and in a regime ("slow" or "lapses") in `Claim`, `Coupon`,
`Market`, `Instances`, `Risk`, `Roster`, `Orders`, `Belongings`, `Season`,
`PetCare`, `Condition` and `Gacha`. These clauses need the lock to last, and say so:

| Property | Clause that needs the lock | Where it runs out |
|---|---|---|
| `RiskHolds` | `QuotaHolds`: gifts within the day's quota | two gifts checked on one tally |
| `PetsHold` | `FormsAddUp`, `WithinMaxPets`, `ALivePetAnswers`; that a pet is out | a fusion saves rows another has used up |
| `CareHolds` | the day's caps; lazy settling | two actions read one counter, or one row |
| `BelongingsHold` | no two pieces overlap; nothing gone is used | two placements read one layout |
| `DrawsHold` | `RareWithinPity`, `NoRollInReserve` | two draws read one counter |
| `MoneyAccounted`, `BidsEndRight` | frozen is the active bids; how an auction ends | a bid on a listing closed meanwhile |
| `ItemsAddUp` | `EntriesMatchState` | an item is burned and then listed |
| `NotOversold` | all of it | two requests count the same stock |
| `LadderAddsUp` | points are those of the matches | two challenges read one rank row |
| `ClaimsAreTrue`, `NothingForFree`, `OneDiscountPerCoupon` | as their comments list by service | two runs pay under two bizIds |

The locks of the jobs live for minutes and only one process
starts each job, so those are not let run out.

Constants named `Max...`, `LastDay`, `Money` and the sizes of the sets are the
only bounds; they are given in the `.cfg` files and in the `INSTANCE` lines of the
MC modules. Runs whose model comes to rest (all keys used, all requests sent)
say `CHECK_DEADLOCK FALSE`.

Each module defines, beside the operators taken from the code, faulty forms of
some of them (their comments begin "Faulty:"): a lock left out, an order
swapped, a cap forgotten. No specification uses them; replacing the right form by
the faulty one makes the property it belongs to fail, which is how the
properties are known to say something.

### Fairness

- `Posting`: weak fairness of what a process can do next. A statement that waits
  is not enabled; a death is never assumed nor excluded, and only `MaxTries`
  bounds the retries.
- `Market`: the clock passes each date; the cron (every five minutes) handles
  a listing it can see again and again, which is strong fairness, since another
  request may hold the listing's lock from time to time; a request inside
  commits or throws.
- `Trade`: the clock, and the job that runs every ten minutes without a lock.
- `Expire`: the scheduler starts the job and its process runs; players need not
  move.
- `Season`: the settlement job runs again and again.
- `Archive`: the script is started where it may be, and a started one runs on.
- `Login`: the clock, and each attempt that was started runs to its end.

`OverdueCloses` and `LateOffersEnd` hold only as long as nobody is banned,
for a ban really stops both jobs. The other modules claim no liveness.

## 4. What is proved

Twenty-three of the properties the runs check are proved, for every value of the
constants, each as `THEOREM Spec => []P` (`Spec => BookSpec` for the
refinement, `Spec => P` for an action property); beside them stand theorems of
the types (`TypeCorrect`, `ClaimTypeCorrect`), where the invariant does not
contain them.

| Module | Theorem | Property | For every |
|---|---|---|---|
| `LedgerProofs` | `LotsAndBalances` (of `BalancesAgreeWithLots`, `NothingBelowZero`, `NoApportionmentFailure`) | `LotsCarryBalances` | set of accounts, assets, keys, vouchers |
| | `BooksAddUp` | `HistoryAddsUp` | the same, finitely many users |
| | `FirstToExpireGoesFirst` | `EarliestFirst` | the same |
| `RequestProofs` | `PromiseKept` | `BookSpec` | processes, rows, transactions |
| | `ClaimsStand` | `ClaimsAreTrue` | runs, bizIds, amounts |
| | `NothingIsFree` | `NothingForFree` | the same |
| | `CouponIsWorthOneCode` | `OneDiscountPerCoupon` | requests, coupons, codes |
| `JobProofs` | `QuietBurnsAreExact` | `QuietBurnIsExact` | accounts, batch size, days, amounts |
| | `NothingIsLost` | `NothingLost` | months, kept and built ahead |
| `MarketProofs` | `BidsEndAsTheyShould` | `BidsEndRight` | users, listings, bids, prices |
| | `MoneyIsAccounted` | `MoneyAccounted` | the same |
| | `ItemsAreOnFile` | `ItemsAddUp` | players, items, offers, requests |
| | `TradeStaysInBounds` | `RiskHolds` | players, items, handlers, prices, limits |
| `Trade` | `OnlyOneEnd` | `OnlyOfferEndsOnce` | users, offers, amounts |
| | `CoinsAreKept` | `CoinsAccounted` | the same |
| `Orders` | `GoodsOrRefund` | `ShippedOrRefunded` | requests, players, stock, limit |
| | `NoChargeIsLost` | `ChargedOrBack` | the same |
| | `StockIsKept` | `NotOversold` | the same |
| `PlayProofs` | `RaceIsOnRecord` | `RaceOnRecord` | handlers, rewards, caps |
| | `RollsAreKept` | `DrawsHold` | handlers, pools, entries, pities, purses |
| | `OnlyActsAndEveryOne` | `ActsCount` | targets, edits, times, length of the memory |
| | `WaitingIsNotInVain` | `NobodyWaitsInVain` | players, connections, tracks |
| | `CodesGoToPlayers` | `PromoHolds` | codes, batches, players, handlers, limits |

### Assumptions

They are the named ASSUMEs of the modules, evaluated by TLC in the runs: legs
are pairs of integers, one for each row, and no voucher is the absence of one
(`VouchersAssumption`, `NoTxnAssumption`); users and system accounts are
finitely many and disjoint, as rows of a table are (`RolesAssumption`,
`TradeAssumption`, `MarketAssumption`, `ExpireAssumption`); listings and offers
are numbered, and money, prices, stock, limits and caps are natural numbers; a
transaction of `Posting` has at least one voucher and its keys differ, as every
caller's do (`PostingAssumption`); where a placeholder of 30 s can run out under
a request, its lock of 5 s can too (`ClaimAssumption`); what a race costs is a natural number, zero on
the free track (`RaceAssumption`); a pool of `gacha.config.ts` has an entry, weights
that are positive, prices and a pity that are natural numbers, and no unique
prize as the compensation for another (`GachaAssumption`, `SoundPools`);
targets, limits, sizes of batches and the length of the memory are positive, and
what stands for no row is none (`CampaignAssumption`, `PromoAssumption`,
`InstancesAssumption`); a connection shows one player's token
(`MatchmakingAssumption`); the archive keeps at least the month it is in
(`ArchiveAssumption`); the items in `Risk` are finitely many, and what has come
stays for no time or for longer than a handler may run: 72 hours, unless the
catalogue says otherwise, against a request's seconds, for which the model
allows until the end of the next hour (`RiskAssumption`: `Cooldown # 1`; for one
hour of that clock the property would be wrong). Nothing is assumed of amounts
on a voucher: an unsupported leg is refused by the model as by the code. That a
request's Redis lock lasts is assumed of no specification: where a clause needs it,
the clause says so, by its regime (section 3, Locks).

### Arguments

- **Ledger.** The invariant is `TypeOK /\ NoOverdraft /\ BalanceIsLots /\
  CheckedArePosted`; none of the middle two is inductive alone. That a FIFO cut
  leaves natural lots needs the cut to be no larger than the column; the only
  thing that says so is the conditional UPDATE of the balance, and it says it
  only as long as balance and column agree (`CoverFollows`). Agreement in turn
  needs a cut to take exactly what was asked (`CutFits`, `LegMovesLots`).
  `ApplyKeeps` carries both over any set of legs; post and reversal are
  instances of it, a reversal because its voucher is on file
  (`CheckedArePosted`), so that its legs are legs. `BooksAddUp` adds
  `HistoryInv`: a balance is a sum over the posted keys, and the supply a sum over
  accounts of balances; the two are exchanged for the legs of one voucher.
  `EarliestFirst` is an action property of every cut (`TakesEarliest`).
- **Sums.** The libraries' induction over finite sets takes an operator as a
  parameter, which the installed provers cannot instantiate. `SumProofs`
  therefore proves its facts of the recursive sum by induction in its set form
  (a set of sets closed under adding an element holds every finite one), and
  `Ledger`, `Orders`, `Trade` and `Market` use: one term changed, terms
  exchanged, sums of equal terms.
- **Posting.** A step maps to a step of `Book` only at COMMIT; every other one
  must stutter. The invariant says, for each process, where it stands (`Placed`),
  that what it has changed is what its finished vouchers and its updates so far
  say, on rows it holds and none below zero (`RowsOf`), and that the keys it has
  inserted are those of its vouchers so far, none of which is posted
  (`InsertsOf`). At COMMIT these give `Book`'s `Post`: all its vouchers at once,
  their keys new, the rows right.
- **Claim.** The services differ in the order of their steps, so the invariant
  speaks of positions: what is paid is paid under its key (`Ones`, `OnePerKey`),
  a run past a step has done it (`Owed`, `PaidFor`), and where the lock holds
  only one run is past the check (`Alone`, `PaidAlone`). `HatchedOnce`,
  `SentOnce` and `Charged` are the cases the properties name.
- **Expire.** The amounts of a batch were read before they are posted. In a run
  that players leave alone they are still those of the rows (`BatchIsDue`),
  because a burn changes the row of its own account only and a batch has one group
  an account; so no burn fails, the job never gives up a batch as "全批都失败",
  and it ends only where nothing is left to load (`QuietRun`).
- **Archive.** Nothing is dropped that is not whole in its copy, because what is
  detached is of the past (`GoneIsPast`) and a row is written to the month that
  is now; so the file of the script's month, once it holds what the table held,
  goes on doing so until the upload and the drop (`ScriptKnows`).
- **Coupons.** The voucher, the code and the key that replays it are three steps.
  While no lock lapses and the interceptor remembers, one request runs at a time
  (`OneRuns`), what can be answered was charged for (`ChargedFirst`) and a bizId
  is answered once (`AnsweredOnce`); so every discount has a bizId of its own
  among those charged.
- **Market.** What a handler read before its transaction is still true in it,
  wherever the lock held (`ReadsHold`); the board is consistent (`BoardHolds`:
  one active bid a listing, the highest one; closed listings none); and what is
  frozen is the sum of the active bids (`FrozenIsActiveBids`). Coins are
  conserved without any condition on locks.
- **Items.** Every move of an item is one operator (`GoesTo`): the entry it
  appends and the owner, state and claims it leaves. `LongerSets` and
  `OneEntryMore` say what one entry more does to gains, losses and the last
  owner; one lemma, that row and history go on fitting, then serves every
  handler. What a pending handler checked under the one lock there is stays
  good until its transaction, if the lock lasts; without that a burned item would move. A reversal
  and a barter offer undo parts of this, which is why the last two parts of the
  property leave them out.
- **Bounds of trade.** Gifts and sales are checked under a lock of the pet,
  purchases under the listing's, barter under another of the player, so two
  handlers may hold checks of one item at once. The invariant says that each
  check holds still, or that the item has come to somebody else since, in which
  case it is stuck with him until that handler is done (`CheckHolds`, `Stuck`);
  and that an offer is to somebody else (`ToOthers`); of locks that last or not
  alike. So whoever does post finds
  what he checked, and nobody's check was of the item that he sends on
  (`SenderIsFirst`, `ArrivalKeeps`). With gifts only, and while their locks last, one handler of a player at a
  time; what it checked holds on the day it posts, too, because that day has no
  entry yet if it is a new one (`OneGift`). The two entries of a change of hands
  are what it changes in what the two own (`TwoRecords`, `WorthArrives`,
  `BooksBalance`).
- **Trade.** Three locks do not exclude each other, so nothing can be said of
  one offer by its lock, and the model takes none. If the offer is its sender's only one, the frozen coins
  are its coins, and whoever comes second finds none (`OnlyOfferHolds`); for
  this a handler inside must have read an offer that was made (`AllMade`) and no
  sender may have more than his due (`FewOffers`).
- **Orders.** Vouchers stay while the row moves on, so the invariant ties each
  to the states of the row that may follow it: a parcel to `shipped`, a refund or
  a desk about to make one to `cancelled`; and a charge with neither order nor
  money back to a request between the two (`ChargesAreUnderway`). `StockInv` adds
  that while the locks hold at most one request is between its count and its
  insert, and that the count it made still bounds the sum.
- **Race.** A handler carries the row as it read it, so the invariant says what
  the old row tells of the present one: who is at a re-roll saw a race with room
  for it (`SeesARace`, `SawRoom`), who pays a second time saw the settled row
  and its reward has not changed since (`SeesSettled`, because only a pending
  row is re-rolled); beside it, that no more tokens are out than were issued and
  nothing is re-rolled before the race exists. The task's count is a step of its own
  after the row's UPDATE: exactly one handler stands before it once the race is
  settled, until it has counted or `missed` says that Redis failed it or the
  handler died.
- **Gacha.** A roll is made, saved, handed over and counted in four steps. The
  invariant (`DrawInv`) says what each handler has in hand: a roll not saved yet
  is fair for the pity that stands (`IsFair`), a saved one is what the row says
  (`JobFits`), and the counter about to be written tells of all draws so far
  (`PityHolds`). `Tells` relates a counter to a history: with it, any window as
  long as the pity has a rare draw. Where nobody dies and no lock lapses a
  handler is alone, so nothing changes between its steps; where another pool may
  be crossed, a prize that was rolled from a pool of coins that compensates can
  still be granted (`NoneInReserve`): its balance was looked at and its unique
  prizes have one copy to grant (`PlanHasOneCopy`).
- **Events.** What a process remembers may be stale, and the invariant says by
  how much: a target is remembered from a time when the event ran
  (`RemembersARun`), and what was remembered since the event last changed is what
  it is (`RemembersRight`). Any number of claims may be under way; each has read
  enough, and no more than was done. Each act is then either in the progress or being
  counted (`BeingCounted`), which gives both directions.
- **Live queue.** The property is inductive. What it needs is what a queue is
  after the entries of one player are taken out (`FilterExists`, `WithoutIs`): nobody new, and
  nobody of that player.
- **Promo codes.** A redemption passes three numbers in three steps: the uses of
  its code, the redemptions, the player's count of the day. The invariant says
  what is owed between them: the uses of a code are its holders and those of a
  batch their sum (`SumsAgree`), the codes of a player are his count and the
  handlers yet to count (`DayCounts`), who looked saw room for one more
  (`DayHasRoom`), and the screen is behind (`ScreenIsBehind`).

The inductive invariants were checked by TLC on the instances of the runs before
they were proved.

### Only model-checked

- Every liveness property (`EveryRequestEnds`, `OverdueCloses`, `LateOffersEnd`,
  `QuietJobEnds`, `SeasonSettles`, `MonthsAreArchived`, `LockedUnlocks`), and
  the ENABLED in `Market`'s `Fail`: out of the prover's reach.
- `PlayersAreKnown`, `LadderAddsUp`, `PetsHold`, `CareHolds`, and those of the
  back office (`ReportIsTrue`, `CatalogueSound`, `AccessAsMeant`,
  `SettingsHold`, `FiguresHold`, `BelongingsHold`): not proved. They are
  instances in their MC modules, several in two sizes at once.

## 5. Disagreements between code and comments

Five have a run that shows them:

- **A voucher can be reversed twice** (`ledger/ledger.service.ts:197`). The
  check for an earlier reversal is outside the transaction and nothing unique
  backs it; `admin/ops/admin-wallet.service.ts:310` says it cannot happen.
- **A barter offer can end twice** (`trade/trade.service.ts:570`). Cancel and
  accept run under different locks, post under different keys and ignore that
  their conditional UPDATE hit no row. With other coins frozen the offer is
  given back and paid out at another offer's expense.
- **An order nobody paid** (`exchange/exchange.service.ts:135`). After an
  oversold refund the same bizId finds its charge replayed; if a cancel
  freed stock meanwhile, it gets an order.
- **Balances are not the sum of their entries** (`economy/reconcile.service.ts:137`).
  An archived month leaves `asset_entry`, and nothing books an opening balance.
- **A grant sent again is paid again** (`src/admin-web/src/services/wallet.ts:55`).
  The page promises a repeated submit is safe; each call makes a new bizId.

Others were met while reading and have no run of their own:

- A draw from a pool of points is prechecked on coins: `gacha/gacha.service.ts:157-162`
  compares the currency with `'marketing'`, which it never is
  (`gacha/gacha.config.ts:177` has `marketing_point`). A player with coins and no
  points keeps a saved roll that nobody delivers, which the comment at `:147-155`
  says cannot be; `NoRollInReserve` therefore speaks of pools of coins.
- The window of the daily statistics cuts a day in the middle
  (`economy/reconcile.service.ts:341` against its comment at `:338`); net flow
  and `dailyStats` cover one day more than asked, and `toISOString().slice(0,10)`
  may move the day (`admin/ops/admin-wallet.service.ts:122`).
- Reconciling by hand reports what expired since the job of 04:00 as a breach of
  invariant 10.
- The dashboard counts every positive coin leg as issued
  (`admin-stats.service.ts:105`), market sales a seller's price as outflow
  (`trade-settlement.service.ts:144` against `trade-risk-daily.entity.ts:22`).
- Promo: the warning on `used_count` cannot fire (`admin-promo.service.ts:140`),
  the filter `enabled=false` is read as true (`promo-admin.dto.ts:82`), the form's
  first asset is one the DTO refuses, and the day's limit is counted before it
  is raised (`promo.service.ts:108`).
- The items page offers price assets the DTO refuses (`item-def.dto.ts:47`); the
  Issuance page keeps a stale `days` (`pages/Economy/Issuance:75`).
- The Trade page says both sides are locked; only the sender's coins are frozen
  (`pages/Market/Trade/index.tsx:22`, `trade/trade.service.ts:294`).
- `bindAccount` saves the whole row and may undo a ban (`auth.service.ts:132`); two
  binds at once pass the check that allows one (`:128`).
- `setActive` lets a fused pet be put out (`pet.service.ts:274`).
- A player may join the live queue of the track with the empty name
  (`data?.trackKey ?? 'meadow'` lets it pass); leaving or cancelling takes it for
  no track at all, and the entry stays (`pvp-realtime/pvp.gateway.ts:62`, `:79`).
- A rank can exceed the number of racers after the field was resized, and a
  race may be "mixed" without a real shadow.

## 6. What the properties exclude, because the code does not keep it

Met while modelling; each is the reason for a condition in a property or for a
choice in a run.

- Mints update `asset_def` in the caller's order after the sorted balances: two
  draws of the same two unique assets can deadlock (`ledger.service.ts:159`).
- `bid` posts a freeze and a refund in one transaction, each sorted, the two
  together not: two such bids in opposite directions can deadlock
  (`market/market.service.ts:538`); PostgreSQL ends one of the two.
- An offer that read an item as held, and a recycle under the other lock: the
  item is burned and then moved into ESCROW (`ledger.service.ts:885`; `OneLock`).
- A reversal returns an item as `held` whatever account it goes to; reversing
  a listing's exit leaves an ESCROW item marked held (`ledger.service.ts:280`).
- A ban of the seller or one bidder keeps a listing from being settled, unwound
  or outbid (`ledger.service.ts:519`), and 200 such listings starve the cron
  (`market.service.ts:702`). `expireCron` stops at the first error that is not
  a duplicate (`trade.service.ts:671`).
- A bid whose lock ran out commits on a listing closed meanwhile and stays
  active for ever (`market.service.ts:514`). Where a lock lapsed, a stale refund
  may be that of the bid that won, and what is frozen no longer backs the
  active bids (`:541`).
- Where a lock of 5 s runs out under its handler (`common/lock/lock.service.ts:50`):
  two gifts pass the day's quota together (`trading/trade-risk.service.ts:105`); two
  fusions, or a birth and a hatching, save rows the other has used up or pass the
  number of pets (`fusion/fusion.service.ts:110`, `pet/pet.service.ts:235`); two
  actions pass the day's cap between GET and INCRBY and save over each other
  (`pet/pet.service.ts:877`); two pieces of furniture stand on one another
  (`home/home.service.ts:166`); a recycled item is listed (`market/market.service.ts:282`).
- A race that is settled is not counted by the daily task when Redis fails or the
  process dies before the count (`race/race.service.ts:309`, `:613`); nothing counts
  it later.
- An edit of a balance by hand goes unnoticed where what a detached month has taken
  from `asset_entry` makes up for it (`economy/reconcile.service.ts:137`).
- While players move, the expiry job burns a stale amount (`expire.service.ts:122`),
  and coins that are thawed past their date after the day's burn keep its loop
  going (`:138`): the burn is a replay, which it takes for progress.
- Rows marked before they are paid lose the reward when the run dies (check-in,
  tasks, collection, likes); rewards paid under the client's bizId before the
  row is marked are paid twice under a second bizId (events, diagnosis,
  offline income).
- Items and speed-ups take effect again when a request is repeated after its
  answer was forgotten or its run died (`items/consumable.service.ts:92-120`).
- A connection that hops from one track to another leaves its first entry behind,
  and a match may be started with a connection that is closed
  (`pvp-realtime/pvp.gateway.ts:62-71`).
- Two handlers that looked at the same time pass a player's limit of promo codes
  for the day together (`promo/promo.service.ts:108`).
- A revive between settle's read and its UPDATE changes the recorded amount
  (`race/race.service.ts:302`); stamina and tokens are gone when a later step
  fails. A breeding fee is gone when the stamina is missing (`breed/breed.service.ts:140`).
- The grant of an order whose answer is lost leaves the order pending, so that
  it may be refunded as well (`exchange/exchange.service.ts:218`).

## 7. Not modelled

- Queries of history, the market and lists of the back office, addresses, boosts,
  bonuses, the development scripts: no state that the modules' properties depend
  on. `PROJECT.json` gives the parts left out of each component that is modelled
  partly.
- How much things are worth: genes, race results, drop tables, prices. Where
  an amount matters it is any value of a small set.
- Clock skew between Redis, PostgreSQL and the servers.
- Failure of Redis itself; the interceptor and the lock then refuse.

## 8. What could follow

In the order of weight:

1. `LadderAddsUp` (points as a sum over the matches of a season): the last
   invariant about assets without a theorem.
2. `PlayersAreKnown`, `PetsHold`, `CareHolds`.
3. The back office's invariants, which are local to a page and its rows.
