------------------------------- MODULE Ledger -------------------------------
(***************************************************************************)
(* The double-entry ledger of ledger.service.ts at the grain of one        *)
(* database transaction: a voucher (asset_txn) with its legs (asset_entry) *)
(* moves the balances (asset_balance) and the lots they are cut into       *)
(* (asset_lot), or leaves no trace.                                        *)
(*                                                                         *)
(* A voucher runs inside one transaction and holds the balance row of each *)
(* of its legs to the end of it, so two vouchers that meet on a row are    *)
(* serialized; Posting.tla opens the transaction up and shows that. What   *)
(* is NOT inside the transaction is reverse()'s check that the voucher was *)
(* not reversed yet: it is an action of its own here.                      *)
(*                                                                         *)
(* Unique items (mint, move, burn) are in Instances.tla.                   *)
(***************************************************************************)
EXTENDS Integers, FiniteSets, Functions

CONSTANTS
  Users,       \* players' accounts
  Systems,     \* system accounts (SYSTEM_FEE, ...): never banned
  Assets,      \* currencies and stackable items (kind # 'unique')
  Expiring,    \* the assets whose asset_def.expire_days is set
  BizKeys,     \* idempotency keys: asset_txn.biz_id after buildBizId
  RevKeys,     \* the bizKey an operator gives to reverse()
  Vouchers,    \* the PostInputs callers submit
  NoTxn        \* the key has no asset_txn row

Accounts == Users \cup Systems
Rows     == Accounts \X Assets          \* primary key of asset_balance
Kinds    == {"issue", "burn", "transfer", "freeze"}
LastDay  == 2                           \* bound: "early" expires at 1, "late" at 2

Leg     == [d : Int, f : Int]           \* delta, frozen_delta
Voucher == [kind : Kinds, exempt : BOOLEAN, legs : [Rows -> Leg]]
Bucket  == [early : Nat, late : Nat, never : Nat]   \* a lot column by expires_at

ASSUME RolesAssumption ==
  /\ Users \cap Systems = {} /\ IsFiniteSet(Users) /\ IsFiniteSet(Systems)
  /\ Expiring \subseteq Assets
ASSUME VouchersAssumption == Vouchers \subseteq Voucher
ASSUME NoTxnAssumption == NoTxn \notin Vouchers

VARIABLES
  avail, froz,     \* asset_balance.available, .frozen
  rem, lock,       \* asset_lot.remaining, .frozen, by expiry date
  txn,             \* asset_txn by biz_id
  checked,         \* reverse() calls between their check and their transaction
  reversed,        \* asset_txn rows with reversal_of set: <<original, bizKey>>
  banned,          \* user.status = 'banned'
  day

vars == <<avail, froz, rem, lock, txn, checked, reversed, banned, day>>

Zero == [early |-> 0, late |-> 0, never |-> 0]

TypeOK ==
  /\ avail \in [Rows -> Int]
  /\ froz \in [Rows -> Int]
  /\ rem \in [Rows -> Bucket]
  /\ lock \in [Rows -> Bucket]
  /\ txn \in [BizKeys -> Vouchers \cup {NoTxn}]
  /\ checked \subseteq BizKeys \X RevKeys
  /\ reversed \subseteq BizKeys \X RevKeys
  /\ banned \subseteq Users
  /\ day \in 0 .. LastDay

Init ==
  /\ avail = [k \in Rows |-> 0]
  /\ froz = [k \in Rows |-> 0]
  /\ rem = [k \in Rows |-> Zero]
  /\ lock = [k \in Rows |-> Zero]
  /\ txn = [b \in BizKeys |-> NoTxn]
  /\ checked = {}
  /\ reversed = {}
  /\ banned = {}
  /\ day = 0

-----------------------------------------------------------------------------
(* Lots. *)

Total(c)    == c.early + c.late + c.never
Plus(c, g)  == [early |-> c.early + g.early, late |-> c.late + g.late, never |-> c.never + g.never]
Minus(c, g) == [early |-> c.early - g.early, late |-> c.late - g.late, never |-> c.never - g.never]
Least(x, y) == IF x <= y THEN x ELSE y

\* Faulty: the last to expire goes first.
CutLatestFirst(c, q) ==
  LET n == Least(q, c.never)
      l == Least(q - n, c.late)
  IN  [early |-> q - n - l, late |-> l, never |-> n]

\* What a FIFO cut of q takes from each lot: earliest expires_at first, NULLS LAST.
Cut(c, q) ==
  LET e == Least(q, c.early)
      l == Least(q - e, c.late)
  IN  [early |-> e, late |-> l, never |-> q - e - l]

\* issueLot's bucket: the expiry date today's issue gets, NULL without expire_days.
IssueInto(k, q) ==
  CASE k[2] \in Expiring /\ day = 0 -> [early |-> q, late |-> 0, never |-> 0]
    [] k[2] \in Expiring /\ day = 1 -> [early |-> 0, late |-> q, never |-> 0]
    [] OTHER                        -> [early |-> 0, late |-> 0, never |-> q]

\* applyLots' cases.
Absent(l)   == l.d = 0 /\ l.f = 0
Issues(l)   == l.d > 0 /\ l.f = 0
Spends(l)   == l.d < 0 /\ l.f = 0
Freezes(l)  == l.d < 0 /\ l.f = -l.d
Thaws(l)    == l.d > 0 /\ l.f = -l.d
PaysOut(l)  == l.d = 0 /\ l.f < 0
Supported(l) == Absent(l) \/ Issues(l) \/ Spends(l) \/ Freezes(l) \/ Thaws(l) \/ PaysOut(l)

\* takeFromLots finds all it was asked for (otherwise it throws 409).
LotsCover(k, l) ==
  /\ Spends(l) \/ Freezes(l) => -l.d <= Total(rem[k])
  /\ Thaws(l) \/ PaysOut(l) => -l.f <= Total(lock[k])

RemAfter(k, l) ==
  CASE Issues(l)               -> Plus(rem[k], IssueInto(k, l.d))
    [] Spends(l) \/ Freezes(l) -> Minus(rem[k], Cut(rem[k], -l.d))
    [] Thaws(l)                -> Plus(rem[k], Cut(lock[k], -l.f))
    [] OTHER                   -> rem[k]

\* Faulty: a payment out of frozen funds moves the balance but not the lots.
LockAfterNoPay(k, l) ==
  CASE Freezes(l) -> Plus(lock[k], Cut(rem[k], -l.d))
    [] Thaws(l)   -> Minus(lock[k], Cut(lock[k], -l.f))
    [] OTHER      -> lock[k]

LockAfter(k, l) ==
  CASE Freezes(l)              -> Plus(lock[k], Cut(rem[k], -l.d))
    [] Thaws(l) \/ PaysOut(l)  -> Minus(lock[k], Cut(lock[k], -l.f))
    [] OTHER                   -> lock[k]

-----------------------------------------------------------------------------
(* Legs. *)

\* The conditional UPDATE of asset_balance hits its row.
Affordable(k, l) == avail[k] + l.d >= 0 /\ froz[k] + l.f >= 0

\* applyLeg on every row of L, in one transaction.
CanApply(L) == \A k \in Rows : Affordable(k, L[k]) /\ Supported(L[k]) /\ LotsCover(k, L[k])

Apply(L) ==
  /\ avail' = [k \in Rows |-> avail[k] + L[k].d]
  /\ froz' = [k \in Rows |-> froz[k] + L[k].f]
  /\ rem' = [k \in Rows |-> RemAfter(k, L[k])]
  /\ lock' = [k \in Rows |-> LockAfter(k, L[k])]

Opposite(L) == [k \in Rows |-> [d |-> -L[k].d, f |-> -L[k].f]]

LegRows(v) == {k \in Rows : ~Absent(v.legs[k])}

\* Sum of delta + frozenDelta over the legs of one asset.
NetOf(v, s) == SumFunction([a \in Accounts |-> v.legs[<<a, s>>].d + v.legs[<<a, s>>].f])

\* assertBalanced: only transfers and freezes have to balance.
Balanced(v) ==
  /\ v.kind = "transfer" => /\ \A s \in Assets : NetOf(v, s) = 0
                            /\ Cardinality(LegRows(v)) >= 2
  /\ v.kind = "freeze" => \A k \in Rows : v.legs[k].d + v.legs[k].f = 0

\* assertNotBanned: BAN_EXEMPT_REASONS, or no banned player among the legs.
NotBanned(v) == v.exempt \/ \A k \in LegRows(v) : k[1] \notin banned

-----------------------------------------------------------------------------
(* Operations. *)

\* Faulty: the biz_id is not unique.
PostAgain(b, v) ==
  /\ LegRows(v) # {}
  /\ Balanced(v)
  /\ NotBanned(v)
  /\ CanApply(v.legs)
  /\ Apply(v.legs)
  /\ txn' = [txn EXCEPT ![b] = v]
  /\ UNCHANGED <<checked, reversed, banned, day>>

\* post() of a fresh biz_id; a used one is a replay, which changes nothing, and
\* a failing guard rolls the transaction back, which changes nothing either.
Post(b, v) ==
  /\ txn[b] = NoTxn
  /\ LegRows(v) # {}
  /\ Balanced(v)
  /\ NotBanned(v)
  /\ CanApply(v.legs)
  /\ Apply(v.legs)
  /\ txn' = [txn EXCEPT ![b] = v]
  /\ UNCHANGED <<checked, reversed, banned, day>>

IsReversed(b) == \E r \in RevKeys : <<b, r>> \in reversed

\* reverse() up to its transaction: the voucher exists and is not reversed yet.
CheckReversal(b, r) ==
  /\ txn[b] # NoTxn
  /\ ~IsReversed(b)
  /\ checked' = checked \cup {<<b, r>>}
  /\ UNCHANGED <<avail, froz, rem, lock, txn, reversed, banned, day>>

\* reverse()'s transaction: biz_id sys:reversal:{txnId}:{bizKey} is fresh, the
\* opposite legs apply. Neither balance nor ban is checked.
PostReversal(b, r) ==
  /\ <<b, r>> \in checked
  /\ <<b, r>> \notin reversed
  /\ CanApply(Opposite(txn[b].legs))
  /\ Apply(Opposite(txn[b].legs))
  /\ reversed' = reversed \cup {<<b, r>>}
  /\ checked' = checked \ {<<b, r>>}
  /\ UNCHANGED <<txn, banned, day>>

\* reverse() ends without a row: replay of its own key, or its transaction fails.
AbandonReversal(b, r) ==
  /\ <<b, r>> \in checked
  /\ <<b, r>> \in reversed \/ ~CanApply(Opposite(txn[b].legs))
  /\ checked' = checked \ {<<b, r>>}
  /\ UNCHANGED <<avail, froz, rem, lock, txn, reversed, banned, day>>

\* The account status an operator sets (admin-players.service.ts).
SetBan(u) ==
  /\ banned' = IF u \in banned THEN banned \ {u} ELSE banned \cup {u}
  /\ UNCHANGED <<avail, froz, rem, lock, txn, checked, reversed, day>>

\* Time passes an expiry date.
Tick ==
  /\ day < LastDay
  /\ day' = day + 1
  /\ UNCHANGED <<avail, froz, rem, lock, txn, checked, reversed, banned>>

Next ==
  \/ \E b \in BizKeys, v \in Vouchers : Post(b, v)
  \/ \E b \in BizKeys, r \in RevKeys :
        CheckReversal(b, r) \/ PostReversal(b, r) \/ AbandonReversal(b, r)
  \/ \E u \in Users : SetBan(u)
  \/ Tick

Spec == Init /\ [][Next]_vars

-----------------------------------------------------------------------------
(* Properties. *)

\* Invariant 9 of reconcile.service.ts, for both columns: the balance of a row
\* is the sum of its lots, whatever mix of FIFO cuts, freezes, thaws, expiry
\* dates and reversals led there.
BalanceIsLots ==
  \A k \in Rows : avail[k] = Total(rem[k]) /\ froz[k] = Total(lock[k])

\* ck_balance_non_negative and ck_lot_non_negative never have to reject: no row
\* and no lot goes below zero.
NoOverdraft ==
  \A k \in Rows : /\ avail[k] >= 0 /\ froz[k] >= 0
                  /\ rem[k] \in Bucket /\ lock[k] \in Bucket

\* takeFromLots' promise: once the conditional UPDATE of the balance succeeded,
\* the lots cover the leg, so its 409 'apportionment failed' never surfaces.
ApportionmentNeverFails ==
  \A v \in Vouchers, k \in Rows :
    Affordable(k, v.legs[k]) /\ Supported(v.legs[k]) => LotsCover(k, v.legs[k])

\* The lots carry the balances: they add up to them, none is overdrawn, and a leg
\* the balance can bear finds its lots.
LotsCarryBalances == BalanceIsLots /\ NoOverdraft /\ ApportionmentNeverFails

Posted  == {b \in BizKeys : txn[b] # NoTxn}
Minting == {b \in Posted : txn[b].kind \in {"issue", "burn"}}

\* How often the legs of voucher b count: once posted, minus once per reversal.
Weight(b) == IF txn[b] = NoTxn THEN 0 ELSE 1 - Cardinality({r \in RevKeys : <<b, r>> \in reversed})

\* Invariants 2 and 3 of reconcile.service.ts: a balance is the sum of the legs
\* of the vouchers on file, each counted exactly once, and of their reversals.
BalanceIsHistory ==
  \A k \in Rows : /\ avail[k] = SumFunction([b \in Posted |-> Weight(b) * txn[b].legs[k].d])
                  /\ froz[k] = SumFunction([b \in Posted |-> Weight(b) * txn[b].legs[k].f])

\* Holdings of an asset over all accounts, frozen included.
Supply(s) == SumFunction([a \in Accounts |-> avail[<<a, s>>] + froz[<<a, s>>]])

\* Invariant 1: transfers and freezes create nothing and destroy nothing; what
\* exists of an asset is what issue and burn vouchers, net of reversals, say.
SupplyIsIssuedMinusBurned ==
  \A s \in Assets : Supply(s) = SumFunction([b \in Minting |-> Weight(b) * NetOf(txn[b], s)])

\* Reconcile invariants 1, 2 and 3 together.
HistoryAddsUp == BalanceIsHistory /\ SupplyIsIssuedMinusBurned

\* No lot gives while an earlier-expiring one of its column is left.
TakesEarliest ==
  \A k \in Rows :
    /\ rem'[k].never < rem[k].never => rem'[k].early = 0 /\ rem'[k].late = 0
    /\ rem'[k].late < rem[k].late => rem'[k].early = 0
    /\ lock'[k].never < lock[k].never => lock'[k].early = 0 /\ lock'[k].late = 0
    /\ lock'[k].late < lock[k].late => lock'[k].early = 0

\* FIFO: no step takes from a lot while an earlier-expiring lot of the same
\* column still holds something, so a player never keeps the short-dated units
\* and loses the long-dated ones.
EarliestFirst == [][TakesEarliest]_vars

\* "同一凭证不可重复冲正" (admin-wallet.service.ts:310, ledger.service.ts:204): a
\* voucher is reversed at most once.
ReversedAtMostOnce ==
  \A b \in BizKeys : Cardinality({r \in RevKeys : <<b, r>> \in reversed}) <= 1
=============================================================================
