---------------------------- MODULE LedgerProofs ----------------------------
(***************************************************************************)
(* Ledger.tla for every set of accounts, assets, keys and vouchers: the    *)
(* balances are the sums of the lots and nothing goes below zero; the      *)
(* books add up; what expires first goes first.                            *)
(*                                                                         *)
(* The first two are not inductive alone. That FIFO cuts keep the lots     *)
(* natural needs the cut to be no larger than the column, which follows    *)
(* from the conditional UPDATE of the balance only because balance and     *)
(* column agree before the step; so both are carried together, with the    *)
(* types, and with the fact that a reversal under way has a voucher to     *)
(* reverse.                                                                *)
(*                                                                         *)
(* That the books add up needs more of what is on file: a reversal is of a *)
(* voucher that is there (else a voucher could come on file with a weight  *)
(* that is not one), and every voucher passed assertBalanced (else its     *)
(* reversal could mint).                                                   *)
(***************************************************************************)
EXTENDS Ledger, SumProofs, TLAPS

\* A reversal only ever gets past its check for a voucher on file.
CheckedArePosted == \A b \in BizKeys, r \in RevKeys : <<b, r>> \in checked => txn[b] # NoTxn

IInv == TypeOK /\ NoOverdraft /\ BalanceIsLots /\ CheckedArePosted

-----------------------------------------------------------------------------
(* Lots. *)

\* A FIFO cut of no more than the column holds is a bucket of exactly that
\* total which fits into the column.
LEMMA CutFits ==
  ASSUME NEW c \in Bucket, NEW q \in Nat, q <= Total(c)
  PROVE  /\ Cut(c, q) \in Bucket
         /\ Total(Cut(c, q)) = q
         /\ Minus(c, Cut(c, q)) \in Bucket
         /\ Total(Minus(c, Cut(c, q))) = Total(c) - q
  BY DEF Cut, Total, Minus, Least, Bucket

\* Adding buckets adds their totals.
LEMMA PlusAdds ==
  ASSUME NEW c \in Bucket, NEW g \in Bucket
  PROVE  Plus(c, g) \in Bucket /\ Total(Plus(c, g)) = Total(c) + Total(g)
  BY DEF Plus, Total, Bucket

\* issueLot puts the whole amount into one lot.
LEMMA IssueIntoAll ==
  ASSUME NEW k, NEW q \in Nat
  PROVE  IssueInto(k, q) \in Bucket /\ Total(IssueInto(k, q)) = q
  BY DEF IssueInto, Total, Bucket

-----------------------------------------------------------------------------
(* One leg. *)

\* The balance UPDATE vouches for the lots: what it lets through, the lots cover.
LEMMA CoverFollows ==
  ASSUME BalanceIsLots, NEW k \in Rows, NEW l \in Leg,
         avail[k] \in Int, froz[k] \in Int,
         Affordable(k, l)
  PROVE  LotsCover(k, l)
  BY DEF BalanceIsLots, Affordable, LotsCover, Leg, Spends, Freezes, Thaws, PaysOut

\* A covered leg of a supported form moves both columns by exactly its amounts.
LEMMA LegMovesLots ==
  ASSUME NEW k \in Rows, NEW l \in Leg,
         rem[k] \in Bucket, lock[k] \in Bucket,
         Supported(l), LotsCover(k, l)
  PROVE  /\ RemAfter(k, l) \in Bucket
         /\ LockAfter(k, l) \in Bucket
         /\ Total(RemAfter(k, l)) = Total(rem[k]) + l.d
         /\ Total(LockAfter(k, l)) = Total(lock[k]) + l.f
<1> USE DEF Leg
<1>0. l.d \in Int /\ l.f \in Int /\ Total(rem[k]) \in Int /\ Total(lock[k]) \in Int
  BY DEF Bucket, Total
<1>1. CASE Absent(l)
  <2>1. RemAfter(k, l) = rem[k] /\ LockAfter(k, l) = lock[k]
    BY <1>1, <1>0 DEF RemAfter, LockAfter, Absent, Issues, Spends, Freezes, Thaws, PaysOut
  <2> QED  BY <2>1, <1>1, <1>0 DEF Absent
<1>2. CASE Issues(l)
  <2>1. /\ RemAfter(k, l) = Plus(rem[k], IssueInto(k, l.d))
        /\ LockAfter(k, l) = lock[k]
    BY <1>2, <1>0 DEF RemAfter, LockAfter, Issues, Spends, Freezes, Thaws, PaysOut
  <2>2. l.d \in Nat /\ l.f = 0
    BY <1>2, <1>0 DEF Issues
  <2> QED  BY <2>1, <2>2, <1>0, IssueIntoAll, PlusAdds
<1>3. CASE Spends(l)
  <2>1. /\ RemAfter(k, l) = Minus(rem[k], Cut(rem[k], -l.d))
        /\ LockAfter(k, l) = lock[k]
    BY <1>3, <1>0 DEF RemAfter, LockAfter, Issues, Spends, Freezes, Thaws, PaysOut
  <2>2. -l.d \in Nat /\ -l.d <= Total(rem[k]) /\ l.f = 0
    BY <1>3, <1>0 DEF Spends, LotsCover
  <2>3. /\ Minus(rem[k], Cut(rem[k], -l.d)) \in Bucket
        /\ Total(Minus(rem[k], Cut(rem[k], -l.d))) = Total(rem[k]) - (-l.d)
    BY <2>2, CutFits
  <2> QED  BY <2>1, <2>2, <2>3, <1>0
<1>4. CASE Freezes(l)
  <2>1. /\ RemAfter(k, l) = Minus(rem[k], Cut(rem[k], -l.d))
        /\ LockAfter(k, l) = Plus(lock[k], Cut(rem[k], -l.d))
    BY <1>4, <1>0 DEF RemAfter, LockAfter, Issues, Spends, Freezes, Thaws, PaysOut
  <2>2. -l.d \in Nat /\ -l.d <= Total(rem[k]) /\ l.f = -l.d
    BY <1>4, <1>0 DEF Freezes, LotsCover
  <2>3. /\ Cut(rem[k], -l.d) \in Bucket
        /\ Total(Cut(rem[k], -l.d)) = -l.d
        /\ Minus(rem[k], Cut(rem[k], -l.d)) \in Bucket
        /\ Total(Minus(rem[k], Cut(rem[k], -l.d))) = Total(rem[k]) - (-l.d)
    BY <2>2, CutFits
  <2>4. /\ Plus(lock[k], Cut(rem[k], -l.d)) \in Bucket
        /\ Total(Plus(lock[k], Cut(rem[k], -l.d))) = Total(lock[k]) + (-l.d)
    BY <2>3, PlusAdds
  <2> QED  BY <2>1, <2>2, <2>3, <2>4, <1>0
<1>5. CASE Thaws(l)
  <2>1. /\ RemAfter(k, l) = Plus(rem[k], Cut(lock[k], -l.f))
        /\ LockAfter(k, l) = Minus(lock[k], Cut(lock[k], -l.f))
    BY <1>5, <1>0 DEF RemAfter, LockAfter, Issues, Spends, Freezes, Thaws, PaysOut
  <2>2. -l.f \in Nat /\ -l.f <= Total(lock[k]) /\ -l.f = l.d
    BY <1>5, <1>0 DEF Thaws, LotsCover
  <2>3. /\ Cut(lock[k], -l.f) \in Bucket
        /\ Total(Cut(lock[k], -l.f)) = -l.f
        /\ Minus(lock[k], Cut(lock[k], -l.f)) \in Bucket
        /\ Total(Minus(lock[k], Cut(lock[k], -l.f))) = Total(lock[k]) - (-l.f)
    BY <2>2, CutFits
  <2>4. /\ Plus(rem[k], Cut(lock[k], -l.f)) \in Bucket
        /\ Total(Plus(rem[k], Cut(lock[k], -l.f))) = Total(rem[k]) + (-l.f)
    BY <2>3, PlusAdds
  <2> QED  BY <2>1, <2>2, <2>3, <2>4, <1>0
<1>6. CASE PaysOut(l)
  <2>1. /\ RemAfter(k, l) = rem[k]
        /\ LockAfter(k, l) = Minus(lock[k], Cut(lock[k], -l.f))
    BY <1>6, <1>0 DEF RemAfter, LockAfter, Issues, Spends, Freezes, Thaws, PaysOut
  <2>2. -l.f \in Nat /\ -l.f <= Total(lock[k]) /\ l.d = 0
    BY <1>6, <1>0 DEF PaysOut, LotsCover
  <2>3. /\ Minus(lock[k], Cut(lock[k], -l.f)) \in Bucket
        /\ Total(Minus(lock[k], Cut(lock[k], -l.f))) = Total(lock[k]) - (-l.f)
    BY <2>2, CutFits
  <2> QED  BY <2>1, <2>2, <2>3, <1>0
<1> QED  BY <1>1, <1>2, <1>3, <1>4, <1>5, <1>6 DEF Supported

-----------------------------------------------------------------------------
(* One transaction. *)

\* Applying any legs that pass applyLeg's checks preserves the invariant.
LEMMA ApplyKeeps ==
  ASSUME TypeOK, BalanceIsLots, NEW L \in [Rows -> Leg], CanApply(L), Apply(L)
  PROVE  /\ avail' \in [Rows -> Int] /\ froz' \in [Rows -> Int]
         /\ rem' \in [Rows -> Bucket] /\ lock' \in [Rows -> Bucket]
         /\ NoOverdraft' /\ BalanceIsLots'
<1>1. ASSUME NEW k \in Rows
      PROVE  /\ avail[k] \in Int /\ froz[k] \in Int
             /\ rem[k] \in Bucket /\ lock[k] \in Bucket
             /\ avail[k] = Total(rem[k]) /\ froz[k] = Total(lock[k])
             /\ L[k] \in Leg /\ L[k].d \in Int /\ L[k].f \in Int
             /\ Affordable(k, L[k]) /\ Supported(L[k]) /\ LotsCover(k, L[k])
  BY DEF TypeOK, BalanceIsLots, CanApply, Leg
<1>2. ASSUME NEW k \in Rows
      PROVE  /\ RemAfter(k, L[k]) \in Bucket /\ LockAfter(k, L[k]) \in Bucket
             /\ Total(RemAfter(k, L[k])) = avail[k] + L[k].d
             /\ Total(LockAfter(k, L[k])) = froz[k] + L[k].f
  BY <1>1, LegMovesLots
<1>3. ASSUME NEW k \in Rows
      PROVE  /\ avail'[k] = avail[k] + L[k].d /\ froz'[k] = froz[k] + L[k].f
             /\ rem'[k] = RemAfter(k, L[k]) /\ lock'[k] = LockAfter(k, L[k])
  BY DEF Apply
<1>4. /\ avail' \in [Rows -> Int] /\ froz' \in [Rows -> Int]
      /\ rem' \in [Rows -> Bucket] /\ lock' \in [Rows -> Bucket]
  BY <1>1, <1>2 DEF Apply
<1>5. NoOverdraft'
  BY <1>1, <1>2, <1>3 DEF NoOverdraft, Affordable
<1>6. BalanceIsLots'
  BY <1>2, <1>3 DEF BalanceIsLots
<1> QED  BY <1>4, <1>5, <1>6

-----------------------------------------------------------------------------
(* The invariant. *)

\* An empty ledger.
LEMMA InitHolds == Init => IInv
<1> SUFFICES ASSUME Init PROVE IInv
  OBVIOUS
<1>1. Zero \in Bucket /\ Total(Zero) = 0
  BY DEF Zero, Bucket, Total
<1>2. TypeOK
  BY <1>1 DEF Init, TypeOK, LastDay
<1>3. NoOverdraft
  BY <1>1 DEF Init, NoOverdraft
<1>4. BalanceIsLots
  BY <1>1 DEF Init, BalanceIsLots
<1>5. CheckedArePosted
  BY DEF Init, CheckedArePosted
<1> QED  BY <1>2, <1>3, <1>4, <1>5 DEF IInv

\* Every step keeps the invariant.
LEMMA NextKeeps == IInv /\ [Next]_vars => IInv'
<1> SUFFICES ASSUME IInv, [Next]_vars PROVE IInv'
  OBVIOUS
<1>0. TypeOK /\ NoOverdraft /\ BalanceIsLots /\ CheckedArePosted
  BY DEF IInv
<1>1. ASSUME NEW b \in BizKeys, NEW v \in Vouchers, Post(b, v)
      PROVE  IInv'
  <2>1. v.legs \in [Rows -> Leg]
    BY VouchersAssumption DEF Voucher
  <2>2. CanApply(v.legs) /\ Apply(v.legs)
    BY <1>1 DEF Post
  <2>3. /\ txn' \in [BizKeys -> Vouchers \cup {NoTxn}]
        /\ UNCHANGED <<checked, reversed, banned, day>>
    BY <1>1, <1>0 DEF Post, TypeOK
  <2>4. CheckedArePosted'
    BY <1>1, <1>0, NoTxnAssumption DEF Post, CheckedArePosted, TypeOK
  <2>5. TypeOK' /\ NoOverdraft' /\ BalanceIsLots'
    BY <1>0, <2>1, <2>2, <2>3, ApplyKeeps DEF TypeOK
  <2> QED  BY <2>4, <2>5 DEF IInv
<1>2. ASSUME NEW b \in BizKeys, NEW r \in RevKeys, CheckReversal(b, r)
      PROVE  IInv'
  BY <1>2, <1>0 DEF CheckReversal, IInv, TypeOK, NoOverdraft, BalanceIsLots, CheckedArePosted
<1>3. ASSUME NEW b \in BizKeys, NEW r \in RevKeys, PostReversal(b, r)
      PROVE  IInv'
  <2>1. txn[b].legs \in [Rows -> Leg]
    BY <1>3, <1>0, VouchersAssumption DEF PostReversal, CheckedArePosted, TypeOK, Voucher
  <2>2. Opposite(txn[b].legs) \in [Rows -> Leg]
    BY <2>1 DEF Opposite, Leg
  <2>3. CanApply(Opposite(txn[b].legs)) /\ Apply(Opposite(txn[b].legs))
    BY <1>3 DEF PostReversal
  <2>4. /\ reversed' \subseteq BizKeys \X RevKeys
        /\ checked' \subseteq BizKeys \X RevKeys
        /\ UNCHANGED <<txn, banned, day>>
    BY <1>3, <1>0 DEF PostReversal, TypeOK
  <2>5. CheckedArePosted'
    BY <1>3, <1>0 DEF PostReversal, CheckedArePosted
  <2>6. TypeOK' /\ NoOverdraft' /\ BalanceIsLots'
    BY <1>0, <2>2, <2>3, <2>4, ApplyKeeps DEF TypeOK
  <2> QED  BY <2>5, <2>6 DEF IInv
<1>4. ASSUME NEW b \in BizKeys, NEW r \in RevKeys, AbandonReversal(b, r)
      PROVE  IInv'
  BY <1>4, <1>0 DEF AbandonReversal, IInv, TypeOK, NoOverdraft, BalanceIsLots, CheckedArePosted
<1>5. ASSUME NEW u \in Users, SetBan(u)
      PROVE  IInv'
  BY <1>5, <1>0 DEF SetBan, IInv, TypeOK, NoOverdraft, BalanceIsLots, CheckedArePosted
<1>6. ASSUME Tick
      PROVE  IInv'
  BY <1>6, <1>0 DEF Tick, IInv, TypeOK, NoOverdraft, BalanceIsLots, CheckedArePosted, LastDay
<1>7. CASE UNCHANGED vars
  BY <1>7, <1>0 DEF vars, IInv, TypeOK, NoOverdraft, BalanceIsLots, CheckedArePosted
<1> QED
  BY <1>1, <1>2, <1>3, <1>4, <1>5, <1>6, <1>7 DEF Next

\* So it always holds.
LEMMA Invariance == Spec => []IInv
  BY InitHolds, NextKeeps, PTL DEF Spec

-----------------------------------------------------------------------------
(* Theorems. *)

\* Every variable keeps its type, whatever vouchers are submitted.
THEOREM TypeCorrect == Spec => []TypeOK
<1>1. IInv => TypeOK
  BY DEF IInv
<1> QED  BY <1>1, Invariance, PTL

\* Invariant 9 of reconcile.service.ts: the balance rows are the sums of the
\* lots they are cut into, in both columns, after every voucher and reversal.
THEOREM BalancesAgreeWithLots == Spec => []BalanceIsLots
<1>1. IInv => BalanceIsLots
  BY DEF IInv
<1> QED  BY <1>1, Invariance, PTL

\* The CHECK constraints on balances and lots never reject a voucher that
\* applyLeg let through: nothing goes below zero.
THEOREM NothingBelowZero == Spec => []NoOverdraft
<1>1. IInv => NoOverdraft
  BY DEF IInv
<1> QED  BY <1>1, Invariance, PTL

\* takeFromLots never gives up: a voucher whose balance update succeeded always
\* finds lots enough, so the 409 of its last line is unreachable.
THEOREM NoApportionmentFailure == Spec => []ApportionmentNeverFails
<1>1. IInv => ApportionmentNeverFails
  <2> SUFFICES ASSUME IInv, NEW v \in Vouchers, NEW k \in Rows, Affordable(k, v.legs[k])
               PROVE  LotsCover(k, v.legs[k])
    BY DEF ApportionmentNeverFails
  <2>1. v.legs[k] \in Leg
    BY VouchersAssumption DEF Voucher
  <2>2. avail[k] \in Int /\ froz[k] \in Int /\ BalanceIsLots
    BY DEF IInv, TypeOK
  <2> QED  BY <2>1, <2>2, CoverFollows
<1> QED  BY <1>1, Invariance, PTL

(* The lots carry the balances, whatever vouchers and reversals are posted *)
(* (ledger.service.ts:567-754).                                            *)
THEOREM LotsAndBalances == Spec => []LotsCarryBalances
<1>1. BalanceIsLots /\ NoOverdraft /\ ApportionmentNeverFails => LotsCarryBalances
  BY DEF LotsCarryBalances
<1>2. QED
  BY <1>1, BalancesAgreeWithLots, NothingBelowZero, NoApportionmentFailure, PTL

-----------------------------------------------------------------------------
(* What is on file. *)

RevOf(b) == {r \in RevKeys : <<b, r>> \in reversed}

\* Finitely many vouchers and reversals are on file, every reversal is of a
\* voucher that is, and every voucher on file passed assertBalanced.
FileHolds ==
  /\ IsFiniteSet(Posted) /\ \A b \in BizKeys : IsFiniteSet(RevOf(b))
  /\ \A b \in BizKeys : RevOf(b) # {} => b \in Posted
  /\ \A b \in Posted : Balanced(txn[b])

HistoryInv == IInv /\ FileHolds /\ HistoryAddsUp

\* The legs of a voucher are integers on every row.
LEMMA LegsAreInts ==
  ASSUME NEW v \in Vouchers
  PROVE  v.legs \in [Rows -> Leg] /\ \A k \in Rows : v.legs[k].d \in Int /\ v.legs[k].f \in Int
<1>1. v \in Voucher
  BY VouchersAssumption
<1> QED  BY <1>1 DEF Voucher, Leg

\* Players and system accounts are finitely many.
LEMMA AccountsAreFinite == IsFiniteSet(Accounts)
BY RolesAssumption, FS_Union DEF Accounts

\* A voucher on file counts once, less its reversals.
LEMMA WeightIs ==
  ASSUME FileHolds, NEW b \in BizKeys
  PROVE  Weight(b) \in Int /\ Weight(b) = IF b \in Posted THEN 1 - Cardinality(RevOf(b)) ELSE 0
<1>1. Cardinality(RevOf(b)) \in Nat
  BY FS_CardinalityType DEF FileHolds
<1> QED  BY <1>1 DEF Weight, Posted, RevOf

\* What one voucher brings to an asset, over all accounts.
LEMMA NetIs ==
  ASSUME NEW v \in Vouchers, NEW s \in Assets
  PROVE  /\ NetOf(v, s) \in Int
         /\ NetOf(v, s) = Sum([a \in Accounts |-> v.legs[<<a, s>>].d + v.legs[<<a, s>>].f], Accounts)
         /\ Balanced(v) /\ v.kind \notin {"issue", "burn"} => NetOf(v, s) = 0
<1> DEFINE f == [a \in Accounts |-> v.legs[<<a, s>>].d + v.legs[<<a, s>>].f]
<1>1. \A a \in Accounts : <<a, s>> \in Rows
  BY DEF Rows
<1>2. \A a \in Accounts : f[a] \in Int
  BY <1>1, LegsAreInts
<1>3. NetOf(v, s) = Sum(f, Accounts)
  BY SumOfFunction DEF NetOf
<1>4. Sum(f, Accounts) \in Int
  <2> HIDE DEF f
  <2> QED  BY <1>2, AccountsAreFinite, SumInt
<1>5. ASSUME Balanced(v), v.kind = "freeze" PROVE NetOf(v, s) = 0
  <2>1. \A a \in Accounts : f[a] = 0
    BY <1>1, <1>5 DEF Balanced
  <2> HIDE DEF f
  <2> QED  BY <1>3, <2>1, AccountsAreFinite, SumZero
<1>6. v.kind \in Kinds
  BY VouchersAssumption DEF Voucher
<1> QED  BY <1>3, <1>4, <1>5, <1>6 DEF Balanced, Kinds

\* Applying legs moves what exists of an asset by their sum.
LEMMA SupplyMoves ==
  ASSUME TypeOK, NEW L \in [Rows -> Leg], Apply(L), NEW s \in Assets
  PROVE  /\ Supply(s) \in Int
         /\ Supply(s)' = Supply(s) + Sum([a \in Accounts |-> L[<<a, s>>].d + L[<<a, s>>].f], Accounts)
<1> DEFINE f == [a \in Accounts |-> avail[<<a, s>>] + froz[<<a, s>>]]
           g == [a \in Accounts |-> L[<<a, s>>].d + L[<<a, s>>].f]
           h == [a \in Accounts |-> avail'[<<a, s>>] + froz'[<<a, s>>]]
<1>1. ASSUME NEW a \in Accounts PROVE f[a] \in Int /\ g[a] \in Int /\ h[a] = f[a] + g[a]
  <2>1. <<a, s>> \in Rows
    BY DEF Rows
  <2>2. /\ avail[<<a, s>>] \in Int /\ froz[<<a, s>>] \in Int
        /\ L[<<a, s>>].d \in Int /\ L[<<a, s>>].f \in Int
    BY <2>1 DEF TypeOK, Leg
  <2>3. avail'[<<a, s>>] = avail[<<a, s>>] + L[<<a, s>>].d /\ froz'[<<a, s>>] = froz[<<a, s>>] + L[<<a, s>>].f
    BY <2>1 DEF Apply
  <2> QED  BY <2>2, <2>3
<1>2. Supply(s) = Sum(f, Accounts) /\ Supply(s)' = Sum(h, Accounts)
  <2>1. SumFunction(f) = Sum(f, Accounts) /\ SumFunction(h) = Sum(h, Accounts)
    BY SumOfFunction
  <2> QED  BY <2>1 DEF Supply
<1>3. Sum(h, Accounts) = Sum(f, Accounts) + Sum(g, Accounts) /\ Sum(f, Accounts) \in Int
  <2> HIDE DEF f, g, h
  <2> QED  BY <1>1, AccountsAreFinite, SumPlus, SumInt
<1> QED  BY <1>2, <1>3

-----------------------------------------------------------------------------
(* A voucher comes on file. *)

\* post() puts one more voucher on file, which counts once.
LEMMA PostFiles ==
  ASSUME HistoryInv, NEW b \in BizKeys, NEW v \in Vouchers, Post(b, v)
  PROVE  /\ b \notin Posted /\ Posted' = Posted \cup {b} /\ txn'[b] = v
         /\ \A c \in Posted : txn'[c] = txn[c]
         /\ FileHolds'
         /\ Weight(b)' = 1 /\ \A c \in Posted : Weight(c)' = Weight(c)
<1>1. TypeOK /\ FileHolds /\ txn[b] = NoTxn /\ Balanced(v) /\ txn' = [txn EXCEPT ![b] = v] /\ reversed' = reversed
  BY DEF HistoryInv, IInv, Post
<1>2. v # NoTxn /\ txn'[b] = v /\ \A c \in BizKeys : c # b => txn'[c] = txn[c]
  BY <1>1, NoTxnAssumption DEF TypeOK
<1>3. b \notin Posted /\ Posted' = Posted \cup {b} /\ \A c \in Posted : txn'[c] = txn[c]
  BY <1>1, <1>2 DEF Posted
<1>4. \A c \in BizKeys : RevOf(c)' = RevOf(c)
  BY <1>1 DEF RevOf
<1>5. FileHolds'
  <2>1. IsFiniteSet(Posted')
    BY <1>1, <1>3, FS_AddElement DEF FileHolds
  <2>2. \A c \in Posted' : Balanced(txn'[c])
    BY <1>1, <1>2, <1>3 DEF FileHolds
  <2> QED  BY <1>1, <1>3, <1>4, <2>1, <2>2 DEF FileHolds
<1>6. Weight(b)' = 1
  <2>1. RevOf(b) = {}
    BY <1>1, <1>3 DEF FileHolds
  <2>2. {r \in RevKeys : <<b, r>> \in reversed'} = {}
    BY <1>1, <2>1 DEF RevOf
  <2>3. Weight(b)' = 1 - Cardinality({})
    BY <1>2, <2>2 DEF Weight
  <2> QED  BY <2>3, FS_EmptySet
<1>7. \A c \in Posted : Weight(c)' = Weight(c)
  BY <1>1, <1>3 DEF Weight
<1> QED  BY <1>2, <1>3, <1>5, <1>6, <1>7

\* Its legs are what the sums gain.
LEMMA PostKeepsHistory ==
  ASSUME HistoryInv, NEW b \in BizKeys, NEW v \in Vouchers, Post(b, v)
  PROVE  FileHolds' /\ HistoryAddsUp'
<1>1. TypeOK /\ FileHolds /\ BalanceIsHistory /\ SupplyIsIssuedMinusBurned /\ Apply(v.legs) /\ Balanced(v)
  BY DEF HistoryInv, IInv, HistoryAddsUp, Post
<1>2. /\ b \notin Posted /\ Posted' = Posted \cup {b} /\ txn'[b] = v
      /\ \A c \in Posted : txn'[c] = txn[c] /\ Weight(c)' = Weight(c)
      /\ Weight(b)' = 1 /\ FileHolds'
  BY PostFiles
<1>3. IsFiniteSet(Posted) /\ \A c \in Posted : txn[c] \in Vouchers /\ Weight(c) \in Int
  BY <1>1, WeightIs DEF FileHolds, Posted, TypeOK
<1>4. ASSUME NEW k \in Rows
      PROVE  /\ avail'[k] = SumFunction([c \in Posted' |-> Weight(c)' * txn'[c].legs[k].d])
             /\ froz'[k] = SumFunction([c \in Posted' |-> Weight(c)' * txn'[c].legs[k].f])
  <2>1. v.legs[k].d \in Int /\ v.legs[k].f \in Int
        /\ avail'[k] = avail[k] + v.legs[k].d /\ froz'[k] = froz[k] + v.legs[k].f
    BY <1>1, LegsAreInts DEF Apply
  <2>2. \A c \in Posted : txn[c].legs[k].d \in Int /\ txn[c].legs[k].f \in Int
    BY <1>3, LegsAreInts
  <2> DEFINE d  == [c \in Posted |-> Weight(c) * txn[c].legs[k].d]
             f  == [c \in Posted |-> Weight(c) * txn[c].legs[k].f]
             d1 == [c \in Posted \cup {b} |-> Weight(c)' * txn'[c].legs[k].d]
             f1 == [c \in Posted \cup {b} |-> Weight(c)' * txn'[c].legs[k].f]
  <2>3. /\ \A c \in Posted : d[c] \in Int /\ f[c] \in Int /\ d1[c] = d[c] /\ f1[c] = f[c]
        /\ d1[b] = v.legs[k].d /\ f1[b] = v.legs[k].f
        /\ DOMAIN d = Posted /\ DOMAIN f = Posted /\ DOMAIN d1 = Posted \cup {b} /\ DOMAIN f1 = Posted \cup {b}
    BY <1>2, <1>3, <2>1, <2>2
  <2>4. SumFunction(d1) = SumFunction(d) + v.legs[k].d /\ SumFunction(f1) = SumFunction(f) + v.legs[k].f
    <3>1. IsFiniteSet(Posted) /\ b \notin Posted
      BY <1>2, <1>3
    <3>2. /\ DOMAIN d = Posted /\ DOMAIN d1 = Posted \cup {b} /\ d1[b] \in Int
          /\ \A c \in Posted : d[c] \in Int /\ d1[c] = d[c]
      BY <2>1, <2>3
    <3>3. /\ DOMAIN f = Posted /\ DOMAIN f1 = Posted \cup {b} /\ f1[b] \in Int
          /\ \A c \in Posted : f[c] \in Int /\ f1[c] = f[c]
      BY <2>1, <2>3
    <3> HIDE DEF d, f, d1, f1
    <3>4. SumFunction(d1) = SumFunction(d) + d1[b]
      BY <3>1, <3>2, OneMore, Z3
    <3>5. SumFunction(f1) = SumFunction(f) + f1[b]
      BY <3>1, <3>3, OneMore, Z3
    <3> QED  BY <2>3, <3>4, <3>5
  <2>5. avail[k] = SumFunction(d) /\ froz[k] = SumFunction(f)
    BY <1>1 DEF BalanceIsHistory
  <2> QED  BY <1>2, <2>1, <2>4, <2>5
<1>5. ASSUME NEW s \in Assets
      PROVE  Supply(s)' = SumFunction([c \in Minting' |-> Weight(c)' * NetOf(txn'[c], s)])
  <2>1. NetOf(v, s) \in Int /\ Supply(s)' = Supply(s) + NetOf(v, s) /\ Supply(s) \in Int
    BY <1>1, LegsAreInts, NetIs, SupplyMoves
  <2>2. \A c \in Minting : c \in Posted /\ NetOf(txn[c], s) \in Int
    BY <1>3, NetIs DEF Minting
  <2>3. IsFiniteSet(Minting)
    BY <1>3, FS_Subset DEF Minting
  <2> DEFINE f == [c \in Minting |-> Weight(c) * NetOf(txn[c], s)]
  <2>4. Supply(s) = SumFunction(f)
    BY <1>1 DEF SupplyIsIssuedMinusBurned
  <2>5. CASE v.kind \in {"issue", "burn"}
    <3> DEFINE g == [c \in Minting \cup {b} |-> Weight(c)' * NetOf(txn'[c], s)]
    <3>1. Minting' = Minting \cup {b} /\ b \notin Minting
      BY <1>2, <2>5 DEF Minting
    <3>2. /\ \A c \in Minting : f[c] \in Int /\ g[c] = f[c]
          /\ g[b] = NetOf(v, s) /\ DOMAIN f = Minting /\ DOMAIN g = Minting \cup {b}
      BY <1>2, <1>3, <2>1, <2>2
    <3>3. SumFunction(g) = SumFunction(f) + NetOf(v, s)
      <4>1. g[b] \in Int
        BY <2>1, <3>2
      <4> HIDE DEF f, g
      <4>2. SumFunction(g) = SumFunction(f) + g[b]
        BY <2>3, <3>1, <3>2, <4>1, OneMore
      <4> QED  BY <3>2, <4>2
    <3> QED  BY <2>1, <2>4, <3>1, <3>3
  <2>6. CASE v.kind \notin {"issue", "burn"}
    <3>1. Minting' = Minting
      BY <1>2, <2>6 DEF Minting
    <3>2. NetOf(v, s) = 0
      BY <1>1, <2>6, NetIs
    <3>3. [c \in Minting |-> Weight(c)' * NetOf(txn'[c], s)] = f
      BY <1>2, <2>2
    <3> QED  BY <2>1, <2>4, <3>1, <3>2, <3>3
  <2> QED  BY <2>5, <2>6
<1> QED  BY <1>2, <1>4, <1>5 DEF HistoryAddsUp, BalanceIsHistory, SupplyIsIssuedMinusBurned

-----------------------------------------------------------------------------
(* A reversal comes on file. *)

\* A reversal takes one off the weight of its voucher.
LEMMA ReversalFiles ==
  ASSUME HistoryInv, NEW b \in BizKeys, NEW r \in RevKeys, PostReversal(b, r)
  PROVE  /\ b \in Posted /\ Posted' = Posted /\ txn' = txn
         /\ FileHolds'
         /\ Weight(b)' = Weight(b) - 1 /\ \A c \in Posted : c # b => Weight(c)' = Weight(c)
<1>1. TypeOK /\ FileHolds /\ txn' = txn /\ b \in Posted /\ <<b, r>> \notin reversed
      /\ reversed' = reversed \cup {<<b, r>>}
  BY DEF HistoryInv, IInv, CheckedArePosted, PostReversal, Posted
<1>2. Posted' = Posted
  BY <1>1 DEF Posted
<1>3. RevOf(b)' = RevOf(b) \cup {r} /\ r \notin RevOf(b)
  BY <1>1 DEF RevOf
<1>4. \A c \in BizKeys : c # b => RevOf(c)' = RevOf(c)
  BY <1>1 DEF RevOf
<1>5. IsFiniteSet(RevOf(b)) /\ b \in BizKeys
  BY <1>1 DEF FileHolds
<1>6. IsFiniteSet(RevOf(b) \cup {r}) /\ Cardinality(RevOf(b) \cup {r}) = Cardinality(RevOf(b)) + 1
  BY <1>3, <1>5, FS_AddElement
<1>7. FileHolds'
  BY <1>1, <1>2, <1>3, <1>4, <1>6 DEF FileHolds
<1>8. \A c \in BizKeys : c # b => Weight(c)' = Weight(c)
  BY <1>1, <1>4 DEF Weight, RevOf
<1>9. Weight(b)' = Weight(b) - 1
  <2>1. Weight(b) = 1 - Cardinality(RevOf(b)) /\ Weight(b)' = 1 - Cardinality(RevOf(b)')
    BY <1>1 DEF Weight, RevOf, Posted
  <2>2. Cardinality(RevOf(b)) \in Nat
    BY <1>5, FS_CardinalityType
  <2> QED  BY <1>3, <1>6, <2>1, <2>2
<1> QED  BY <1>1, <1>2, <1>7, <1>8, <1>9 DEF Posted

\* The opposite legs are what the sums lose.
LEMMA ReversalKeepsHistory ==
  ASSUME HistoryInv, NEW b \in BizKeys, NEW r \in RevKeys, PostReversal(b, r)
  PROVE  FileHolds' /\ HistoryAddsUp'
<1> DEFINE v == txn[b]
           L == Opposite(v.legs)
<1>1. TypeOK /\ FileHolds /\ BalanceIsHistory /\ SupplyIsIssuedMinusBurned /\ Apply(L)
  BY DEF HistoryInv, IInv, HistoryAddsUp, PostReversal
<1>2. /\ b \in Posted /\ Posted' = Posted /\ txn' = txn
      /\ \A c \in Posted : c # b => Weight(c)' = Weight(c)
      /\ Weight(b)' = Weight(b) - 1 /\ FileHolds'
  BY ReversalFiles
<1>3. IsFiniteSet(Posted) /\ \A c \in Posted : txn[c] \in Vouchers /\ Weight(c) \in Int
  BY <1>1, WeightIs DEF FileHolds, Posted, TypeOK
<1>4. \A c \in Posted : Weight(c)' \in Int
  BY <1>2, <1>3
<1>5. v \in Vouchers /\ Balanced(v) /\ Weight(b) \in Int
  BY <1>1, <1>2, <1>3 DEF FileHolds
<1>6. ASSUME NEW w \in Int, NEW x \in Int PROVE (w - 1) * x = w * x - x
  OBVIOUS
<1>7. ASSUME NEW k \in Rows
      PROVE  /\ avail'[k] = SumFunction([c \in Posted' |-> Weight(c)' * txn'[c].legs[k].d])
             /\ froz'[k] = SumFunction([c \in Posted' |-> Weight(c)' * txn'[c].legs[k].f])
  <2>1. v.legs[k].d \in Int /\ v.legs[k].f \in Int
    BY <1>5, LegsAreInts
  <2>2. avail'[k] = avail[k] + -v.legs[k].d /\ froz'[k] = froz[k] + -v.legs[k].f
    BY <1>1 DEF Apply, Opposite
  <2>3. \A c \in Posted : txn[c].legs[k].d \in Int /\ txn[c].legs[k].f \in Int
    BY <1>3, LegsAreInts
  <2> DEFINE d  == [c \in Posted |-> Weight(c) * txn[c].legs[k].d]
             f  == [c \in Posted |-> Weight(c) * txn[c].legs[k].f]
             d1 == [c \in Posted |-> Weight(c)' * txn[c].legs[k].d]
             f1 == [c \in Posted |-> Weight(c)' * txn[c].legs[k].f]
  <2>4. SumFunction(d1) = SumFunction(d) - v.legs[k].d /\ SumFunction(d) \in Int
    <3>1. DOMAIN d = Posted /\ DOMAIN d1 = Posted
          /\ (\A c \in Posted : d[c] \in Int /\ d1[c] \in Int) /\ \A c \in Posted \ {b} : d1[c] = d[c]
      BY <1>2, <1>3, <1>4, <2>3
    <3>2. d1[b] = (Weight(b) - 1) * v.legs[k].d /\ d[b] = Weight(b) * v.legs[k].d
      BY <1>2
    <3>3. d1[b] = d[b] - v.legs[k].d
      <4>1. (Weight(b) - 1) * v.legs[k].d = Weight(b) * v.legs[k].d - v.legs[k].d
        BY <1>5, <1>6, <2>1
      <4> HIDE DEF d, d1
      <4> QED  BY <3>2, <4>1
    <3> HIDE DEF d, d1, v
    <3>4. SumFunction(d1) = SumFunction(d) + (d1[b] - d[b]) /\ SumFunction(d) \in Int
      BY <1>2, <1>3, <3>1, OneChanged, SMTT(30)
    <3>5. d[b] \in Int
      BY <1>2, <3>1
    <3> QED  BY <2>1, <3>3, <3>4, <3>5
  <2>5. SumFunction(f1) = SumFunction(f) - v.legs[k].f /\ SumFunction(f) \in Int
    <3>1. DOMAIN f = Posted /\ DOMAIN f1 = Posted
          /\ (\A c \in Posted : f[c] \in Int /\ f1[c] \in Int) /\ \A c \in Posted \ {b} : f1[c] = f[c]
      BY <1>2, <1>3, <1>4, <2>3
    <3>2. f1[b] = (Weight(b) - 1) * v.legs[k].f /\ f[b] = Weight(b) * v.legs[k].f
      BY <1>2
    <3>3. f1[b] = f[b] - v.legs[k].f
      <4>1. (Weight(b) - 1) * v.legs[k].f = Weight(b) * v.legs[k].f - v.legs[k].f
        BY <1>5, <1>6, <2>1
      <4> HIDE DEF f, f1
      <4> QED  BY <3>2, <4>1
    <3> HIDE DEF f, f1, v
    <3>4. SumFunction(f1) = SumFunction(f) + (f1[b] - f[b]) /\ SumFunction(f) \in Int
      BY <1>2, <1>3, <3>1, OneChanged, SMTT(30)
    <3>5. f[b] \in Int
      BY <1>2, <3>1
    <3> QED  BY <2>1, <3>3, <3>4, <3>5
  <2>6. avail[k] = SumFunction(d) /\ froz[k] = SumFunction(f)
    BY <1>1 DEF BalanceIsHistory
  <2> HIDE DEF v
  <2>7. avail'[k] = SumFunction(d1) /\ froz'[k] = SumFunction(f1)
    BY <2>1, <2>2, <2>4, <2>5, <2>6
  <2> QED  BY <1>2, <2>7
<1>8. ASSUME NEW s \in Assets
      PROVE  Supply(s)' = SumFunction([c \in Minting' |-> Weight(c)' * NetOf(txn'[c], s)])
  <2>1. NetOf(v, s) \in Int
    BY <1>5, NetIs
  <2>2. Supply(s)' = Supply(s) + -NetOf(v, s) /\ Supply(s) \in Int
    <3> DEFINE p == [a \in Accounts |-> v.legs[<<a, s>>].d + v.legs[<<a, s>>].f]
               q == [a \in Accounts |-> L[<<a, s>>].d + L[<<a, s>>].f]
    <3>1. L \in [Rows -> Leg]
      BY <1>5, LegsAreInts DEF Opposite, Leg
    <3>2. \A a \in Accounts : p[a] \in Int /\ q[a] = -p[a]
      <4> SUFFICES ASSUME NEW a \in Accounts PROVE p[a] \in Int /\ q[a] = -p[a]
        OBVIOUS
      <4>1. <<a, s>> \in Rows
        BY DEF Rows
      <4>2. L[<<a, s>>] = [d |-> -v.legs[<<a, s>>].d, f |-> -v.legs[<<a, s>>].f]
        BY <4>1 DEF Opposite
      <4>3. v.legs[<<a, s>>].d \in Int /\ v.legs[<<a, s>>].f \in Int
        BY <1>5, <4>1, LegsAreInts
      <4> QED  BY <4>2, <4>3
    <3>3. Sum(q, Accounts) = -Sum(p, Accounts)
      <4> HIDE DEF p, q
      <4> QED  BY <3>2, AccountsAreFinite, SumOpposite
    <3>4. NetOf(v, s) = Sum(p, Accounts)
      BY <1>5, NetIs
    <3>5. Supply(s)' = Supply(s) + Sum(q, Accounts) /\ Supply(s) \in Int
      <4> HIDE DEF L
      <4> QED  BY <1>1, <3>1, SupplyMoves
    <3> QED  BY <3>3, <3>4, <3>5
  <2>3. \A c \in Minting : c \in Posted /\ NetOf(txn[c], s) \in Int
    BY <1>3, NetIs DEF Minting
  <2>4. IsFiniteSet(Minting) /\ Minting' = Minting
    BY <1>2, <1>3, FS_Subset DEF Minting
  <2> DEFINE f == [c \in Minting |-> Weight(c) * NetOf(txn[c], s)]
             g == [c \in Minting |-> Weight(c)' * NetOf(txn[c], s)]
  <2>5. Supply(s) = SumFunction(f)
    BY <1>1 DEF SupplyIsIssuedMinusBurned
  <2>6. CASE v.kind \in {"issue", "burn"}
    <3>1. b \in Minting
      BY <1>2, <2>6 DEF Minting
    <3>2. DOMAIN f = Minting /\ DOMAIN g = Minting
          /\ (\A c \in Minting : f[c] \in Int /\ g[c] \in Int) /\ \A c \in Minting \ {b} : g[c] = f[c]
      BY <1>2, <1>3, <1>4, <2>3
    <3>3. g[b] = (Weight(b) - 1) * NetOf(v, s) /\ f[b] = Weight(b) * NetOf(v, s)
      BY <1>2, <3>1
    <3>4. g[b] = f[b] - NetOf(v, s)
      <4>1. (Weight(b) - 1) * NetOf(v, s) = Weight(b) * NetOf(v, s) - NetOf(v, s)
        BY <1>5, <1>6, <2>1
      <4> HIDE DEF f, g
      <4> QED  BY <3>3, <4>1
    <3> HIDE DEF f, g, v
    <3>5. SumFunction(g) = SumFunction(f) + (g[b] - f[b]) /\ SumFunction(f) \in Int
      BY <2>4, <3>1, <3>2, OneChanged, SMTT(30)
    <3>6. f[b] \in Int
      BY <3>1, <3>2
    <3>7. Supply(s)' = SumFunction(g)
      BY <2>1, <2>2, <2>5, <3>4, <3>5, <3>6
    <3> QED  BY <1>2, <2>4, <3>7 DEF g
  <2>7. CASE v.kind \notin {"issue", "burn"}
    <3>1. b \notin Minting
      BY <2>7 DEF Minting
    <3>2. NetOf(v, s) = 0
      BY <1>5, <2>7, NetIs
    <3>3. g = f
      BY <1>2, <2>3, <3>1
    <3>4. Supply(s)' = SumFunction(g)
      BY <2>2, <2>5, <3>2, <3>3
    <3> QED  BY <1>2, <2>4, <3>4
  <2> QED  BY <2>6, <2>7
<1> QED  BY <1>2, <1>7, <1>8 DEF HistoryAddsUp, BalanceIsHistory, SupplyIsIssuedMinusBurned

-----------------------------------------------------------------------------
(* The history. *)

\* With no voucher on file every sum is empty.
LEMMA HistoryStarts == Init => HistoryInv
<1> SUFFICES ASSUME Init PROVE HistoryInv
  OBVIOUS
<1>1. Posted = {} /\ Minting = {} /\ \A b \in BizKeys : RevOf(b) = {}
  BY DEF Init, Posted, Minting, RevOf
<1>2. FileHolds
  BY <1>1, FS_EmptySet DEF FileHolds
<1>3. ASSUME NEW f, DOMAIN f = {} PROVE SumFunction(f) = 0
  <2>1. SumFunction(f) = Sum(f, {})
    BY <1>3, SumOfFunction
  <2> QED  BY <2>1, SumEmpty
<1>4. BalanceIsHistory
  <2> SUFFICES ASSUME NEW k \in Rows
               PROVE  /\ avail[k] = SumFunction([b \in Posted |-> Weight(b) * txn[b].legs[k].d])
                      /\ froz[k] = SumFunction([b \in Posted |-> Weight(b) * txn[b].legs[k].f])
    BY DEF BalanceIsHistory
  <2>1. DOMAIN [b \in Posted |-> Weight(b) * txn[b].legs[k].d] = {}
        /\ DOMAIN [b \in Posted |-> Weight(b) * txn[b].legs[k].f] = {}
    BY <1>1
  <2> QED  BY <1>3, <2>1 DEF Init
<1>5. SupplyIsIssuedMinusBurned
  <2> SUFFICES ASSUME NEW s \in Assets
               PROVE  Supply(s) = SumFunction([b \in Minting |-> Weight(b) * NetOf(txn[b], s)])
    BY DEF SupplyIsIssuedMinusBurned
  <2>1. SumFunction([b \in Minting |-> Weight(b) * NetOf(txn[b], s)]) = 0
    BY <1>1, <1>3
  <2> DEFINE f == [a \in Accounts |-> avail[<<a, s>>] + froz[<<a, s>>]]
  <2>2. \A a \in Accounts : f[a] = 0
    BY DEF Init, Rows
  <2>3. Supply(s) = Sum(f, Accounts)
    BY SumOfFunction DEF Supply
  <2>4. Sum(f, Accounts) = 0
    <3> HIDE DEF f
    <3> QED  BY <2>2, AccountsAreFinite, SumZero
  <2> QED  BY <2>1, <2>3, <2>4
<1> QED  BY <1>2, <1>4, <1>5, InitHolds DEF HistoryInv, HistoryAddsUp

\* Only vouchers and reversals write history.
LEMMA HistoryGoesOn == HistoryInv /\ [Next]_vars => HistoryInv'
<1> SUFFICES ASSUME HistoryInv, [Next]_vars PROVE HistoryInv'
  OBVIOUS
<1>1. IInv'
  BY NextKeeps DEF HistoryInv
<1>2. ASSUME UNCHANGED <<avail, froz, txn, reversed>> PROVE FileHolds' /\ HistoryAddsUp'
  <2>1. Posted' = Posted /\ Minting' = Minting /\ \A b \in BizKeys : RevOf(b)' = RevOf(b)
    BY <1>2 DEF Posted, Minting, RevOf
  <2>2. FileHolds'
    BY <1>2, <2>1 DEF HistoryInv, FileHolds
  <2>3. \A b \in BizKeys : Weight(b)' = Weight(b)
    BY <1>2 DEF Weight
  <2>4. Posted \subseteq BizKeys /\ Minting \subseteq BizKeys
    BY DEF Posted, Minting
  <2>5. BalanceIsHistory'
    <3> SUFFICES ASSUME NEW k \in Rows
                 PROVE  /\ avail'[k] = SumFunction([b \in Posted' |-> Weight(b)' * txn'[b].legs[k].d])
                        /\ froz'[k] = SumFunction([b \in Posted' |-> Weight(b)' * txn'[b].legs[k].f])
      BY DEF BalanceIsHistory
    <3>1. /\ [b \in Posted' |-> Weight(b)' * txn'[b].legs[k].d] = [b \in Posted |-> Weight(b) * txn[b].legs[k].d]
          /\ [b \in Posted' |-> Weight(b)' * txn'[b].legs[k].f] = [b \in Posted |-> Weight(b) * txn[b].legs[k].f]
      BY <1>2, <2>1, <2>3, <2>4
    <3> QED  BY <1>2, <3>1 DEF HistoryInv, HistoryAddsUp, BalanceIsHistory
  <2>6. SupplyIsIssuedMinusBurned'
    <3> SUFFICES ASSUME NEW s \in Assets
                 PROVE  Supply(s)' = SumFunction([b \in Minting' |-> Weight(b)' * NetOf(txn'[b], s)])
      BY DEF SupplyIsIssuedMinusBurned
    <3>1. [b \in Minting' |-> Weight(b)' * NetOf(txn'[b], s)] = [b \in Minting |-> Weight(b) * NetOf(txn[b], s)]
      BY <1>2, <2>1, <2>3, <2>4
    <3>2. Supply(s)' = Supply(s)
      BY <1>2 DEF Supply
    <3> QED  BY <3>1, <3>2 DEF HistoryInv, HistoryAddsUp, SupplyIsIssuedMinusBurned
  <2> QED  BY <2>2, <2>5, <2>6 DEF HistoryAddsUp
<1>3. ASSUME NEW b \in BizKeys, NEW v \in Vouchers, Post(b, v) PROVE FileHolds' /\ HistoryAddsUp'
  BY <1>3, PostKeepsHistory
<1>4. ASSUME NEW b \in BizKeys, NEW r \in RevKeys, PostReversal(b, r) PROVE FileHolds' /\ HistoryAddsUp'
  BY <1>4, ReversalKeepsHistory
<1>5. ASSUME NEW b \in BizKeys, NEW r \in RevKeys, CheckReversal(b, r) \/ AbandonReversal(b, r)
      PROVE  UNCHANGED <<avail, froz, txn, reversed>>
  BY <1>5 DEF CheckReversal, AbandonReversal
<1>6. ASSUME NEW u \in Users, SetBan(u) PROVE UNCHANGED <<avail, froz, txn, reversed>>
  BY <1>6 DEF SetBan
<1>7. CASE Tick \/ UNCHANGED vars
  BY <1>2, <1>1, <1>7 DEF Tick, vars, HistoryInv
<1> QED  BY <1>1, <1>2, <1>3, <1>4, <1>5, <1>6, <1>7 DEF Next, HistoryInv

\* Reconcile invariants 1, 2 and 3: every balance is the sum of its entries, and
\* what exists of an asset is what was issued less what was burned, whatever is
\* posted and reversed, in whatever order (reconcile.service.ts:120-167).
THEOREM BooksAddUp == Spec => []HistoryAddsUp
<1>1. Spec => []HistoryInv
  BY HistoryStarts, HistoryGoesOn, PTL DEF Spec
<1>2. HistoryInv => HistoryAddsUp
  BY DEF HistoryInv
<1> QED  BY <1>1, <1>2, PTL

-----------------------------------------------------------------------------
(* First to expire, first to go. *)

\* c gave up units, and none while something that expires earlier stayed.
InOrder(c, c1) ==
  /\ c1.never < c.never => c1.early = 0 /\ c1.late = 0
  /\ c1.late < c.late => c1.early = 0

\* A cut takes the earliest first.
LEMMA CutsInOrder ==
  ASSUME NEW c \in Bucket, NEW q \in Nat, q <= Total(c)
  PROVE  InOrder(c, Minus(c, Cut(c, q)))
BY DEF InOrder, Cut, Total, Minus, Least, Bucket

\* What is added takes nothing.
LEMMA PlusInOrder ==
  ASSUME NEW c \in Bucket, NEW g \in Bucket
  PROVE  InOrder(c, Plus(c, g)) /\ InOrder(c, c)
BY DEF InOrder, Plus, Bucket

\* One leg, in both columns.
LEMMA LegInOrder ==
  ASSUME NEW k \in Rows, NEW l \in Leg, rem[k] \in Bucket, lock[k] \in Bucket, LotsCover(k, l), Supported(l)
  PROVE  InOrder(rem[k], RemAfter(k, l)) /\ InOrder(lock[k], LockAfter(k, l))
<1>0. l.d \in Int /\ l.f \in Int
  BY DEF Leg
<1>1. CASE Absent(l)
  <2>1. RemAfter(k, l) = rem[k] /\ LockAfter(k, l) = lock[k]
    BY <1>0, <1>1 DEF RemAfter, LockAfter, Absent, Issues, Spends, Freezes, Thaws, PaysOut
  <2> QED  BY <2>1, PlusInOrder
<1>2. CASE Issues(l)
  <2>1. RemAfter(k, l) = Plus(rem[k], IssueInto(k, l.d)) /\ LockAfter(k, l) = lock[k] /\ l.d \in Nat
    BY <1>0, <1>2 DEF RemAfter, LockAfter, Issues, Spends, Freezes, Thaws, PaysOut
  <2> QED  BY <2>1, IssueIntoAll, PlusInOrder
<1>3. CASE Spends(l)
  <2>1. /\ RemAfter(k, l) = Minus(rem[k], Cut(rem[k], -l.d)) /\ LockAfter(k, l) = lock[k]
        /\ -l.d \in Nat /\ -l.d <= Total(rem[k])
    BY <1>0, <1>3 DEF RemAfter, LockAfter, Issues, Spends, Freezes, Thaws, PaysOut, LotsCover
  <2> QED  BY <2>1, CutsInOrder, PlusInOrder
<1>4. CASE Freezes(l)
  <2>1. /\ RemAfter(k, l) = Minus(rem[k], Cut(rem[k], -l.d))
        /\ LockAfter(k, l) = Plus(lock[k], Cut(rem[k], -l.d))
        /\ -l.d \in Nat /\ -l.d <= Total(rem[k])
    BY <1>0, <1>4 DEF RemAfter, LockAfter, Issues, Spends, Freezes, Thaws, PaysOut, LotsCover
  <2> QED  BY <2>1, CutFits, CutsInOrder, PlusInOrder
<1>5. CASE Thaws(l)
  <2>1. /\ RemAfter(k, l) = Plus(rem[k], Cut(lock[k], -l.f))
        /\ LockAfter(k, l) = Minus(lock[k], Cut(lock[k], -l.f))
        /\ -l.f \in Nat /\ -l.f <= Total(lock[k])
    BY <1>0, <1>5 DEF RemAfter, LockAfter, Issues, Spends, Freezes, Thaws, PaysOut, LotsCover
  <2> QED  BY <2>1, CutFits, CutsInOrder, PlusInOrder
<1>6. CASE PaysOut(l)
  <2>1. /\ RemAfter(k, l) = rem[k] /\ LockAfter(k, l) = Minus(lock[k], Cut(lock[k], -l.f))
        /\ -l.f \in Nat /\ -l.f <= Total(lock[k])
    BY <1>0, <1>6 DEF RemAfter, LockAfter, Issues, Spends, Freezes, Thaws, PaysOut, LotsCover
  <2> QED  BY <2>1, CutsInOrder, PlusInOrder
<1> QED  BY <1>1, <1>2, <1>3, <1>4, <1>5, <1>6 DEF Supported

\* And so every row of a voucher.
LEMMA ApplyInOrder ==
  ASSUME TypeOK, NEW L \in [Rows -> Leg], CanApply(L), Apply(L), NoOverdraft
  PROVE  TakesEarliest
<1>1. ASSUME NEW k \in Rows PROVE InOrder(rem[k], rem'[k]) /\ InOrder(lock[k], lock'[k])
  <2>1. /\ rem[k] \in Bucket /\ lock[k] \in Bucket /\ L[k] \in Leg /\ LotsCover(k, L[k]) /\ Supported(L[k])
        /\ rem'[k] = RemAfter(k, L[k]) /\ lock'[k] = LockAfter(k, L[k])
    BY DEF TypeOK, CanApply, Apply
  <2> QED  BY <2>1, LegInOrder
<1> QED  BY <1>1 DEF TakesEarliest, InOrder

\* No step of the ledger touches a lot while one that expires earlier is left
\* (ledger.service.ts:702-754).
THEOREM FirstToExpireGoesFirst == Spec => EarliestFirst
<1>1. IInv /\ [Next]_vars => [TakesEarliest]_vars
  <2> SUFFICES ASSUME IInv, Next PROVE TakesEarliest
    OBVIOUS
  <2>0. TypeOK /\ NoOverdraft /\ CheckedArePosted
    BY DEF IInv
  <2>1. ASSUME UNCHANGED <<rem, lock>> PROVE TakesEarliest
    <3>1. \A k \in Rows : InOrder(rem[k], rem[k]) /\ InOrder(lock[k], lock[k])
      BY <2>0, PlusInOrder DEF TypeOK
    <3> QED  BY <2>1, <3>1 DEF TakesEarliest, InOrder
  <2>2. ASSUME NEW b \in BizKeys, NEW v \in Vouchers, Post(b, v) PROVE TakesEarliest
    BY <2>0, <2>2, LegsAreInts, ApplyInOrder DEF Post
  <2>3. ASSUME NEW b \in BizKeys, NEW r \in RevKeys, PostReversal(b, r) PROVE TakesEarliest
    <3>1. txn[b] \in Vouchers
      BY <2>0, <2>3 DEF PostReversal, CheckedArePosted, TypeOK
    <3>2. Opposite(txn[b].legs) \in [Rows -> Leg]
      BY <3>1, LegsAreInts DEF Opposite, Leg
    <3> QED  BY <2>0, <2>3, <3>2, ApplyInOrder DEF PostReversal
  <2>4. CASE \/ \E b \in BizKeys, r \in RevKeys : CheckReversal(b, r) \/ AbandonReversal(b, r)
             \/ \E u \in Users : SetBan(u)
             \/ Tick
    BY <2>1, <2>4 DEF CheckReversal, AbandonReversal, SetBan, Tick
  <2> QED  BY <2>2, <2>3, <2>4 DEF Next
<1> QED  BY <1>1, Invariance, PTL DEF Spec, EarliestFirst
=============================================================================
