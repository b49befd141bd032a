---------------------------- MODULE RequestProofs ----------------------------
(***************************************************************************)
(* What stands between one request and the same request twice, for any     *)
(* number of processes, rows, transactions, runs, bizIds and amounts:      *)
(* first Posting.tla, then Claim.tla.                                      *)
(*                                                                         *)
(* Posting implements Book. A transaction's rows and keys reach the        *)
(* database in one step, its COMMIT; every other step leaves both alone.   *)
(* COMMIT writes what the transaction has gathered, so the invariant says  *)
(* what that is, all along: the amounts of the vouchers behind it and of   *)
(* the updates it has made of the present one, each on a row it holds and  *)
(* none below zero; and the keys of those vouchers, none of them posted.   *)
(***************************************************************************)
EXTENDS Posting, Claim, Coupon, SumProofs, TLAPS


AmountsOn(v, r) == [i \in DOMAIN Changes(v) |-> IF Changes(v)[i][1] = r THEN Changes(v)[i][2] ELSE 0]
Whole(v, r)   == Sum(AmountsOn(v, r), DOMAIN Changes(v))
Wholes(t, r)  == [n \in DOMAIN t |-> Whole(t[n], r)]

\* What the vouchers before the nth of t, and the updates I of the nth, add to a row.
Gathered(t, n, I, r) == Sum(Wholes(t, r), 1 .. n - 1) + Sum(AmountsOn(t[n], r), I)

IsOpen(p) == pc[p] \in {"insert", "update"}

\* The updates it has made of the present voucher, and the vouchers whose key it inserted.
Made(p)    == IF pc[p] = "update" THEN DOMAIN Changes(Here(p)) \ rest[p] ELSE {}
Behind(p)  == {n \in DOMAIN plan[p] : n < at[p] \/ (n = at[p] /\ pc[p] = "update")}

Placed(p) ==
  /\ at[p] \in DOMAIN plan[p]
  /\ rest[p] \subseteq DOMAIN Changes(Here(p))
  /\ pc[p] # "update" => rest[p] = {}

RowsOf(p) ==
  \A r \in Rows :
    /\ dirty[p][r] = IF IsOpen(p) THEN Gathered(plan[p], at[p], Made(p), r) ELSE 0
    /\ dirty[p][r] # 0 => holder[r] = p
    /\ bal[r] + dirty[p][r] >= 0

InsertsOf(p) ==
  /\ {k \in Keys : inserter[k] = p} = IF IsOpen(p) THEN {plan[p][n].key : n \in Behind(p)} ELSE {}
  /\ \A k \in Keys : inserter[k] = p => k \notin posted

IInv == TypeOK /\ \A p \in Procs : Placed(p) /\ RowsOf(p) /\ InsertsOf(p)

-----------------------------------------------------------------------------
(* What a transaction gathers. *)

\* A voucher has finitely many updates, each of an amount on a row.
LEMMA VoucherIsSound ==
  ASSUME NEW v \in Voucher
  PROVE  /\ IsFiniteSet(DOMAIN Changes(v)) /\ DOMAIN Changes(v) \subseteq Nat
         /\ \A i \in DOMAIN Changes(v) : Changes(v)[i][1] \in Rows /\ Changes(v)[i][2] \in Int
         /\ \A r : \A i \in DOMAIN Changes(v) : AmountsOn(v, r)[i] \in Int
         /\ v.key \in Keys
<1>1. v.legs \in Seq(Balances \X Int) /\ v.mints \in Seq(Defs \X Int) /\ v.key \in Keys
  BY DEF Voucher
<1>2. v.legs \in Seq(Rows \X Int) /\ v.mints \in Seq(Rows \X Int)
  BY <1>1 DEF Rows
<1>3. Changes(v) \in Seq(Rows \X Int)
  BY <1>2 DEF Changes
<1>4. DOMAIN Changes(v) = 1 .. Len(Changes(v)) /\ Len(Changes(v)) \in Nat
  BY <1>3
<1>5. \A i \in DOMAIN Changes(v) : Changes(v)[i] \in Rows \X Int
  BY <1>3
<1>6. IsFiniteSet(DOMAIN Changes(v)) /\ DOMAIN Changes(v) \subseteq Nat
  BY <1>4, FS_Interval
<1>7. \A i \in DOMAIN Changes(v) : Changes(v)[i][1] \in Rows /\ Changes(v)[i][2] \in Int
  BY <1>5
<1>8. \A r : \A i \in DOMAIN Changes(v) : AmountsOn(v, r)[i] \in Int
  BY <1>7 DEF AmountsOn
<1> QED  BY <1>1, <1>6, <1>7, <1>8

\* So it adds up.
LEMMA AmountsAreInt ==
  ASSUME NEW v \in Voucher, NEW r
  PROVE  /\ Whole(v, r) \in Int
         /\ \A I \in SUBSET DOMAIN Changes(v) : IsFiniteSet(I) /\ Sum(AmountsOn(v, r), I) \in Int
<1>1. ASSUME NEW I \in SUBSET DOMAIN Changes(v)
      PROVE  IsFiniteSet(I) /\ Sum(AmountsOn(v, r), I) \in Int
  <2>1. IsFiniteSet(I) /\ \A i \in I : AmountsOn(v, r)[i] \in Int
    BY VoucherIsSound, FS_Subset
  <2> QED  BY <2>1, SumInt
<1> QED  BY <1>1 DEF Whole

\* A transaction has its vouchers in a row.
LEMMA VouchersInARow ==
  ASSUME NEW t \in Seq(Voucher), NEW r
  PROVE  /\ DOMAIN t = 1 .. Len(t) /\ Len(t) \in Nat
         /\ \A n \in DOMAIN t : t[n] \in Voucher /\ Wholes(t, r)[n] = Whole(t[n], r)
         /\ \A n \in DOMAIN t : Wholes(t, r)[n] \in Int
BY AmountsAreInt DEF Wholes

\* At first nothing.
LEMMA GatheredFirst ==
  ASSUME NEW t, NEW r
  PROVE  Gathered(t, 1, {}, r) = 0
<1>1. 1 .. 1 - 1 = {}
  OBVIOUS
<1> QED  BY <1>1, SumEmpty DEF Gathered

\* An update adds its amount.
LEMMA GatheredOne ==
  ASSUME NEW t \in Seq(Voucher), NEW n \in DOMAIN t, NEW r,
         NEW I \in SUBSET DOMAIN Changes(t[n]), NEW i \in DOMAIN Changes(t[n]), i \notin I
  PROVE  Gathered(t, n, I \cup {i}, r) = Gathered(t, n, I, r) + AmountsOn(t[n], r)[i]
<1>1. t[n] \in Voucher /\ n \in Nat
  BY VouchersInARow
<1>2. IsFiniteSet(I) /\ \A j \in I \cup {i} : AmountsOn(t[n], r)[j] \in Int
  BY <1>1, AmountsAreInt, VoucherIsSound
<1>3. Sum(AmountsOn(t[n], r), I \cup {i}) = AmountsOn(t[n], r)[i] + Sum(AmountsOn(t[n], r), I)
  BY <1>2, SumAdd
<1>4. Sum(AmountsOn(t[n], r), I) \in Int
  BY <1>1, AmountsAreInt
<1>5. Sum(Wholes(t, r), 1 .. n - 1) \in Int
  <2>1. IsFiniteSet(1 .. n - 1) /\ \A m \in 1 .. n - 1 : Wholes(t, r)[m] \in Int
    <3>1. n - 1 \in Int
      BY <1>1
    <3>2. IsFiniteSet(1 .. n - 1)
      BY <3>1, FS_Interval
    <3> QED  BY <3>2, VouchersInARow
  <2> QED  BY <2>1, SumInt
<1>6. AmountsOn(t[n], r)[i] \in Int
  BY <1>2
<1> DEFINE a == AmountsOn(t[n], r)[i]
           b == Sum(AmountsOn(t[n], r), I)
           c == Sum(Wholes(t, r), 1 .. n - 1)
<1>7. Gathered(t, n, I \cup {i}, r) = c + (a + b) /\ Gathered(t, n, I, r) = c + b
  BY <1>3 DEF Gathered
<1> HIDE DEF a, b, c
<1> QED  BY <1>4, <1>5, <1>6, <1>7 DEF a, b, c

\* A voucher done is a voucher behind.
LEMMA GatheredNext ==
  ASSUME NEW t \in Seq(Voucher), NEW n \in DOMAIN t, NEW r
  PROVE  Gathered(t, n, DOMAIN Changes(t[n]), r) = Sum(Wholes(t, r), 1 .. n)
<1>1. n \in Nat /\ n >= 1 /\ n <= Len(t) /\ Len(t) \in Nat
  BY VouchersInARow
<1>2. 1 .. n = (1 .. n - 1) \cup {n} /\ n \notin 1 .. n - 1 /\ 1 .. n \subseteq DOMAIN t
  BY <1>1, VouchersInARow
<1>3. IsFiniteSet(1 .. n - 1)
  <2>1. n - 1 \in Int
    BY <1>1
  <2> QED  BY <2>1, FS_Interval
<1>4. \A m \in (1 .. n - 1) \cup {n} : Wholes(t, r)[m] \in Int
  BY <1>2, VouchersInARow
<1>5. Sum(Wholes(t, r), (1 .. n - 1) \cup {n}) = Wholes(t, r)[n] + Sum(Wholes(t, r), 1 .. n - 1)
  <2> DEFINE B == 1 .. n - 1
  <2>1. IsFiniteSet(B) /\ n \notin B /\ \A m \in B \cup {n} : Wholes(t, r)[m] \in Int
    BY <1>2, <1>3, <1>4
  <2> HIDE DEF B
  <2>2. Sum(Wholes(t, r), B \cup {n}) = Wholes(t, r)[n] + Sum(Wholes(t, r), B)
    BY <2>1, SumAdd
  <2> QED  BY <2>2 DEF B
<1>6. Sum(Wholes(t, r), 1 .. n - 1) \in Int
  BY <1>3, <1>4, SumInt
<1>7. Wholes(t, r)[n] = Sum(AmountsOn(t[n], r), DOMAIN Changes(t[n])) /\ Wholes(t, r)[n] \in Int
  BY <1>4, VouchersInARow DEF Whole
<1> DEFINE a == Wholes(t, r)[n]
           c == Sum(Wholes(t, r), 1 .. n - 1)
<1>8. Gathered(t, n, DOMAIN Changes(t[n]), r) = c + a /\ Sum(Wholes(t, r), 1 .. n) = a + c
  BY <1>2, <1>5, <1>7 DEF Gathered
<1> HIDE DEF a, c
<1> QED  BY <1>6, <1>7, <1>8 DEF a, c

\* The sums of Book are sums over these functions.
LEMMA EffectIsSum ==
  ASSUME NEW t \in Seq(Voucher), NEW r
  PROVE  Promise!Effect(t, r) = Sum(Wholes(t, r), DOMAIN t)
<1>1. ASSUME NEW f PROVE Promise!SumFunction(f) = SumFunction(f)
  <2>1. Promise!SumFunctionOnSet(f, DOMAIN f) = Partial(f, DOMAIN f)[DOMAIN f]
    BY DEF Promise!SumFunctionOnSet, Promise!FoldFunctionOnSet, Promise!MapThenFoldSet, Partial, Chosen
  <2> QED  BY <2>1, SumIsPartial DEF Promise!SumFunction, SumFunction
<1>2. ASSUME NEW n \in DOMAIN t PROVE Promise!EffectOf(t[n], r) = Whole(t[n], r)
  <2>1. Promise!EffectOf(t[n], r) = Promise!SumFunction(AmountsOn(t[n], r))
    BY DEF Promise!EffectOf, Promise!Changes, AmountsOn, Changes
  <2>2. DOMAIN AmountsOn(t[n], r) = DOMAIN Changes(t[n])
    BY DEF AmountsOn
  <2> QED  BY <1>1, <2>1, <2>2, SumOfFunction DEF Whole
<1>3. [n \in DOMAIN t |-> Promise!EffectOf(t[n], r)] = Wholes(t, r)
  BY <1>2 DEF Wholes
<1>4. Promise!Effect(t, r) = Promise!SumFunction(Wholes(t, r))
  BY <1>3 DEF Promise!Effect
<1>5. DOMAIN Wholes(t, r) = DOMAIN t
  BY DEF Wholes
<1> QED  BY <1>1, <1>4, <1>5, SumOfFunction

-----------------------------------------------------------------------------
(* The invariant. *)

\* Every process wants a transaction of at least one voucher.
LEMMA PlansAreSound ==
  ASSUME TypeOK, NEW p \in Procs
  PROVE  /\ plan[p] \in Plans /\ plan[p] \in Seq(Voucher)
         /\ DOMAIN plan[p] = 1 .. Len(plan[p]) /\ Len(plan[p]) \in Nat /\ Len(plan[p]) >= 1
         /\ \A n \in DOMAIN plan[p] : plan[p][n] \in Voucher /\ plan[p][n].key \in Keys
<1>1. plan[p] \in Plans
  BY DEF TypeOK, Plans
<1>2. plan[p] \in Seq(Voucher) /\ plan[p] # <<>>
  BY <1>1, PostingAssumption
<1>3. \A n \in DOMAIN plan[p] : plan[p][n] \in Voucher
  BY <1>2
<1>4. \A n \in DOMAIN plan[p] : plan[p][n].key \in Keys
  BY <1>3, VoucherIsSound
<1>5. DOMAIN plan[p] = 1 .. Len(plan[p]) /\ Len(plan[p]) \in Nat /\ Len(plan[p]) >= 1
  BY <1>2
<1> QED  BY <1>1, <1>2, <1>3, <1>4, <1>5

\* Nothing is open at the start.
LEMMA InitHolds == Init => IInv
<1> SUFFICES ASSUME Init PROVE IInv
  OBVIOUS
<1>1. TypeOK
  <2>1. Start \in [Rows -> Nat] /\ MaxTries \in Nat
    BY PostingAssumption
  <2> QED  BY <2>1 DEF Init, TypeOK, Clean, Results
<1>2. ASSUME NEW p \in Procs PROVE Placed(p) /\ RowsOf(p) /\ InsertsOf(p)
  <2>1. pc[p] = "idle" /\ at[p] = 1 /\ rest[p] = {} /\ dirty[p] = Clean
    BY DEF Init
  <2>2. Placed(p)
    BY <1>1, <2>1, PlansAreSound DEF Placed
  <2>3. RowsOf(p)
    BY <1>1, <2>1 DEF RowsOf, IsOpen, Clean, TypeOK
  <2>4. InsertsOf(p)
    <3>1. \A k \in Keys : inserter[k] = Nobody
      BY DEF Init
    <3>2. Nobody # p
      BY PostingAssumption
    <3> QED  BY <2>1, <3>1, <3>2 DEF InsertsOf, IsOpen
  <2> QED  BY <2>2, <2>3, <2>4
<1> QED  BY <1>1, <1>2 DEF IInv

\* A process keeps its part as long as its own state, its locks and its keys stay.
LEMMA Untouched ==
  ASSUME IInv, NEW q \in Procs, plan' = plan,
         pc'[q] = pc[q], at'[q] = at[q], rest'[q] = rest[q], dirty'[q] = dirty[q],
         \A r \in Rows : holder[r] = q => holder'[r] = q,
         \A r \in Rows : bal'[r] + dirty[q][r] >= 0,
         \A k \in Keys : inserter'[k] = q <=> inserter[k] = q,
         \A k \in Keys : inserter[k] = q => k \notin posted'
  PROVE  Placed(q)' /\ RowsOf(q)' /\ InsertsOf(q)'
<1>1. Placed(q) /\ RowsOf(q) /\ InsertsOf(q)
  BY DEF IInv
<1>2. Here(q)' = Here(q)
  BY DEF Here
<1>3. Made(q)' = Made(q) /\ Behind(q)' = Behind(q) /\ IsOpen(q)' = IsOpen(q)
  BY <1>2 DEF Made, Behind, IsOpen, Here
<1>4. Placed(q)'
  BY <1>1, <1>2 DEF Placed
<1>5. RowsOf(q)'
  BY <1>1, <1>3 DEF RowsOf
<1>6. InsertsOf(q)'
  <2>1. {k \in Keys : inserter'[k] = q} = {k \in Keys : inserter[k] = q}
    OBVIOUS
  <2> QED  BY <1>1, <1>3, <2>1 DEF InsertsOf
<1> QED  BY <1>4, <1>5, <1>6

\* The end of a transaction, whichever way, clears its own part.
LEMMA ReleaseKeeps ==
  ASSUME IInv, NEW p \in Procs, NEW res \in Results, NEW s \in {"idle", "committed"},
         Release(p, res), pc' = [pc EXCEPT ![p] = s],
         bal' \in [Rows -> Nat], posted' \subseteq Keys,
         \A q \in Procs \ {p} : \A r \in Rows : bal'[r] + dirty[q][r] >= 0,
         \A q \in Procs \ {p} : \A k \in Keys : inserter[k] = q => k \notin posted'
  PROVE  IInv'
<1> USE DEF Release, Cleaned
<1>0. TypeOK /\ Nobody \notin Procs
  BY PostingAssumption DEF IInv
<1>1. TypeOK'
  BY <1>0 DEF TypeOK, Clean
<1>2. ASSUME NEW q \in Procs PROVE Placed(q)' /\ RowsOf(q)' /\ InsertsOf(q)'
  <2>1. CASE q = p
    <3>1. pc'[p] = s /\ at'[p] = at[p] /\ rest'[p] = {} /\ dirty'[p] = Clean /\ plan' = plan
      BY <1>0 DEF TypeOK
    <3>2. ~IsOpen(p)'
      BY <3>1 DEF IsOpen
    <3>3. Placed(p)'
      BY <3>1 DEF IInv, Placed
    <3>4. RowsOf(p)'
      BY <1>1, <3>1, <3>2 DEF RowsOf, Clean, TypeOK
    <3>5. \A k \in Keys : inserter'[k] # p
      BY <1>0 DEF TypeOK
    <3>6. InsertsOf(p)'
      BY <3>2, <3>5 DEF InsertsOf
    <3> QED  BY <2>1, <3>3, <3>4, <3>6
  <2>2. CASE q # p
    <3>1. pc'[q] = pc[q] /\ at'[q] = at[q] /\ rest'[q] = rest[q] /\ dirty'[q] = dirty[q] /\ plan' = plan
      BY <1>0, <2>2 DEF TypeOK
    <3>2. \A r \in Rows : holder[r] = q => holder'[r] = q
      BY <2>2 DEF TypeOK
    <3>3. \A k \in Keys : inserter'[k] = q <=> inserter[k] = q
      BY <1>0, <2>2 DEF TypeOK
    <3> QED  BY <2>2, <3>1, <3>2, <3>3, Untouched
  <2> QED  BY <2>1, <2>2
<1> QED  BY <1>1, <1>2 DEF IInv

\* A rollback leaves the database alone.
LEMMA RollbackKeeps ==
  ASSUME IInv, NEW p \in Procs, NEW res \in Results, Rollback(p, res)
  PROVE  IInv'
<1>1. bal' = bal /\ posted' = posted
  BY DEF Rollback, db
<1>2. \A q \in Procs \ {p} : \A r \in Rows : bal'[r] + dirty[q][r] >= 0
  BY <1>1 DEF IInv, RowsOf
<1>3. \A q \in Procs \ {p} : \A k \in Keys : inserter[k] = q => k \notin posted'
  BY <1>1 DEF IInv, InsertsOf
<1>4. bal' \in [Rows -> Nat] /\ posted' \subseteq Keys
  BY <1>1 DEF IInv, TypeOK
<1>5. Release(p, res) /\ pc' = [pc EXCEPT ![p] = "idle"]
  BY DEF Rollback
<1> QED  BY <1>2, <1>3, <1>4, <1>5, ReleaseKeeps

\* BEGIN: a plan is laid out, nothing is inserted or updated yet.
LEMMA BeginKeeps ==
  ASSUME IInv, NEW p \in Procs, Begin(p)
  PROVE  IInv'
<1> USE DEF Begin
<1>0. TypeOK /\ Placed(p) /\ RowsOf(p) /\ InsertsOf(p)
  BY DEF IInv
<1>1. TypeOK'
  <2>1. MaxTries \in Nat
    BY PostingAssumption
  <2> QED  BY <1>0, <2>1 DEF TypeOK
<1>2. ASSUME NEW q \in Procs \ {p} PROVE Placed(q)' /\ RowsOf(q)' /\ InsertsOf(q)'
  <2>1. pc'[q] = pc[q] /\ at'[q] = at[q] /\ rest'[q] = rest[q] /\ dirty'[q] = dirty[q]
    BY <1>0 DEF TypeOK
  <2>2. \A r \in Rows : bal'[r] + dirty[q][r] >= 0
    BY DEF IInv, RowsOf
  <2>3. \A k \in Keys : inserter[k] = q => k \notin posted'
    BY DEF IInv, InsertsOf
  <2> QED  BY <2>1, <2>2, <2>3, Untouched
<1>3. pc'[p] = "insert" /\ at'[p] = 1 /\ rest'[p] = {} /\ plan'[p] = plan[p] /\ ~IsOpen(p)
  BY <1>0 DEF TypeOK, Placed, IsOpen
<1>4. IsOpen(p)' /\ Made(p)' = {}
  BY <1>3 DEF IsOpen, Made
<1>5. Placed(p)'
  BY <1>0, <1>3, PlansAreSound DEF Placed
<1>6. RowsOf(p)'
  BY <1>0, <1>3, <1>4, GatheredFirst DEF RowsOf
<1>7. InsertsOf(p)'
  <2>1. Behind(p)' = {}
    BY <1>0, <1>3, PlansAreSound DEF Behind
  <2> QED  BY <1>0, <1>3, <1>4, <2>1 DEF InsertsOf
<1> QED  BY <1>1, <1>2, <1>5, <1>6, <1>7 DEF IInv

\* INSERT INTO asset_txn: the key is nobody else's and not on file.
LEMMA InsertTxnKeeps ==
  ASSUME IInv, NEW p \in Procs, InsertTxn(p)
  PROVE  IInv'
<1> USE DEF InsertTxn
<1>0. TypeOK /\ Placed(p) /\ RowsOf(p) /\ InsertsOf(p) /\ Nobody \notin Procs
  BY PostingAssumption DEF IInv
<1>00. Here(p) \in Voucher /\ Here(p).key \in Keys
  BY <1>0, PlansAreSound DEF Here, Placed
<1>1. TypeOK'
  <2>1. DOMAIN Changes(Here(p)) \subseteq Nat
    BY <1>00, VoucherIsSound
  <2> QED  BY <1>0, <1>00, <2>1 DEF TypeOK
<1>2. ASSUME NEW q \in Procs \ {p} PROVE Placed(q)' /\ RowsOf(q)' /\ InsertsOf(q)'
  <2>1. pc'[q] = pc[q] /\ at'[q] = at[q] /\ rest'[q] = rest[q] /\ dirty'[q] = dirty[q]
    BY <1>0 DEF TypeOK
  <2>2. \A r \in Rows : bal'[r] + dirty[q][r] >= 0
    BY DEF IInv, RowsOf
  <2>3. \A k \in Keys : inserter[k] = q => k \notin posted'
    BY DEF IInv, InsertsOf
  <2>4. \A k \in Keys : inserter'[k] = q <=> inserter[k] = q
    BY <1>0 DEF TypeOK
  <2> QED  BY <2>1, <2>2, <2>3, <2>4, Untouched
<1>3. /\ pc[p] = "insert" /\ pc'[p] = "update" /\ at'[p] = at[p] /\ plan'[p] = plan[p]
      /\ rest'[p] = DOMAIN Changes(Here(p)) /\ Here(p)' = Here(p)
  BY <1>0 DEF TypeOK, Here
<1>4. IsOpen(p) /\ IsOpen(p)' /\ Made(p) = {} /\ Made(p)' = {}
  BY <1>3 DEF IsOpen, Made
<1>5. Placed(p)'
  BY <1>0, <1>3 DEF Placed
<1>6. RowsOf(p)'
  BY <1>0, <1>3, <1>4 DEF RowsOf
<1>7. InsertsOf(p)'
  <2>1. Behind(p)' = Behind(p) \cup {at[p]} /\ at[p] \in DOMAIN plan[p]
    BY <1>0, <1>3 DEF Behind, Placed
  <2>2. {k \in Keys : inserter'[k] = p} = {k \in Keys : inserter[k] = p} \cup {Here(p).key}
    BY <1>0, <1>00 DEF TypeOK
  <2>3. {k \in Keys : inserter'[k] = p} = {plan[p][n].key : n \in Behind(p) \cup {at[p]}}
    BY <1>0, <1>4, <2>2 DEF InsertsOf, Here
  <2>4. \A k \in Keys : inserter'[k] = p => k \notin posted'
    BY <1>0, <2>2 DEF InsertsOf
  <2> QED  BY <1>3, <1>4, <2>1, <2>3, <2>4 DEF InsertsOf
<1> QED  BY <1>1, <1>2, <1>5, <1>6, <1>7 DEF IInv

\* UPDATE asset_balance under its row lock: the sum is not below zero.
LEMMA UpdateRowKeeps ==
  ASSUME IInv, NEW p \in Procs, UpdateRow(p)
  PROVE  IInv'
<1>0. TypeOK /\ Placed(p) /\ RowsOf(p) /\ InsertsOf(p) /\ Nobody \notin Procs
  BY PostingAssumption DEF IInv
<1>00. Here(p) \in Voucher /\ plan[p] \in Seq(Voucher) /\ at[p] \in DOMAIN plan[p]
  BY <1>0, PlansAreSound DEF Here, Placed
<1>u. UNCHANGED <<plan, bal, posted, inserter, pc, at, tries, result>>
  BY DEF UpdateRow
<1>x. PICK i \in rest[p] :
        /\ IsNext(p, i) /\ Lockable(p, Change(p, i)[1]) /\ InRange(p, Change(p, i))
        /\ holder' = [holder EXCEPT ![Change(p, i)[1]] = p]
        /\ dirty' = [dirty EXCEPT ![p][Change(p, i)[1]] = @ + Change(p, i)[2]]
        /\ rest' = [rest EXCEPT ![p] = @ \ {i}]
  BY DEF UpdateRow
<1> DEFINE c == Change(p, i)
<1>c. i \in DOMAIN Changes(Here(p)) /\ c[1] \in Rows /\ c[2] \in Int
  BY <1>0, <1>00, VoucherIsSound DEF Placed, Change
<1>d. \A r \in Rows : dirty'[p][r] = dirty[p][r] + AmountsOn(Here(p), r)[i]
  <2>1. \A r \in Rows : AmountsOn(Here(p), r)[i] = IF c[1] = r THEN c[2] ELSE 0
    BY <1>c DEF AmountsOn, Change
  <2>2. \A r \in Rows : dirty[p][r] \in Int
    BY <1>0 DEF TypeOK
  <2>3. dirty \in [Procs -> [Rows -> Int]]
    BY <1>0 DEF TypeOK
  <2>4. \A r \in Rows : dirty'[p][r] = IF c[1] = r THEN dirty[p][r] + c[2] ELSE dirty[p][r]
    <3> HIDE DEF c
    <3> QED  BY <1>x, <1>c, <2>3 DEF c
  <2> HIDE DEF c
  <2> QED  BY <2>1, <2>2, <2>4, <1>c
<1>1. TypeOK'
  <2>1. \A r \in Rows : AmountsOn(Here(p), r)[i] \in Int
    BY <1>00, <1>c, VoucherIsSound
  <2>2. dirty' \in [Procs -> [Rows -> Int]]
    BY <1>0, <1>x, <1>c DEF TypeOK
  <2>3. holder' \in [Rows -> Procs \cup {Nobody}] /\ rest' \in [Procs -> SUBSET Nat]
    BY <1>0, <1>x, <1>c DEF TypeOK
  <2> QED  BY <1>0, <1>u, <2>2, <2>3 DEF TypeOK
<1>2. ASSUME NEW q \in Procs \ {p} PROVE Placed(q)' /\ RowsOf(q)' /\ InsertsOf(q)'
  <2>1. pc'[q] = pc[q] /\ at'[q] = at[q] /\ rest'[q] = rest[q] /\ dirty'[q] = dirty[q]
    BY <1>0, <1>x, <1>u DEF TypeOK
  <2>2. \A r \in Rows : bal'[r] + dirty[q][r] >= 0
    BY <1>u DEF IInv, RowsOf
  <2>3. \A k \in Keys : inserter[k] = q => k \notin posted'
    BY <1>u DEF IInv, InsertsOf
  <2>4. \A r \in Rows : holder[r] = q => holder'[r] = q
    BY <1>0, <1>x, <1>c DEF TypeOK, Lockable
  <2> QED  BY <1>u, <2>1, <2>2, <2>3, <2>4, Untouched
<1>3. /\ pc[p] = "update" /\ pc'[p] = "update" /\ at'[p] = at[p] /\ plan'[p] = plan[p]
      /\ rest'[p] = rest[p] \ {i} /\ Here(p)' = Here(p)
  BY <1>0, <1>x, <1>u DEF TypeOK, Here, IsNext
<1>4. /\ IsOpen(p) /\ IsOpen(p)' /\ Made(p)' = Made(p) \cup {i} /\ i \notin Made(p)
      /\ Made(p) \subseteq DOMAIN Changes(Here(p)) /\ Behind(p)' = Behind(p)
  BY <1>0, <1>3, <1>c DEF IsOpen, Made, Behind
<1>5. Placed(p)'
  BY <1>0, <1>3 DEF Placed
<1>6. RowsOf(p)'
  <2>1. ASSUME NEW r \in Rows
        PROVE  dirty'[p][r] = Gathered(plan[p], at[p], Made(p)', r)
    <3>1. dirty[p][r] = Gathered(plan[p], at[p], Made(p), r)
      BY <1>0, <1>4 DEF RowsOf
    <3>2. Gathered(plan[p], at[p], Made(p) \cup {i}, r)
            = Gathered(plan[p], at[p], Made(p), r) + AmountsOn(Here(p), r)[i]
      BY <1>00, <1>4, <1>c, GatheredOne DEF Here
    <3> QED  BY <3>1, <3>2, <1>d, <1>4
  <2>2. ASSUME NEW r \in Rows, r # c[1]
        PROVE  dirty'[p][r] = dirty[p][r] /\ holder'[r] = holder[r]
    BY <1>0, <1>x, <1>c, <2>2 DEF TypeOK
  <2>3. holder'[c[1]] = p /\ bal'[c[1]] + dirty'[p][c[1]] >= 0
    <3>1. holder'[c[1]] = p
      BY <1>0, <1>x, <1>c DEF TypeOK
    <3>2. dirty'[p][c[1]] = dirty[p][c[1]] + c[2]
      BY <1>0, <1>x, <1>c DEF TypeOK
    <3>3. bal[c[1]] + dirty[p][c[1]] + c[2] >= 0
      BY <1>x DEF InRange
    <3>4. bal[c[1]] \in Int /\ dirty[p][c[1]] \in Int /\ bal' = bal
      BY <1>0, <1>c, <1>u DEF TypeOK
    <3> HIDE DEF c
    <3> QED  BY <3>1, <3>2, <3>3, <3>4, <1>c
  <2>4. ASSUME NEW r \in Rows
        PROVE  (dirty'[p][r] # 0 => holder'[r] = p) /\ bal'[r] + dirty'[p][r] >= 0
    BY <1>0, <1>u, <2>2, <2>3 DEF RowsOf
  <2> QED  BY <1>3, <1>4, <2>1, <2>4 DEF RowsOf
<1>7. InsertsOf(p)'
  BY <1>0, <1>3, <1>4, <1>u DEF InsertsOf
<1> QED  BY <1>1, <1>2, <1>5, <1>6, <1>7 DEF IInv

\* The last row of a voucher is updated: the voucher counts as behind.
LEMMA NextVoucherKeeps ==
  ASSUME IInv, NEW p \in Procs, NextVoucher(p)
  PROVE  IInv'
<1> USE DEF NextVoucher
<1>0. TypeOK /\ Placed(p) /\ RowsOf(p) /\ InsertsOf(p)
  BY DEF IInv
<1> DEFINE t == plan[p]
           n == at[p]
<1>00. t \in Seq(Voucher) /\ n \in DOMAIN t /\ n + 1 \in DOMAIN t /\ n \in Nat /\ Here(p) \in Voucher
  BY <1>0, PlansAreSound DEF Here, Placed
<1>1. TypeOK'
  BY <1>0 DEF TypeOK
<1>2. ASSUME NEW q \in Procs \ {p} PROVE Placed(q)' /\ RowsOf(q)' /\ InsertsOf(q)'
  <2>1. pc'[q] = pc[q] /\ at'[q] = at[q] /\ rest'[q] = rest[q] /\ dirty'[q] = dirty[q]
    BY <1>0 DEF TypeOK
  <2>2. \A r \in Rows : bal'[r] + dirty[q][r] >= 0
    BY DEF IInv, RowsOf
  <2>3. \A k \in Keys : inserter[k] = q => k \notin posted'
    BY DEF IInv, InsertsOf
  <2> QED  BY <2>1, <2>2, <2>3, Untouched
<1>3. /\ pc[p] = "update" /\ pc'[p] = "insert" /\ at'[p] = n + 1 /\ plan'[p] = t
      /\ rest'[p] = {} /\ rest[p] = {}
  BY <1>0 DEF TypeOK
<1>4. IsOpen(p) /\ IsOpen(p)' /\ Made(p) = DOMAIN Changes(t[n]) /\ Made(p)' = {} /\ Behind(p)' = Behind(p)
  <2>1. Behind(p)' = Behind(p)
    BY <1>0, <1>00, <1>3, PlansAreSound DEF Behind
  <2> QED  BY <1>3, <2>1 DEF IsOpen, Made, Here
<1>5. Placed(p)'
  BY <1>00, <1>3 DEF Placed
<1>6. RowsOf(p)'
  <2>1. ASSUME NEW r \in Rows
        PROVE  Gathered(t, n + 1, {}, r) = Gathered(t, n, DOMAIN Changes(t[n]), r)
    <3>1. Gathered(t, n, DOMAIN Changes(t[n]), r) = Sum(Wholes(t, r), 1 .. n)
      BY <1>00, GatheredNext
    <3>2. Gathered(t, n + 1, {}, r) = Sum(Wholes(t, r), 1 .. n) + 0
      <4>1. (n + 1) - 1 = n
        BY <1>00
      <4>2. Gathered(t, n + 1, {}, r) = Sum(Wholes(t, r), 1 .. (n + 1) - 1) + Sum(AmountsOn(t[n + 1], r), {})
        BY DEF Gathered
      <4>3. Sum(AmountsOn(t[n + 1], r), {}) = 0
        BY SumEmpty
      <4> QED  BY <4>1, <4>2, <4>3
    <3>3. Sum(Wholes(t, r), 1 .. n) \in Int
      <4>1. dirty[p][r] = Gathered(t, n, DOMAIN Changes(t[n]), r)
        BY <1>0, <1>4 DEF RowsOf
      <4> QED  BY <1>0, <3>1, <4>1 DEF TypeOK
    <3> QED  BY <3>1, <3>2, <3>3
  <2> QED  BY <1>0, <1>3, <1>4, <2>1 DEF RowsOf
<1>7. InsertsOf(p)'
  BY <1>0, <1>3, <1>4 DEF InsertsOf
<1> QED  BY <1>1, <1>2, <1>5, <1>6, <1>7 DEF IInv

\* COMMIT: what is dirty becomes the balance, and no committed row is below zero.
LEMMA CommitKeeps ==
  ASSUME IInv, NEW p \in Procs, Commit(p)
  PROVE  IInv'
<1>0. TypeOK /\ RowsOf(p)
  BY DEF IInv
<1>1. bal' = [r \in Rows |-> bal[r] + dirty[p][r]] /\ posted' = posted \cup {k \in Keys : inserter[k] = p}
  BY DEF Commit
<1>2. \A r \in Rows : bal[r] \in Int /\ dirty[p][r] \in Int /\ bal[r] + dirty[p][r] >= 0
  BY <1>0 DEF TypeOK, RowsOf
<1>3. bal' \in [Rows -> Nat] /\ posted' \subseteq Keys
  BY <1>0, <1>1, <1>2 DEF TypeOK
<1>4. ASSUME NEW q \in Procs \ {p}, NEW r \in Rows PROVE bal'[r] + dirty[q][r] >= 0
  <2>1. RowsOf(q) /\ dirty[q][r] \in Int
    BY <1>0 DEF IInv, TypeOK
  <2>2. CASE dirty[q][r] = 0
    BY <1>1, <1>2, <2>2
  <2>3. CASE dirty[q][r] # 0
    <3>1. dirty[p][r] = 0
      BY <1>0, <2>1, <2>3 DEF RowsOf
    <3>2. bal'[r] = bal[r]
      BY <1>1, <1>2, <3>1
    <3> QED  BY <2>1, <3>2 DEF RowsOf
  <2> QED  BY <2>2, <2>3
<1>5. ASSUME NEW q \in Procs \ {p}, NEW k \in Keys, inserter[k] = q PROVE k \notin posted'
  BY <1>1, <1>5 DEF IInv, InsertsOf
<1>6. Release(p, "none") /\ pc' = [pc EXCEPT ![p] = "committed"] /\ "none" \in Results
  BY DEF Commit, Results
<1> QED  BY <1>3, <1>4, <1>5, <1>6, ReleaseKeeps

\* Answering changes nothing on file.
LEMMA AnswerKeeps ==
  ASSUME IInv, NEW p \in Procs, Answer(p)
  PROVE  IInv'
<1> USE DEF Answer
<1>0. TypeOK
  BY DEF IInv
<1>1. TypeOK'
  BY <1>0 DEF TypeOK, Results
<1>2. ASSUME NEW q \in Procs PROVE Placed(q)' /\ RowsOf(q)' /\ InsertsOf(q)'
  <2>1. Placed(q) /\ RowsOf(q) /\ InsertsOf(q)
    BY DEF IInv
  <2>2. Here(q)' = Here(q) /\ IsOpen(q)' = IsOpen(q)
    BY <1>0 DEF Here, IsOpen, TypeOK
  <2>3. IsOpen(q) => Made(q)' = Made(q) /\ Behind(q)' = Behind(q)
    BY <1>0, <2>2 DEF Made, Behind, IsOpen, TypeOK
  <2>4. Placed(q)'
    BY <1>0, <2>1, <2>2 DEF Placed, TypeOK
  <2>5. RowsOf(q)'
    BY <2>1, <2>2, <2>3 DEF RowsOf
  <2>6. InsertsOf(q)'
    BY <2>1, <2>2, <2>3 DEF InsertsOf
  <2> QED  BY <2>4, <2>5, <2>6
<1> QED  BY <1>1, <1>2 DEF IInv

\* Every step keeps the invariant.
LEMMA NextKeeps == IInv /\ [Next]_vars => IInv'
<1> SUFFICES ASSUME IInv, [Next]_vars PROVE IInv'
  OBVIOUS
<1>1. CASE UNCHANGED vars
  <2>1. TypeOK'
    BY <1>1 DEF IInv, TypeOK, vars
  <2>2. ASSUME NEW p \in Procs PROVE Placed(p)' /\ RowsOf(p)' /\ InsertsOf(p)'
    <3>1. \A r \in Rows : bal'[r] + dirty[p][r] >= 0
      BY <1>1 DEF IInv, RowsOf, vars
    <3>2. \A k \in Keys : inserter[k] = p => k \notin posted'
      BY <1>1 DEF IInv, InsertsOf, vars
    <3> QED  BY <1>1, <3>1, <3>2, Untouched DEF vars
  <2> QED  BY <2>1, <2>2 DEF IInv
<1>2. ASSUME NEW p \in Procs, Proceed(p) \/ Die(p) PROVE IInv'
  <2>1. "replayed" \in Results /\ "refused" \in Results /\ "lost" \in Results
    BY DEF Results
  <2>2. CASE Begin(p)
    BY <2>2, BeginKeeps
  <2>3. CASE InsertTxn(p)
    BY <2>3, InsertTxnKeeps
  <2>4. CASE Duplicate(p)
    BY <2>1, <2>4, RollbackKeeps DEF Duplicate
  <2>5. CASE UpdateRow(p)
    BY <2>5, UpdateRowKeeps
  <2>6. CASE Refuse(p)
    BY <2>1, <2>6, RollbackKeeps DEF Refuse
  <2>7. CASE NextVoucher(p)
    BY <2>7, NextVoucherKeeps
  <2>8. CASE Commit(p)
    BY <2>8, CommitKeeps
  <2>9. CASE Answer(p)
    BY <2>9, AnswerKeeps
  <2>10. CASE Die(p)
    BY <2>1, <2>10, RollbackKeeps DEF Die
  <2> QED  BY <1>2, <2>2, <2>3, <2>4, <2>5, <2>6, <2>7, <2>8, <2>9, <2>10 DEF Proceed
<1> QED  BY <1>1, <1>2 DEF Next

\* So the invariant holds for ever.
LEMMA Holds == Spec => []IInv
BY InitHolds, NextKeeps, PTL DEF Spec

-----------------------------------------------------------------------------
(* What follows. *)

\* The variables keep their types; in particular no committed row is ever below
\* zero: no player is overdrawn and no limited item minted past its limit.
THEOREM TypeCorrect == Spec => []TypeOK
<1>1. IInv => TypeOK
  BY DEF IInv
<1> QED  BY <1>1, Holds, PTL

\* A COMMIT is a posting of Book: all keys of the transaction, for the first
\* time, and all its amounts.
LEMMA CommitPosts ==
  ASSUME IInv, NEW p \in Procs, Commit(p)
  PROVE  Promise!Post(plan[p])
<1>0. TypeOK /\ Placed(p) /\ RowsOf(p) /\ InsertsOf(p)
  BY DEF IInv
<1> DEFINE t == plan[p]
<1>1. t \in Seq(Voucher) /\ DOMAIN t = 1 .. Len(t) /\ Len(t) \in Nat /\ Len(t) >= 1 /\ Len(t) \in DOMAIN t
  BY <1>0, PlansAreSound
<1>2. pc[p] = "update" /\ rest[p] = {} /\ at[p] = Len(t) /\ IsOpen(p)
  BY DEF Commit, IsOpen
<1>3. {k \in Keys : inserter[k] = p} = KeysOf(t)
  <2>1. Behind(p) = DOMAIN t
    BY <1>1, <1>2 DEF Behind
  <2> QED  BY <1>0, <1>2, <2>1 DEF InsertsOf, KeysOf
<1>4. \A k \in KeysOf(t) : k \notin posted
  BY <1>0, <1>3 DEF InsertsOf
<1>5. posted' = posted \cup KeysOf(t)
  BY <1>3 DEF Commit
<1>6. ASSUME NEW r \in Rows PROVE dirty[p][r] = Promise!Effect(t, r)
  <2>1. Made(p) = DOMAIN Changes(t[Len(t)])
    BY <1>2 DEF Made, Here
  <2>2. dirty[p][r] = Gathered(t, Len(t), DOMAIN Changes(t[Len(t)]), r)
    BY <1>0, <1>2, <2>1 DEF RowsOf
  <2>3. dirty[p][r] = Sum(Wholes(t, r), 1 .. Len(t))
    BY <1>1, <2>2, GatheredNext
  <2> QED  BY <1>1, <2>3, EffectIsSum
<1>7. bal' = [r \in Rows |-> bal[r] + Promise!Effect(t, r)]
  BY <1>6 DEF Commit
<1>8. \A r \in Rows : bal[r] + Promise!Effect(t, r) >= 0
  BY <1>0, <1>6 DEF RowsOf
<1>9. Promise!KeysOf(t) = KeysOf(t)
  BY DEF Promise!KeysOf, KeysOf
<1> QED  BY <1>4, <1>5, <1>7, <1>8, <1>9 DEF Promise!Post

\* post() and postWithin() keep their promise (ledger.service.ts:97-176): whatever
\* runs at the same time, dies or is sent again, the vouchers of a transaction are
\* posted together or not at all, each key once, and no row goes below zero.
THEOREM PromiseKept == Spec => BookSpec
<1>1. Init => Promise!Init
  BY DEF Init, Promise!Init
<1>2. IInv /\ [Next]_vars => [Promise!Next]_<<bal, posted>>
  <2> SUFFICES ASSUME IInv, [Next]_vars PROVE [Promise!Next]_<<bal, posted>>
    OBVIOUS
  <2>1. CASE UNCHANGED vars
    BY <2>1 DEF vars
  <2>2. ASSUME NEW p \in Procs, Proceed(p) \/ Die(p) PROVE [Promise!Next]_<<bal, posted>>
    <3>1. CASE Commit(p)
      <4>1. Promise!Post(plan[p]) /\ plan[p] \in Plans
        BY <3>1, CommitPosts, PlansAreSound DEF IInv
      <4> QED  BY <4>1 DEF Promise!Next
    <3>2. CASE ~Commit(p)
      <4>1. UNCHANGED <<bal, posted>>
        BY <2>2, <3>2, SMTT(30)
           DEF Proceed, Begin, InsertTxn, Duplicate, UpdateRow, Refuse, NextVoucher, Answer, Die, Rollback, db
      <4> QED  BY <4>1
    <3> QED  BY <3>1, <3>2
  <2> QED  BY <2>1, <2>2 DEF Next
<1> QED  BY <1>1, <1>2, Holds, PTL DEF Spec, BookSpec, Promise!Spec

-----------------------------------------------------------------------------
(***************************************************************************)
(* Claim, for the fifteen services and whatever gives way.                 *)
(*                                                                         *)
(* The services differ in the order of their steps, so the invariant is in *)
(* parts, each about the services of one order: those that mark the row    *)
(* first owe the voucher while a run is at "pay"; those that pay first     *)
(* have it by the time they mark; the egg hatches between two checks of    *)
(* the row; and what is charged is charged under the key it is made under. *)
(***************************************************************************)


PaysFirst == {"minigame", "event", "clinic", "offline", "cure", "unlock", "breed"}
Repeats   == {"speedup", "use"}
Real      == row \notin {Open, Gone} /\ row.amount > 0

\* Only a game is worth anything else than what it always is.
Ones ==
  svc # "minigame" =>
    /\ worth = 1 /\ row.amount \in {0, 1} /\ \A v \in paid : v.amount = 1
    /\ \A r \in Runs : step[r] >= 2 => read[r] = 1

\* biz_id is unique.
OnePerKey ==
  /\ IsFiniteSet(paid)
  /\ \A v, w \in paid : v.key = w.key => v = w
  /\ \A v \in paid : v.key = "thing" \/ Service[svc].key = "request"
  /\ Service[svc].key = "thing" => \A v \in paid : v.key = "thing"

\* While nothing outlives its lock, its owner is alone.
Alone ==
  Only({"forgets"}) /\ Service[svc].locked => \A r \in Runs : step[r] # 0 => held = {r}

\* Who marks first has paid, or is about to.
Owed ==
  svc \in MarksFirst /\ "dies" \notin regime /\ Real => paid # {} \/ \E r \in Runs : step[r] = 3

\* Who pays first has paid when it goes on, and when the row says so.
PaidFor ==
  svc \in PaysFirst \cup Repeats =>
    /\ \A r \in Runs : step[r] >= 3 /\ read[r] > 0 => PaidBefore(KeyOf(biz[r]))
    /\ Real => paid # {}

\* ... and, alone, pays on an open row for the first time, and marks what it paid.
FirstPaid ==
  /\ \A v, w \in paid : v = w
  /\ \A r \in Runs : step[r] \in {2, 3} => row = Open
  /\ \A r \in Runs : step[r] = 4 => row # Open
  /\ paid # {} => row # Open \/ \E r \in Runs : step[r] >= 3
  /\ \A r \in Runs : step[r] >= 3 /\ read[r] > 0 => \E v \in paid : v.amount = read[r]
  /\ Real => \E v \in paid : v.amount = row.amount

PaidAlone == svc \in PaysFirst /\ Only({"forgets"}) => FirstPaid

\* The egg is open while the pet is made, and hatched once the pet is.
OneHatched ==
  /\ \A r \in Runs : step[r] \in {2, 3} => row = Open
  /\ Sum(made, Biz) = IF row # Open \/ \E r \in Runs : step[r] = 3 THEN 1 ELSE 0

HatchedOnce == svc = "hatch" /\ Only({"forgets"}) => OneHatched

\* A request that has not been answered has made nothing, and runs once.
EachOnce ==
  /\ row = Open
  /\ \A r \in Runs : step[r] # 0 => cache[biz[r]] = "pending"
  /\ \A q, r \in Runs : q # r /\ step[q] # 0 /\ step[r] # 0 => biz[q] # biz[r]
  /\ \A b \in Biz : cache[b] # "done" => made[b] = 0

SentOnce == svc \in Repeats /\ Only({"slow"}) => EachOnce

\* What was made was made once and charged.
MadeIsCharged == \A b \in Biz : made[b] <= 1 /\ (made[b] > 0 => PaidBefore(b))

Charged == svc = "breed" \/ (svc \in Repeats /\ Only({"slow"})) => MadeIsCharged

ClaimInv ==
  /\ ClaimTypeOK /\ Ones /\ OnePerKey /\ Alone
  /\ Owed /\ PaidFor /\ PaidAlone /\ HatchedOnce /\ SentOnce /\ Charged

-----------------------------------------------------------------------------
(* The services by the order of their steps. *)

\* One record for each service.
ShapeOf(x, steps, key, again, locked) ==
  Service[x].steps = steps /\ Service[x].key = key /\ Service[x].again = again /\ Service[x].locked = locked

\* The table, read out.
LEMMA TheServices ==
  /\ ShapeOf("checkin", <<"check", "mark", "pay">>, "thing", "refuse", TRUE)
  /\ ShapeOf("task", <<"check", "mark", "pay">>, "thing", "refuse", TRUE)
  /\ ShapeOf("dex", <<"check", "insert", "pay">>, "thing", "refuse", TRUE)
  /\ ShapeOf("like", <<"check", "insert", "pay">>, "thing", "replay", FALSE)
  /\ ShapeOf("promo", <<"check", "insert", "pay">>, "thing", "resume", FALSE)
  /\ ShapeOf("minigame", <<"check", "pay", "mark">>, "thing", "refuse", TRUE)
  /\ ShapeOf("event", <<"check", "pay", "mark">>, "request", "refuse", TRUE)
  /\ ShapeOf("clinic", <<"check", "pay", "mark">>, "request", "mine", TRUE)
  /\ ShapeOf("offline", <<"check", "pay", "mark">>, "request", "refuse", TRUE)
  /\ ShapeOf("cure", <<"check", "pay", "mark">>, "request", "refuse", TRUE)
  /\ ShapeOf("unlock", <<"check", "pay", "mark">>, "request", "refuse", TRUE)
  /\ ShapeOf("breed", <<"check", "pay", "mark", "lay">>, "request", "egg", TRUE)
  /\ ShapeOf("speedup", <<"check", "pay", "make">>, "request", "free", TRUE)
  /\ ShapeOf("use", <<"check", "pay", "make">>, "request", "free", TRUE)
  /\ ShapeOf("hatch", <<"check", "make", "mark">>, "thing", "replay", TRUE)
BY DEF ShapeOf, Service, S, Checkin, ClaimTask, DexClaim, Like, Redeem, Settle, EventClaim, Diagnose,
       Offline, CureAtClinic, Unlock, BreedStart, Speedup, UseItem, Hatch

\* There are no others.
LEMMA NoOthers ==
  ASSUME ClaimTypeOK
  PROVE  svc \in MarksFirst \cup PaysFirst \cup Repeats \cup {"hatch"}
<1>1. DOMAIN Service = MarksFirst \cup PaysFirst \cup Repeats \cup {"hatch"}
  BY DEF Service, MarksFirst, PaysFirst, Repeats
<1> QED  BY <1>1, ClaimAssumption DEF ClaimTypeOK

\* Which step a run is at.
LEMMA StepsOfMarksFirst ==
  ASSUME ClaimTypeOK, svc \in MarksFirst, NEW r \in Runs
  PROVE  /\ Len(Steps) = 3 /\ Service[svc].key = "thing"
         /\ At(r, "check") <=> step[r] = 1
         /\ At(r, "mark") \/ At(r, "insert") <=> step[r] = 2
         /\ At(r, "pay") <=> step[r] = 3
         /\ ~At(r, "make") /\ ~At(r, "lay")
         /\ Service[svc].again = "resume" => svc = "promo"
<1>1. Steps \in {<<"check", "mark", "pay">>, <<"check", "insert", "pay">>} /\ Service[svc].key = "thing"
      /\ (Service[svc].again = "resume" => svc = "promo")
  <2>1. svc = "checkin" \/ svc = "task" \/ svc = "dex" \/ svc = "like" \/ svc = "promo"
    BY DEF MarksFirst
  <2>2. CASE svc = "checkin"
    BY <2>2, TheServices DEF ShapeOf, Steps
  <2>3. CASE svc = "task"
    BY <2>3, TheServices DEF ShapeOf, Steps
  <2>4. CASE svc = "dex"
    BY <2>4, TheServices DEF ShapeOf, Steps
  <2>5. CASE svc = "like"
    BY <2>5, TheServices DEF ShapeOf, Steps
  <2>6. CASE svc = "promo"
    BY <2>6, TheServices DEF ShapeOf, Steps
  <2> QED  BY <2>1, <2>2, <2>3, <2>4, <2>5, <2>6
<1>2. step[r] \in 0 .. 4 /\ step[r] <= Len(Steps)
  BY DEF ClaimTypeOK
<1> QED  BY <1>1, <1>2 DEF At

\* ... of the services that pay before they write the row: check, pay, mark, and for a
\* breeding the egg.
LEMMA StepsOfPaysFirst ==
  ASSUME ClaimTypeOK, svc \in PaysFirst, NEW r \in Runs
  PROVE  /\ Len(Steps) = IF svc = "breed" THEN 4 ELSE 3
         /\ Service[svc].key = IF svc = "minigame" THEN "thing" ELSE "request"
         /\ Service[svc].locked /\ Service[svc].again \notin {"replay", "resume", "free"}
         /\ At(r, "check") <=> step[r] = 1
         /\ At(r, "pay") <=> step[r] = 2
         /\ At(r, "mark") <=> step[r] = 3
         /\ At(r, "lay") <=> step[r] = 4
         /\ ~At(r, "make") /\ ~At(r, "insert")
         /\ step[r] = 4 => svc = "breed"
<1>1. /\ Service[svc].key = IF svc = "minigame" THEN "thing" ELSE "request"
      /\ Service[svc].locked /\ Service[svc].again \notin {"replay", "resume", "free"}
      /\ Steps = IF svc = "breed" THEN <<"check", "pay", "mark", "lay">> ELSE <<"check", "pay", "mark">>
  <2>1. svc = "minigame" \/ svc = "event" \/ svc = "clinic" \/ svc = "offline"
        \/ svc = "cure" \/ svc = "unlock" \/ svc = "breed"
    BY DEF PaysFirst
  <2>2. CASE svc = "minigame"
    BY <2>2, TheServices DEF ShapeOf, Steps
  <2>3. CASE svc = "event"
    BY <2>3, TheServices DEF ShapeOf, Steps
  <2>4. CASE svc = "clinic"
    BY <2>4, TheServices DEF ShapeOf, Steps
  <2>5. CASE svc = "offline"
    BY <2>5, TheServices DEF ShapeOf, Steps
  <2>6. CASE svc = "cure"
    BY <2>6, TheServices DEF ShapeOf, Steps
  <2>7. CASE svc = "unlock"
    BY <2>7, TheServices DEF ShapeOf, Steps
  <2>8. CASE svc = "breed"
    BY <2>8, TheServices DEF ShapeOf, Steps
  <2> QED  BY <2>1, <2>2, <2>3, <2>4, <2>5, <2>6, <2>7, <2>8
<1>2. step[r] \in 0 .. 4 /\ step[r] <= Len(Steps)
  BY DEF ClaimTypeOK
<1> QED  BY <1>1, <1>2 DEF At

\* ... of speed-up and use of an item, which leave no row at all.
LEMMA StepsOfRepeats ==
  ASSUME ClaimTypeOK, svc \in Repeats, NEW r \in Runs
  PROVE  /\ Len(Steps) = 3 /\ Service[svc].key = "request"
         /\ Service[svc].locked /\ Service[svc].again = "free"
         /\ At(r, "check") <=> step[r] = 1
         /\ At(r, "pay") <=> step[r] = 2
         /\ At(r, "make") <=> step[r] = 3
         /\ ~At(r, "mark") /\ ~At(r, "insert") /\ ~At(r, "lay")
<1>1. /\ Service[svc].key = "request" /\ Service[svc].locked /\ Service[svc].again = "free"
      /\ Steps = <<"check", "pay", "make">>
  BY TheServices DEF ShapeOf, Steps, Repeats
<1>2. step[r] \in 0 .. 4 /\ step[r] <= Len(Steps)
  BY DEF ClaimTypeOK
<1> QED  BY <1>1, <1>2 DEF At

\* ... of hatching, which makes the pet and then marks the egg.
LEMMA StepsOfHatch ==
  ASSUME ClaimTypeOK, svc = "hatch", NEW r \in Runs
  PROVE  /\ Len(Steps) = 3 /\ Service[svc].key = "thing"
         /\ Service[svc].locked /\ Service[svc].again = "replay"
         /\ At(r, "check") <=> step[r] = 1
         /\ At(r, "make") <=> step[r] = 2
         /\ At(r, "mark") <=> step[r] = 3
         /\ ~At(r, "pay") /\ ~At(r, "insert") /\ ~At(r, "lay")
<1>1. /\ Service[svc].key = "thing" /\ Service[svc].locked /\ Service[svc].again = "replay"
      /\ Steps = <<"check", "make", "mark">>
  BY TheServices DEF ShapeOf, Steps
<1>2. step[r] \in 0 .. 4 /\ step[r] <= Len(Steps)
  BY DEF ClaimTypeOK
<1> QED  BY <1>1, <1>2 DEF At

-----------------------------------------------------------------------------
(* What a step does to the runs. *)

\* In all services alike.
LEMMA AllSteps ==
  ASSUME ClaimTypeOK, NEW r \in Runs
  PROVE  /\ Len(Steps) \in {3, 4} /\ (At(r, "check") <=> step[r] = 1)
         /\ Service[svc].again = "resume" => svc = "promo"
         /\ Service[svc].key \in {"thing", "request"}
<1>1. CASE svc \in MarksFirst
  BY <1>1, StepsOfMarksFirst
<1>2. CASE svc \in PaysFirst
  BY <1>2, StepsOfPaysFirst
<1>3. CASE svc \in Repeats
  BY <1>3, StepsOfRepeats
<1>4. CASE svc = "hatch"
  BY <1>4, StepsOfHatch
<1> QED  BY <1>1, <1>2, <1>3, <1>4, NoOthers

Left(r) ==
  /\ step' = [step EXCEPT ![r] = 0] /\ read' = [read EXCEPT ![r] = 0]
  /\ \E b \in Biz : biz' = [biz EXCEPT ![r] = b]
  /\ held' = held \ {r}
  /\ \E a \in {"free", "done"} : cache' = [cache EXCEPT ![biz[r]] = a]

WentOn(r) ==
  /\ step' = [step EXCEPT ![r] = IF step[r] = 1 /\ svc = "promo" /\ IsSet THEN 3 ELSE step[r] + 1]
  /\ step[r] < Len(Steps)
  /\ read' = [read EXCEPT ![r] = IF step[r] = 1 THEN worth ELSE read[r]]
  /\ UNCHANGED <<cache, held, biz>>

\* A run that ends lets its lock go and leaves its bizId free or answered.
LEMMA LeaveIsLeft ==
  ASSUME NEW r \in Runs, NEW a \in {"free", "done"}, Leave(r, a)
  PROVE  Left(r)
<1>1. (CHOOSE b \in Biz : TRUE) \in Biz
  BY ClaimAssumption
<1> QED  BY <1>1 DEF Leave, Left

\* A run past its check takes the next step, or ends with the last one.
LEMMA GoesOnOrLeaves ==
  ASSUME ClaimTypeOK, NEW r \in Runs, GoOn(r), step[r] > 1
  PROVE  Left(r) \/ WentOn(r)
<1>1. CASE step[r] = Len(Steps)
  BY <1>1, LeaveIsLeft DEF GoOn
<1>2. CASE step[r] # Len(Steps)
  <2>0. Len(Steps) \in {3, 4}
    BY AllSteps
  <2>1. step[r] \in Nat /\ Len(Steps) \in Nat /\ step[r] <= Len(Steps)
    BY <2>0 DEF ClaimTypeOK
  <2>2. step' = [step EXCEPT ![r] = step[r] + 1] /\ UNCHANGED <<cache, held, biz, read>>
    BY <1>2 DEF GoOn
  <2>3. read' = [read EXCEPT ![r] = read[r]]
    BY <2>2 DEF ClaimTypeOK
  <2>4. (IF step[r] = 1 /\ svc = "promo" /\ IsSet THEN 3 ELSE step[r] + 1) = step[r] + 1
    OBVIOUS
  <2>5. (IF step[r] = 1 THEN worth ELSE read[r]) = read[r]
    OBVIOUS
  <2>6. step[r] < Len(Steps)
    BY <1>2, <2>1
  <2> QED  BY <2>2, <2>3, <2>4, <2>5, <2>6, Zenon DEF WentOn
<1> QED  BY <1>1, <1>2

\* A run leaves or goes on; the others stay where they are.
LEMMA RunMoves ==
  ASSUME ClaimTypeOK, NEW r \in Runs, Step(r) \/ RunDies(r)
  PROVE  /\ step[r] # 0 /\ UNCHANGED <<svc, regime, worth>>
         /\ Left(r) \/ WentOn(r)
<1>0. step[r] \in Nat
  BY DEF ClaimTypeOK
<1>1. CASE Check(r)
  <2>1. step[r] = 1
    BY <1>1, AllSteps DEF Check
  <2>2. CASE Answered(biz[r])
    BY <1>1, <2>1, <2>2, LeaveIsLeft DEF Check, Replayed
  <2>3. CASE ~Answered(biz[r]) /\ IsSet /\ Service[svc].again # "resume"
    BY <1>1, <2>1, <2>3, LeaveIsLeft DEF Check, Refused
  <2>4. CASE ~Answered(biz[r]) /\ ~(IsSet /\ Service[svc].again # "resume")
    <3>1. /\ step' = [step EXCEPT ![r] = IF IsSet THEN 3 ELSE 2] /\ read' = [read EXCEPT ![r] = worth]
          /\ UNCHANGED <<svc, regime, cache, held, biz, worth, row, paid, made>>
      BY <1>1, <2>4 DEF Check
    <3>2. IsSet => svc = "promo"
      BY <2>4, AllSteps
    <3>3. 1 < Len(Steps)
      BY AllSteps
    <3>4. (IF step[r] = 1 /\ svc = "promo" /\ IsSet THEN 3 ELSE step[r] + 1) = IF IsSet THEN 3 ELSE 2
      BY <2>1, <3>2
    <3>5. (IF step[r] = 1 THEN worth ELSE read[r]) = worth
      BY <2>1
    <3>6. step[r] < Len(Steps) /\ step[r] # 0
      BY <2>1, <3>3
    <3>7. WentOn(r)
      BY <3>1, <3>4, <3>5, <3>6, Zenon DEF WentOn
    <3> QED  BY <3>1, <3>6, <3>7
  <2> QED  BY <2>2, <2>3, <2>4
<1>2. CASE CheckLate(r)
  BY <1>2, LeaveIsLeft DEF CheckLate, At
<1>3. ASSUME step[r] > 1, GoOn(r) PROVE step[r] # 0 /\ (Left(r) \/ WentOn(r))
  BY <1>3, <1>0, GoesOnOrLeaves
<1>4. ASSUME NEW s \in {"pay", "mark", "insert", "make", "lay"}, At(r, s) PROVE step[r] > 1
  BY <1>4, <1>0, AllSteps DEF At
<1>5. CASE Pay(r)
  BY <1>3, <1>4, <1>5 DEF Pay
<1>6. CASE Mark(r)
  BY <1>3, <1>4, <1>6 DEF Mark
<1>7. CASE Insert(r)
  <2>1. CASE IsSet
    BY <1>0, <1>4, <1>7, <2>1, LeaveIsLeft DEF Insert, Replayed, Refused
  <2>2. CASE ~IsSet
    BY <1>3, <1>4, <1>7, <2>2 DEF Insert
  <2> QED  BY <2>1, <2>2
<1>8. CASE Make(r)
  BY <1>3, <1>4, <1>8 DEF Make
<1>9. CASE Lay(r)
  <2>1. CASE Unlaid(biz[r])
    BY <1>3, <1>4, <1>9, <2>1 DEF Lay
  <2>2. CASE ~Unlaid(biz[r])
    BY <1>0, <1>4, <1>9, <2>2, LeaveIsLeft DEF Lay, Refused
  <2> QED  BY <2>1, <2>2
<1>10. CASE RunDies(r)
  BY <1>10, LeaveIsLeft DEF RunDies
<1> QED  BY <1>1, <1>2, <1>5, <1>6, <1>7, <1>8, <1>9, <1>10 DEF Step

\* ... which, run by run, is this.
LEMMA RunsAfter ==
  ASSUME ClaimTypeOK, NEW r \in Runs, Left(r) \/ WentOn(r)
  PROVE  /\ \A q \in Runs \ {r} : step'[q] = step[q] /\ biz'[q] = biz[q] /\ read'[q] = read[q]
         /\ \/ step'[r] = 0 /\ held' = held \ {r}
            \/ /\ step'[r] = step[r] + 1 \/ (step'[r] = 3 /\ svc = "promo" /\ IsSet)
               /\ step[r] = 1 => read'[r] = worth
               /\ step[r] # 1 => read'[r] = read[r]
               /\ biz'[r] = biz[r] /\ held' = held /\ cache' = cache
BY DEF ClaimTypeOK, Left, WentOn

-----------------------------------------------------------------------------
(* The invariant, part by part. *)

\* A run computes an amount and has a bizId.
LEMMA RunIsSound ==
  ASSUME ClaimTypeOK, NEW r \in Runs
  PROVE  /\ biz[r] \in Biz /\ read[r] \in Amounts /\ Amounts \subseteq Nat /\ read[r] \in Nat
         /\ KeyOf(biz[r]) \in Biz \cup {"thing"}
         /\ RowOf(r) \in [by : Biz, amount : Amounts]
<1>1. biz[r] \in Biz /\ read[r] \in Amounts /\ Amounts \subseteq Nat
  BY DEF ClaimTypeOK, Amounts
<1> QED  BY <1>1 DEF KeyOf, RowOf

\* Nobody runs, the row is open and nothing is paid.
LEMMA TypeInit == ASSUME ClaimInit PROVE ClaimTypeOK
<1>1. (CHOOSE b \in Biz : TRUE) \in Biz /\ 0 \in Amounts /\ 1 \in Amounts
  BY ClaimAssumption DEF Amounts
<1>2. Len(Steps) \in Nat
  BY ClaimAssumption DEF ClaimInit
<1> QED  BY <1>1, <1>2 DEF ClaimInit, ClaimTypeOK

\* Every step keeps the types: a run writes its own bizId and the amount it computed.
LEMMA TypeKept == ASSUME ClaimTypeOK, [ClaimNext]_claimVars PROVE ClaimTypeOK'
<1>0. 0 \in Amounts /\ 1 \in Amounts
  BY ClaimAssumption DEF Amounts
<1>1. ASSUME NEW r \in Runs, Step(r) \/ RunDies(r) PROVE ClaimTypeOK'
  <2>1. UNCHANGED <<svc, regime, worth>> /\ (Left(r) \/ WentOn(r))
    BY <1>1, RunMoves
  <2>2. cache' \in [Biz -> {"free", "pending", "done"}] /\ biz' \in [Runs -> Biz] /\ read' \in [Runs -> Amounts]
    <3>1. cache' \in [Biz -> {"free", "pending", "done"}]
      BY <2>1 DEF ClaimTypeOK, Left, WentOn
    <3>2. biz' \in [Runs -> Biz]
      BY <2>1 DEF ClaimTypeOK, Left, WentOn
    <3>3. \E n \in Amounts : read' = [read EXCEPT ![r] = n]
      <4>1. CASE Left(r)
        BY <1>0, <4>1 DEF Left
      <4>2. CASE WentOn(r)
        <5>1. (IF step[r] = 1 THEN worth ELSE read[r]) \in Amounts
          BY DEF ClaimTypeOK
        <5> QED  BY <4>2, <5>1 DEF WentOn
      <4> QED  BY <2>1, <4>1, <4>2
    <3> QED  BY <3>1, <3>2, <3>3 DEF ClaimTypeOK
  <2>3. held' \in {{}} \cup {{q} : q \in Runs}
    <3>1. held' = held \/ held' = held \ {r}
      BY <2>1 DEF Left, WentOn
    <3>2. held = {} \/ \E q \in Runs : held = {q}
      BY DEF ClaimTypeOK
    <3>3. held' = {} \/ \E q \in Runs : held' = {q}
      BY <3>1, <3>2
    <3> QED  BY <3>3
  <2>4. step' \in [Runs -> 0..4] /\ \A q \in Runs : step'[q] <= Len(Steps)
    <3>1. Len(Steps) \in {3, 4} /\ step \in [Runs -> 0..4] /\ \A q \in Runs : step[q] <= Len(Steps)
      BY AllSteps DEF ClaimTypeOK
    <3>2. CASE Left(r)
      BY <3>1, <3>2 DEF Left
    <3>3. CASE WentOn(r)
      <4> DEFINE n == IF step[r] = 1 /\ svc = "promo" /\ IsSet THEN 3 ELSE step[r] + 1
      <4>1. n \in 0..4 /\ n <= Len(Steps)
        <5>1. step[r] \in 0..4 /\ step[r] < Len(Steps) /\ Len(Steps) \in {3, 4}
          BY <3>1, <3>3 DEF WentOn
        <5> DEFINE l == Len(Steps)
                   a == step[r]
        <5>2. n = 3 \/ n = a + 1
          OBVIOUS
        <5> HIDE DEF l, n, a
        <5>3. a \in 0..4 /\ a < l /\ l \in {3, 4}
          BY <5>1 DEF l, a
        <5>4. n \in 0..4 /\ n <= l
          BY <5>2, <5>3
        <5> QED  BY <5>4 DEF l
      <4>2. step' = [step EXCEPT ![r] = n]
        BY <3>3 DEF WentOn
      <4> HIDE DEF n
      <4> QED  BY <3>1, <4>1, <4>2
    <3> QED  BY <2>1, <3>2, <3>3
  <2>5. Steps' = Steps
    BY <2>1 DEF Steps
  <2>6. row' \in [by : Biz, amount : Amounts] \cup {Open, Gone}
    <3>1. row \in [by : Biz, amount : Amounts] \cup {Open, Gone} /\ RowOf(r) \in [by : Biz, amount : Amounts]
      BY RunIsSound DEF ClaimTypeOK
    <3>2. row' \in {row, Gone, RowOf(r)}
      BY <1>1 DEF Step, Check, CheckLate, Pay, Mark, Insert, Make, Lay, RunDies, Replayed, Refused
    <3> QED  BY <3>1, <3>2
  <2>7. paid' \subseteq [key : Biz \cup {"thing"}, amount : Amounts \ {0}]
    <3>1. CASE Pay(r)
      BY <3>1, RunIsSound DEF Pay, ClaimTypeOK
    <3>2. CASE ~Pay(r)
      <4>1. paid' = paid
        BY <1>1, <3>2 DEF Step, Check, CheckLate, Mark, Insert, Make, Lay, RunDies, Replayed, Refused
      <4> QED  BY <4>1 DEF ClaimTypeOK
    <3> QED  BY <3>1, <3>2
  <2>8. made' \in [Biz -> Nat]
    <3>1. made' = made \/ made' = [made EXCEPT ![biz[r]] = @ + 1]
      BY <1>1 DEF Step, Check, CheckLate, Pay, Mark, Insert, Make, Lay, RunDies, Replayed, Refused
    <3> QED  BY <3>1, RunIsSound DEF ClaimTypeOK
  <2> QED  BY <2>1, <2>2, <2>3, <2>4, <2>5, <2>6, <2>7, <2>8 DEF ClaimTypeOK
<1>2. ASSUME NEW r \in Runs, NEW b \in Biz, Send(r, b) PROVE ClaimTypeOK'
  <2>1. Len(Steps) \in {3, 4} /\ Steps' = Steps
    BY <1>2, AllSteps DEF Send, Steps
  <2>2. step' \in [Runs -> 0..4] /\ \A q \in Runs : step'[q] <= Len(Steps)
    <3>1. step' = [step EXCEPT ![r] = 1] /\ step \in [Runs -> 0..4] /\ \A q \in Runs : step[q] <= Len(Steps)
      BY <1>2 DEF Send, ClaimTypeOK
    <3>2. 1 <= Len(Steps)
      BY <2>1
    <3> QED  BY <3>1, <3>2
  <2>3. held' \in {{}} \cup {{q} : q \in Runs}
    BY <1>2 DEF Send, ClaimTypeOK
  <2>4. cache' \in [Biz -> {"free", "pending", "done"}] /\ biz' \in [Runs -> Biz]
    BY <1>2 DEF Send, ClaimTypeOK
  <2>5. UNCHANGED <<svc, regime, read, worth, row, paid, made>>
    BY <1>2 DEF Send
  <2> QED  BY <2>1, <2>2, <2>3, <2>4, <2>5 DEF ClaimTypeOK
<1>3. ASSUME NEW r \in Runs, LockLapses(r) PROVE ClaimTypeOK'
  BY <1>3 DEF LockLapses, ClaimTypeOK, Steps
<1>4. CASE Flip
  <2>1. Capped(worth + 1) \in Amounts
    BY ClaimAssumption DEF ClaimTypeOK, Amounts, Capped
  <2> QED  BY <1>4, <2>1 DEF Flip, ClaimTypeOK, Steps
<1>5. ASSUME NEW b \in Biz, PlaceholderLapses(b) \/ AnswerForgotten(b) PROVE ClaimTypeOK'
  BY <1>5, ZenonT(60) DEF PlaceholderLapses, AnswerForgotten, ClaimTypeOK, Steps
<1>6. CASE UNCHANGED claimVars
  BY <1>6 DEF claimVars, ClaimTypeOK, Steps
<1> QED  BY <1>1, <1>2, <1>3, <1>4, <1>5, <1>6 DEF ClaimNext

\* What happens beside the runs: time passes, or the game goes on.
Aside ==
  /\ UNCHANGED <<svc, regime, step, biz, read, row, paid, made>>
  /\ worth' = worth \/ (svc = "minigame" /\ row = Open /\ held = {})
  /\ held' = held \/ "slow" \in regime
  /\ cache' = cache \/ "stuck" \in regime \/ "forgets" \in regime

\* A step is a run's, a request's arrival, or something lapsing in Redis.
LEMMA NextIs ==
  ASSUME [ClaimNext]_claimVars
  PROVE  \/ \E r \in Runs : Step(r) \/ RunDies(r)
         \/ \E r \in Runs, b \in Biz : Send(r, b)
         \/ Aside
<1>1. ASSUME NEW r \in Runs, LockLapses(r) PROVE Aside
  BY <1>1 DEF LockLapses, Aside
<1>2. CASE Flip
  BY <1>2 DEF Flip, Aside
<1>3. ASSUME NEW b \in Biz, PlaceholderLapses(b) \/ AnswerForgotten(b) PROVE Aside
  BY <1>3 DEF PlaceholderLapses, AnswerForgotten, Aside
<1>4. CASE UNCHANGED claimVars
  BY <1>4 DEF claimVars, Aside
<1> QED  BY <1>1, <1>2, <1>3, <1>4 DEF ClaimNext

\* A run writes the row, the vouchers and what is made at its own steps only.
LEMMA RunWrites ==
  ASSUME ClaimTypeOK, NEW r \in Runs, Step(r) \/ RunDies(r)
  PROVE  /\ \/ row' = row
            \/ row' = RowOf(r) /\ (At(r, "mark") \/ (At(r, "insert") /\ ~IsSet))
            \/ row' = Gone /\ At(r, "check") /\ ~IsSet /\ step'[r] = 0
         /\ paid' = paid \/ Pay(r)
         /\ \/ made' = made
            \/ /\ made' = [made EXCEPT ![biz[r]] = @ + 1]
               /\ At(r, "make") \/ (At(r, "lay") /\ Unlaid(biz[r]))
               /\ GoOn(r)
<1>1. CheckLate(r) => step'[r] = 0
  BY DEF CheckLate, Leave, ClaimTypeOK
<1> QED  BY <1>1 DEF Step, Check, CheckLate, Pay, Mark, Insert, Make, Lay, RunDies, Replayed, Refused

\* Only the mini-game's reward has an amount of its own; elsewhere it is 1 throughout.
LEMMA OnesKept ==
  ASSUME ClaimInv, [ClaimNext]_claimVars
  PROVE  Ones'
<1> SUFFICES ASSUME svc' # "minigame"
             PROVE  (/\ worth = 1 /\ row.amount \in {0, 1} /\ \A v \in paid : v.amount = 1
                     /\ \A r \in Runs : step[r] >= 2 => read[r] = 1)'
  BY DEF Ones
<1>0. ClaimTypeOK /\ (svc = svc' => /\ worth = 1 /\ row.amount \in {0, 1} /\ \A v \in paid : v.amount = 1
                               /\ \A r \in Runs : step[r] >= 2 => read[r] = 1)
  BY DEF ClaimInv, Ones
<1>1. ASSUME NEW r \in Runs, Step(r) \/ RunDies(r)
      PROVE  (/\ worth = 1 /\ row.amount \in {0, 1} /\ \A v \in paid : v.amount = 1
              /\ \A q \in Runs : step[q] >= 2 => read[q] = 1)'
  <2>1. UNCHANGED <<svc, regime, worth>> /\ step[r] # 0 /\ (Left(r) \/ WentOn(r))
    BY <1>0, <1>1, RunMoves
  <2>2. step[r] \in Nat /\ (At(r, "check") <=> step[r] = 1)
    <3>1. step[r] \in Nat
      BY <1>0 DEF ClaimTypeOK
    <3>2. At(r, "check") <=> step[r] = 1
      BY <1>0, AllSteps
    <3> QED  BY <3>1, <3>2
  <2>3. ASSUME NEW s \in {"pay", "mark", "insert"}, At(r, s) PROVE read[r] = 1
    BY <1>0, <2>1, <2>2, <2>3 DEF At
  <2>4. row'.amount \in {0, 1}
    BY <1>0, <1>1, <2>1, <2>3, RunWrites DEF RowOf, Gone
  <2>5. \A v \in paid' : v.amount = 1
    <3>1. CASE paid' = paid
      BY <1>0, <2>1, <3>1
    <3>2. CASE Pay(r)
      BY <1>0, <2>1, <2>3, <3>2 DEF Pay
    <3> QED  BY <1>0, <1>1, <3>1, <3>2, RunWrites
  <2>6. \A q \in Runs : step'[q] >= 2 => read'[q] = 1
    BY <1>0, <2>1, <2>2, RunsAfter
  <2> QED  BY <1>0, <2>1, <2>4, <2>5, <2>6
<1>2. ASSUME NEW r \in Runs, NEW b \in Biz, Send(r, b)
      PROVE  (/\ worth = 1 /\ row.amount \in {0, 1} /\ \A v \in paid : v.amount = 1
              /\ \A q \in Runs : step[q] >= 2 => read[q] = 1)'
  BY <1>0, <1>2 DEF Send, ClaimTypeOK
<1>3. CASE Aside
  BY <1>0, <1>3 DEF Aside
<1> QED  BY <1>1, <1>2, <1>3, NextIs

\* A key on file is replayed, never posted again.
LEMMA OnePerKeyKept ==
  ASSUME ClaimInv, [ClaimNext]_claimVars
  PROVE  OnePerKey'
<1>0. ClaimTypeOK /\ OnePerKey
  BY DEF ClaimInv
<1>1. ASSUME NEW r \in Runs, Step(r) \/ RunDies(r) PROVE OnePerKey'
  <2>1. svc' = svc
    BY <1>0, <1>1, RunMoves
  <2>2. CASE paid' = paid
    BY <1>0, <2>1, <2>2 DEF OnePerKey
  <2>3. CASE Pay(r) /\ paid' # paid
    <3> DEFINE v == [key |-> KeyOf(biz[r]), amount |-> read[r]]
    <3>1. paid' = paid \cup {v} /\ ~PaidBefore(KeyOf(biz[r]))
      BY <2>3 DEF Pay
    <3>2. v.key = KeyOf(biz[r])
      OBVIOUS
    <3>3. \A w \in paid : w.key # v.key
      BY <3>1, <3>2 DEF PaidBefore
    <3>4. Service[svc].key \in {"thing", "request"}
      BY <1>0, AllSteps
    <3>5. v.key = "thing" \/ Service[svc].key = "request"
      BY <3>2, <3>4 DEF KeyOf
    <3>6. Service[svc].key = "thing" => v.key = "thing"
      BY <3>2 DEF KeyOf
    <3> HIDE DEF v
    <3>7. IsFiniteSet(paid')
      BY <1>0, <3>1, FS_AddElement DEF OnePerKey
    <3> QED  BY <1>0, <2>1, <3>1, <3>3, <3>5, <3>6, <3>7 DEF OnePerKey
  <2> QED  BY <1>0, <1>1, <2>2, <2>3, RunWrites
<1>2. ASSUME NEW r \in Runs, NEW b \in Biz, Send(r, b) PROVE OnePerKey'
  BY <1>0, <1>2 DEF Send, OnePerKey
<1>3. CASE Aside
  BY <1>0, <1>3 DEF Aside, OnePerKey
<1> QED  BY <1>1, <1>2, <1>3, NextIs

\* While no lock lapses, nobody enters beside its owner.
LEMMA AloneKept ==
  ASSUME ClaimInv, [ClaimNext]_claimVars
  PROVE  Alone'
<1>0. ClaimTypeOK /\ Alone
  BY DEF ClaimInv
<1>1. ASSUME NEW r \in Runs, Step(r) \/ RunDies(r) PROVE Alone'
  <2>1. UNCHANGED <<svc, regime>> /\ step[r] # 0 /\ (Left(r) \/ WentOn(r))
    BY <1>0, <1>1, RunMoves
  <2>2. /\ \A q \in Runs \ {r} : step'[q] = step[q]
        /\ (step'[r] = 0 /\ held' = held \ {r}) \/ held' = held
    BY <1>0, <2>1, RunsAfter
  <2>3. ASSUME Only({"forgets"}), Service[svc].locked, NEW q \in Runs, step'[q] # 0 PROVE held' = {q}
    <3>1. held = {r} /\ \A p \in Runs : step[p] # 0 => held = {p}
      BY <1>0, <2>1, <2>3 DEF Alone
    <3>2. \A p \in Runs \ {r} : step[p] = 0
      BY <3>1
    <3>3. q = r
      BY <2>2, <2>3, <3>2
    <3> QED  BY <2>2, <2>3, <3>1, <3>3
  <2> QED  BY <2>1, <2>3 DEF Alone, Only
<1>2. ASSUME NEW r \in Runs, NEW b \in Biz, Send(r, b) PROVE Alone'
  <2>1. ASSUME Only({"forgets"}), Service[svc].locked, NEW q \in Runs, step'[q] # 0 PROVE held' = {q}
    <3>1. held = {} /\ held' = {r} /\ step' = [step EXCEPT ![r] = 1]
      BY <1>2, <2>1 DEF Send
    <3>2. \A p \in Runs : step[p] = 0
      BY <1>0, <2>1, <3>1 DEF Alone
    <3>3. q = r
      BY <1>0, <2>1, <3>1, <3>2 DEF ClaimTypeOK
    <3> QED  BY <3>1, <3>3
  <2>2. UNCHANGED <<svc, regime>>
    BY <1>2 DEF Send
  <2> QED  BY <2>1, <2>2 DEF Alone, Only
<1>3. CASE Aside
  BY <1>0, <1>3 DEF Aside, Alone, Only
<1> QED  BY <1>1, <1>2, <1>3, NextIs

\* What is posted stays posted.
LEMMA PostedStays ==
  ASSUME ClaimTypeOK, NEW r \in Runs, Step(r) \/ RunDies(r)
  PROVE  paid \subseteq paid' /\ \A k : PaidBefore(k) => PaidBefore(k)'
<1>1. paid \subseteq paid'
  BY DEF Step, Check, CheckLate, Pay, Mark, Insert, Make, Lay, RunDies, Replayed, Refused
<1> QED  BY <1>1 DEF PaidBefore

\* Whoever gets past "pay" with an amount has a voucher.
LEMMA PayPosts ==
  ASSUME ClaimTypeOK, NEW r \in Runs, Pay(r), read[r] > 0
  PROVE  \E w \in paid' : w.key = KeyOf(biz[r])
<1> DEFINE k == KeyOf(biz[r])
           v == [key |-> k, amount |-> read[r]]
<1>1. v.key = k
  OBVIOUS
<1>2. CASE PaidBefore(k)
  BY <1>2 DEF Pay, PaidBefore
<1>3. CASE ~PaidBefore(k)
  <2>1. v \in paid'
    BY <1>3 DEF Pay
  <2> QED  BY <1>1, <2>1
<1> QED  BY <1>2, <1>3

\* Who marks first and does not die pays next.
LEMMA OwedKept ==
  ASSUME ClaimInv, [ClaimNext]_claimVars
  PROVE  Owed'
<1> SUFFICES ASSUME svc' \in MarksFirst, "dies" \notin regime', Real'
             PROVE  paid' # {} \/ \E r \in Runs : step'[r] = 3
  BY DEF Owed
<1>0. ClaimTypeOK /\ Owed /\ Ones
  BY DEF ClaimInv
<1>1. ASSUME NEW r \in Runs, Step(r) \/ RunDies(r)
      PROVE  paid' # {} \/ \E q \in Runs : step'[q] = 3
  <2>1. UNCHANGED <<svc, regime>> /\ step[r] # 0 /\ (Left(r) \/ WentOn(r))
    BY <1>0, <1>1, RunMoves
  <2>2. svc \in MarksFirst /\ "dies" \notin regime /\ Step(r)
    BY <1>1, <2>1 DEF RunDies
  <2>3. /\ Len(Steps) = 3 /\ (At(r, "mark") \/ At(r, "insert") <=> step[r] = 2)
        /\ (At(r, "check") <=> step[r] = 1) /\ (At(r, "pay") <=> step[r] = 3)
    BY <1>0, <2>2, StepsOfMarksFirst
  <2>4. CASE step[r] = 3
    <3>1. Pay(r)
      BY <2>2, <2>3, <2>4 DEF Step, Check, CheckLate, Mark, Insert, Make, Lay, At
    <3>2. read[r] = 1
      BY <1>0, <2>2, <2>4 DEF Ones, MarksFirst
    <3>3. \E w \in paid' : w.key = KeyOf(biz[r])
      BY <1>0, <3>1, <3>2, PayPosts
    <3> QED  BY <3>3
  <2>5. CASE step[r] # 3 /\ row' = row
    <3>1. Real
      BY <2>5 DEF Real, Open, Gone
    <3>2. paid # {} \/ \E q \in Runs \ {r} : step[q] = 3
      BY <1>0, <2>2, <2>5, <3>1 DEF Owed
    <3>3. paid \subseteq paid'
      BY <1>1 DEF Step, Check, CheckLate, Pay, Mark, Insert, Make, Lay, RunDies, Replayed, Refused
    <3> QED  BY <1>0, <2>1, <3>2, <3>3, RunsAfter
  <2>6. CASE step[r] # 3 /\ row' # row
    <3>1. At(r, "mark") \/ (At(r, "insert") /\ ~IsSet)
      <4>1. row' # Gone
        BY DEF Real
      <4> QED  BY <1>0, <1>1, <2>6, <4>1, RunWrites
    <3>2. step[r] = 2
      BY <2>3, <3>1
    <3>3. GoOn(r)
      BY <2>2, <2>3, <3>1, <3>2 DEF Step, Check, CheckLate, Pay, Mark, Insert, Make, Lay, At
    <3>4. step' = [step EXCEPT ![r] = @ + 1]
      BY <2>3, <3>2, <3>3 DEF GoOn
    <3> QED  BY <1>0, <3>2, <3>4 DEF ClaimTypeOK
  <2> QED  BY <2>4, <2>5, <2>6
<1>2. ASSUME NEW r \in Runs, NEW b \in Biz, Send(r, b)
      PROVE  paid' # {} \/ \E q \in Runs : step'[q] = 3
  <2>1. paid # {} \/ \E q \in Runs : step[q] = 3
    BY <1>0, <1>2 DEF Owed, Send, Real, Open, Gone
  <2> QED  BY <1>0, <1>2, <2>1 DEF Send, ClaimTypeOK
<1>3. CASE Aside
  BY <1>0, <1>3 DEF Aside, Owed, Real, Open, Gone
<1> QED  BY <1>1, <1>2, <1>3, NextIs

\* A run passes its payment only with its voucher on file.
LEMMA PaidForKept ==
  ASSUME ClaimInv, [ClaimNext]_claimVars
  PROVE  PaidFor'
<1> SUFFICES ASSUME svc' \in PaysFirst \cup Repeats
             PROVE  (/\ \A r \in Runs : step[r] >= 3 /\ read[r] > 0 => PaidBefore(KeyOf(biz[r]))
                     /\ Real => paid # {})'
  BY DEF PaidFor
<1>0. /\ ClaimTypeOK
      /\ svc = svc' => /\ \A r \in Runs : step[r] >= 3 /\ read[r] > 0 => PaidBefore(KeyOf(biz[r]))
                       /\ Real => paid # {}
  BY DEF ClaimInv, PaidFor
<1>1. ASSUME NEW r \in Runs, Step(r) \/ RunDies(r)
      PROVE  (/\ \A q \in Runs : step[q] >= 3 /\ read[q] > 0 => PaidBefore(KeyOf(biz[q]))
              /\ Real => paid # {})'
  <2>1. UNCHANGED <<svc, regime>> /\ step[r] # 0 /\ (Left(r) \/ WentOn(r))
    BY <1>0, <1>1, RunMoves
  <2>2. /\ svc # "promo" /\ (At(r, "check") <=> step[r] = 1) /\ (At(r, "pay") <=> step[r] = 2)
        /\ (At(r, "mark") => step[r] = 3) /\ ~At(r, "insert") /\ step[r] \in 0..4
    <3>1. step[r] \in 0..4
      BY <1>0 DEF ClaimTypeOK
    <3>2. CASE svc \in PaysFirst
      BY <1>0, <3>1, <3>2, StepsOfPaysFirst DEF PaysFirst
    <3>3. CASE svc \in Repeats
      BY <1>0, <3>1, <3>3, StepsOfRepeats DEF Repeats
    <3> QED  BY <2>1, <3>2, <3>3
  <2>3. paid \subseteq paid' /\ \A k : PaidBefore(k) => PaidBefore(k)'
    BY <1>0, <1>1, PostedStays
  <2>4. \A k : KeyOf(k)' = KeyOf(k)
    BY <2>1 DEF KeyOf
  <2>5. ASSUME NEW q \in Runs, step'[q] >= 3, read'[q] > 0
        PROVE  \E w \in paid' : w.key = KeyOf(biz'[q])
    <3>1. CASE q # r \/ step[r] # 2
      <4>1. step[q] >= 3 /\ read[q] > 0 /\ biz'[q] = biz[q]
        BY <1>0, <2>1, <2>2, <2>5, <3>1, RunsAfter
      <4>2. PaidBefore(KeyOf(biz[q]))
        BY <1>0, <2>1, <4>1
      <4> QED  BY <2>3, <4>1, <4>2 DEF PaidBefore
    <3>2. CASE q = r /\ step[r] = 2
      <4>1. read[r] > 0 /\ biz'[r] = biz[r] /\ step'[r] # 0
        BY <1>0, <2>1, <2>2, <2>5, <3>2, RunsAfter
      <4>2. Pay(r)
        <5>1. ~RunDies(r)
          BY <1>0, <4>1 DEF RunDies, Leave, ClaimTypeOK
        <5>2. At(r, "pay") /\ ~At(r, "check") /\ ~At(r, "mark")
          BY <2>2, <3>2
        <5>3. ~At(r, "make") /\ ~At(r, "lay")
          BY <5>2 DEF At
        <5> QED  BY <1>1, <2>2, <5>1, <5>2, <5>3 DEF Step, Check, CheckLate, Mark, Insert, Make, Lay
      <4> QED  BY <1>0, <3>2, <4>1, <4>2, PayPosts
    <3> QED  BY <3>1, <3>2
  <2>6. ASSUME Real' PROVE paid' # {}
    <3>1. row' # Gone
      BY <2>6 DEF Real
    <3>2. CASE row' = row
      BY <1>0, <2>1, <2>3, <2>6, <3>2 DEF Real, Open, Gone
    <3>3. CASE row' = RowOf(r) /\ At(r, "mark")
      <4>1. step[r] >= 3 /\ read[r] > 0
        BY <2>2, <2>6, <3>3 DEF Real, RowOf
      <4> QED  BY <1>0, <2>1, <2>3, <4>1 DEF PaidBefore
    <3> QED  BY <1>0, <1>1, <2>2, <3>1, <3>2, <3>3, RunWrites
  <2>7. \A q \in Runs : (step[q] >= 3 /\ read[q] > 0 => PaidBefore(KeyOf(biz[q])))'
    <3>1. \A q \in Runs : KeyOf(biz[q])' = KeyOf(biz'[q])
      BY <2>1 DEF KeyOf
    <3> QED  BY <2>5, <3>1 DEF PaidBefore
  <2> QED  BY <2>6, <2>7
<1>2. ASSUME NEW r \in Runs, NEW b \in Biz, Send(r, b)
      PROVE  (/\ \A q \in Runs : step[q] >= 3 /\ read[q] > 0 => PaidBefore(KeyOf(biz[q]))
              /\ Real => paid # {})'
  <2>1. UNCHANGED <<svc, row, paid, read>>
    BY <1>2 DEF Send
  <2>2. \A q \in Runs : step'[q] >= 3 => step'[q] = step[q] /\ biz'[q] = biz[q]
    BY <1>0, <1>2 DEF Send, ClaimTypeOK
  <2> QED  BY <1>0, <2>1, <2>2 DEF Real, Open, Gone, KeyOf, PaidBefore
<1>3. CASE Aside
  BY <1>0, <1>3 DEF Aside, Real, Open, Gone, KeyOf, PaidBefore
<1> QED  BY <1>1, <1>2, <1>3, NextIs

\* Nothing changes the service or the regime.
LEMMA ServiceStays ==
  ASSUME ClaimTypeOK, [ClaimNext]_claimVars
  PROVE  svc' = svc /\ regime' = regime
<1>1. ASSUME NEW r \in Runs, Step(r) \/ RunDies(r) PROVE svc' = svc /\ regime' = regime
  BY <1>1, RunMoves
<1>2. ASSUME NEW r \in Runs, NEW b \in Biz, Send(r, b) PROVE svc' = svc /\ regime' = regime
  BY <1>2 DEF Send
<1>3. Aside => svc' = svc /\ regime' = regime
  BY DEF Aside
<1> QED  BY <1>1, <1>2, <1>3, NextIs

\* Alone, a run that pays first meets an open row, and marks it with what it paid.
LEMMA PaidAloneKept ==
  ASSUME ClaimInv, [ClaimNext]_claimVars
  PROVE  PaidAlone'
<1>0. ClaimTypeOK /\ svc' = svc /\ regime' = regime
  BY ServiceStays DEF ClaimInv
<1> SUFFICES ASSUME svc \in PaysFirst, Only({"forgets"}) PROVE FirstPaid'
  BY <1>0 DEF PaidAlone, Only
<1>00. FirstPaid /\ \A r \in Runs : step[r] # 0 => held = {r}
  <2>1. Service[svc].locked
    <3>1. svc \in {"minigame", "event"} \/ svc \in {"clinic", "offline"} \/ svc \in {"cure", "unlock"} \/ svc = "breed"
      BY DEF PaysFirst
    <3> QED  BY <3>1, TheServices DEF ShapeOf
  <2> QED  BY <2>1 DEF ClaimInv, PaidAlone, Alone
<1>1. ASSUME NEW r \in Runs, Step(r) \/ RunDies(r) PROVE FirstPaid'
  <2>1. UNCHANGED <<svc, regime>> /\ step[r] # 0 /\ (Left(r) \/ WentOn(r))
    BY <1>0, <1>1, RunMoves
  <2>2. \A q \in Runs \ {r} : step[q] = 0 /\ step'[q] = 0
    <3>1. \A q \in Runs \ {r} : step[q] = 0
      BY <1>00, <2>1
    <3> QED  BY <1>0, <2>1, <3>1, RunsAfter
  <2>3. /\ Len(Steps) = IF svc = "breed" THEN 4 ELSE 3
        /\ Service[svc].again \notin {"replay", "resume", "free"}
        /\ At(r, "check") <=> step[r] = 1
        /\ At(r, "pay") <=> step[r] = 2
        /\ At(r, "mark") <=> step[r] = 3
        /\ At(r, "lay") <=> step[r] = 4
        /\ ~At(r, "make") /\ ~At(r, "insert")
        /\ step[r] = 4 => svc = "breed"
    BY <1>0, StepsOfPaysFirst
  <2>4. step[r] \in 1..4 /\ Step(r)
    BY <1>0, <1>1, <2>1 DEF RunDies, Only, ClaimTypeOK
  <2>5. step'[r] = 0 \/ (step'[r] = step[r] + 1 /\ (step[r] # 1 => read'[r] = read[r]))
    BY <1>0, <2>1, <2>3, RunsAfter DEF PaysFirst
  <2>6. CASE step[r] = 1
    <3>1. Check(r) \/ CheckLate(r)
      BY <2>3, <2>4, <2>6 DEF Step, Pay, Mark, Insert, Make, Lay
    <3>2. paid' = paid /\ (row' = row \/ row' = Gone)
      BY <3>1 DEF Check, CheckLate, Replayed, Refused
    <3>3. row' = Gone => Gone # Open /\ ~Real'
      BY DEF Real, Gone, Open
    <3>4. paid # {} => row # Open
      BY <1>00, <2>2, <2>6 DEF FirstPaid
    <3>5. Real' => \E v \in paid' : v.amount = row'.amount
      BY <1>00, <3>2, <3>3 DEF FirstPaid, Real, Open, Gone
    <3>6. CASE step'[r] = 0
      <4>1. \A q \in Runs : step'[q] = 0
        BY <2>2, <3>6
      <4> QED  BY <1>00, <3>2, <3>3, <3>4, <3>5, <4>1 DEF FirstPaid
    <3>7. CASE step'[r] # 0
      <4>1. step'[r] = 2
        BY <2>5, <2>6, <3>7
      <4>2. row = Open /\ row' = row
        <5>1. ~CheckLate(r)
          BY <1>0, <3>7 DEF CheckLate, Leave, ClaimTypeOK
        <5>2. ~Replayed(r) /\ ~Refused(r)
          BY <1>0, <3>7 DEF Replayed, Refused, Leave, ClaimTypeOK
        <5> QED  BY <2>3, <3>1, <5>1, <5>2 DEF Check, IsSet
      <4>3. \A q \in Runs : step'[q] \in {0, 2}
        BY <2>2, <4>1
      <4> QED  BY <1>00, <3>2, <3>4, <3>5, <4>2, <4>3 DEF FirstPaid
    <3> QED  BY <3>6, <3>7
  <2>7. CASE step[r] = 2
    <3>1. Pay(r) /\ row' = row /\ row = Open /\ paid = {}
      <4>1. Pay(r)
        BY <2>3, <2>4, <2>7 DEF Step, Check, CheckLate, Mark, Insert, Make, Lay
      <4>2. row = Open /\ paid = {}
        BY <1>00, <2>2, <2>7 DEF FirstPaid
      <4> QED  BY <4>1, <4>2 DEF Pay
    <3> DEFINE v == [key |-> KeyOf(biz[r]), amount |-> read[r]]
    <3>2. paid' = IF read[r] = 0 THEN {} ELSE {v}
      BY <3>1 DEF Pay, PaidBefore
    <3>3. step'[r] = 3 /\ read'[r] = read[r]
      <4>1. step' = [step EXCEPT ![r] = @ + 1] /\ read' = read
        BY <2>3, <2>7, <3>1 DEF Pay, GoOn
      <4> QED  BY <1>0, <2>7, <4>1 DEF ClaimTypeOK
    <3>4. \A q \in Runs : step'[q] = 0 \/ q = r
      BY <2>2
    <3>5. ~Real'
      BY <3>1 DEF Real
    <3>6. v.amount = read[r]
      OBVIOUS
    <3> HIDE DEF v
    <3>7. read[r] > 0 => \E w \in paid' : w.amount = read'[r]
      BY <3>2, <3>3, <3>6
    <3> QED  BY <3>1, <3>2, <3>3, <3>4, <3>5, <3>7 DEF FirstPaid
  <2>8. CASE step[r] = 3
    <3>1. Mark(r)
      BY <2>3, <2>4, <2>8 DEF Step, Check, CheckLate, Pay, Insert, Make, Lay
    <3>2. paid' = paid /\ row' = RowOf(r)
      BY <3>1 DEF Mark
    <3>3. row' # Open
      BY <1>0, <3>2, RunIsSound, ClaimAssumption DEF RowOf, Open
    <3>4. step'[r] \in {0, 4} /\ (step'[r] = 4 => read'[r] = read[r])
      BY <2>5, <2>8
    <3>5. read[r] > 0 => \E v \in paid : v.amount = read[r]
      BY <1>00, <2>8 DEF FirstPaid
    <3>6. Real' => \E v \in paid' : v.amount = row'.amount
      BY <3>2, <3>5 DEF Real, RowOf
    <3>7. \A q \in Runs : step'[q] = 0 \/ (q = r /\ step'[q] = 4 /\ read'[q] = read[r])
      BY <2>2, <3>4
    <3> QED  BY <1>00, <3>2, <3>3, <3>5, <3>6, <3>7 DEF FirstPaid
  <2>9. CASE step[r] = 4
    <3>1. Lay(r)
      BY <2>3, <2>4, <2>9 DEF Step, Check, CheckLate, Pay, Mark, Insert, Make
    <3>2. paid' = paid /\ row' = row
      BY <3>1 DEF Lay, Refused
    <3>3. row # Open
      BY <1>00, <2>9 DEF FirstPaid
    <3>4. step'[r] = 0
      BY <1>0, <2>3, <2>9, <3>1 DEF Lay, Refused, GoOn, Leave, ClaimTypeOK
    <3>5. \A q \in Runs : step'[q] = 0
      BY <2>2, <3>4
    <3>6. Real' => Real
      BY <3>2 DEF Real, Open, Gone
    <3> QED  BY <1>00, <3>2, <3>3, <3>5, <3>6 DEF FirstPaid
  <2> QED  BY <2>4, <2>6, <2>7, <2>8, <2>9
<1>2. ASSUME NEW r \in Runs, NEW b \in Biz, Send(r, b) PROVE FirstPaid'
  <2>1. UNCHANGED <<row, paid, read>>
    BY <1>2 DEF Send
  <2>2. step[r] = 0 /\ step'[r] = 1 /\ \A q \in Runs \ {r} : step'[q] = step[q]
    BY <1>0, <1>2 DEF Send, ClaimTypeOK
  <2>3. Real' => Real
    BY <2>1 DEF Real, Open, Gone
  <2> QED  BY <1>00, <2>1, <2>2, <2>3 DEF FirstPaid
<1>3. CASE Aside
  <2>1. UNCHANGED <<row, paid, read, step>>
    BY <1>3 DEF Aside
  <2>2. Real' => Real
    BY <2>1 DEF Real, Open, Gone
  <2> QED  BY <1>00, <2>1, <2>2 DEF FirstPaid
<1> QED  BY <1>1, <1>2, <1>3, NextIs

\* Alone, a run makes the pet on an open egg, and marks the egg before it leaves.
LEMMA HatchedOnceKept ==
  ASSUME ClaimInv, [ClaimNext]_claimVars
  PROVE  HatchedOnce'
<1>0. ClaimTypeOK /\ svc' = svc /\ regime' = regime
  BY ServiceStays DEF ClaimInv
<1> SUFFICES ASSUME svc = "hatch", Only({"forgets"}) PROVE OneHatched'
  BY <1>0 DEF HatchedOnce, Only
<1>00. OneHatched /\ \A r \in Runs : step[r] # 0 => held = {r}
  BY TheServices DEF ClaimInv, HatchedOnce, Alone, ShapeOf
<1>1. ASSUME NEW r \in Runs, Step(r) \/ RunDies(r) PROVE OneHatched'
  <2>1. UNCHANGED <<svc, regime>> /\ step[r] # 0 /\ (Left(r) \/ WentOn(r))
    BY <1>0, <1>1, RunMoves
  <2>2. \A q \in Runs \ {r} : step[q] = 0 /\ step'[q] = 0
    <3>1. \A q \in Runs \ {r} : step[q] = 0
      BY <1>00, <2>1
    <3> QED  BY <1>0, <2>1, <3>1, RunsAfter
  <2>3. /\ Len(Steps) = 3 /\ Service[svc].again = "replay"
        /\ At(r, "check") <=> step[r] = 1
        /\ At(r, "make") <=> step[r] = 2
        /\ At(r, "mark") <=> step[r] = 3
        /\ ~At(r, "pay") /\ ~At(r, "insert") /\ ~At(r, "lay")
    BY <1>0, StepsOfHatch
  <2>4. step[r] \in 1..3 /\ Step(r)
    BY <1>0, <1>1, <2>1, <2>3 DEF RunDies, Only, ClaimTypeOK
  <2>5. CASE step[r] = 1
    <3>1. Check(r)
      BY <2>3, <2>4, <2>5 DEF Step, CheckLate, Pay, Mark, Insert, Make, Lay
    <3>2. made' = made /\ row' = row
      BY <3>1 DEF Check, Replayed, Refused
    <3>3. step'[r] = 0 \/ (step'[r] = 2 /\ row = Open)
      BY <1>0, <2>3, <3>1 DEF Check, Answered, IsSet, Replayed, Leave, ClaimTypeOK
    <3>4. \A q \in Runs : step'[q] # 3 /\ step[q] # 3 /\ (step'[q] = 2 => row = Open)
      BY <2>2, <2>5, <3>3
    <3> QED  BY <1>00, <3>2, <3>4 DEF OneHatched
  <2>6. CASE step[r] = 2
    <3>1. Make(r)
      BY <2>3, <2>4, <2>6 DEF Step, Check, CheckLate, Pay, Mark, Insert, Lay
    <3>2. made' = [made EXCEPT ![biz[r]] = @ + 1] /\ row' = row
      BY <3>1 DEF Make
    <3>3. step'[r] = 3
      BY <1>0, <2>3, <2>6, <3>1 DEF Make, GoOn, ClaimTypeOK
    <3>4. row = Open /\ \A q \in Runs : step[q] # 3
      BY <1>00, <2>2, <2>6 DEF OneHatched
    <3>5. Sum(made, Biz) = 0
      BY <1>00, <3>4 DEF OneHatched
    <3>6. Sum(made', Biz) = Sum(made, Biz) + 1
      <4>1. biz[r] \in Biz /\ IsFiniteSet(Biz)
        BY <1>0, RunIsSound, ClaimAssumption
      <4>2. \A b \in Biz : made[b] \in Int /\ made'[b] \in Int
        BY <1>0, <3>2, <4>1 DEF ClaimTypeOK
      <4>3. \A b \in Biz \ {biz[r]} : made[b] = made'[b]
        BY <1>0, <3>2, <4>1 DEF ClaimTypeOK
      <4>4. made'[biz[r]] = made[biz[r]] + 1
        BY <1>0, <3>2, <4>1 DEF ClaimTypeOK
      <4>5. Sum(made', Biz) = Sum(made, Biz) + (made'[biz[r]] - made[biz[r]])
        <5>1. ASSUME NEW f, f = made, NEW g, g = made', NEW x \in Biz, x = biz[r]
              PROVE  Sum(g, Biz) = Sum(f, Biz) + (g[x] - f[x])
          <6>1. \A b \in Biz : f[b] \in Int /\ g[b] \in Int
            BY <4>2, <5>1
          <6>2. \A b \in Biz \ {x} : f[b] = g[b]
            BY <4>3, <5>1
          <6>3. IsFiniteSet(Biz)
            BY <4>1
          <6> QED  BY <6>1, <6>2, <6>3, SumChange
        <5> QED  BY <4>1, <5>1
      <4>6. made'[biz[r]] - made[biz[r]] = 1
        BY <4>1, <4>2, <4>4
      <4> QED  BY <4>5, <4>6
    <3>7. Sum(made', Biz) = 1
      BY <3>5, <3>6
    <3> QED  BY <3>2, <3>3, <3>4, <3>7 DEF OneHatched
  <2>7. CASE step[r] = 3
    <3>1. Mark(r)
      BY <2>3, <2>4, <2>7 DEF Step, Check, CheckLate, Pay, Insert, Make, Lay
    <3>2. made' = made /\ row' = RowOf(r)
      BY <3>1 DEF Mark
    <3>3. row' # Open
      BY <1>0, <3>2, RunIsSound, ClaimAssumption DEF RowOf, Open
    <3>4. step'[r] = 0
      BY <1>0, <2>3, <2>7, <3>1 DEF Mark, GoOn, Leave, ClaimTypeOK
    <3>5. \A q \in Runs : step'[q] = 0
      BY <2>2, <3>4
    <3>6. Sum(made, Biz) = 1
      BY <1>00, <2>7 DEF OneHatched
    <3> QED  BY <3>2, <3>3, <3>5, <3>6 DEF OneHatched
  <2> QED  BY <2>4, <2>5, <2>6, <2>7
<1>2. ASSUME NEW r \in Runs, NEW b \in Biz, Send(r, b) PROVE OneHatched'
  <2>1. UNCHANGED <<row, made>>
    BY <1>2 DEF Send
  <2>2. step[r] = 0 /\ step'[r] = 1 /\ \A q \in Runs \ {r} : step'[q] = step[q]
    BY <1>0, <1>2 DEF Send, ClaimTypeOK
  <2>3. (\E q \in Runs : step'[q] = 3) <=> (\E q \in Runs : step[q] = 3)
    BY <2>2
  <2> QED  BY <1>00, <2>1, <2>2, <2>3 DEF OneHatched
<1>3. CASE Aside
  BY <1>00, <1>3 DEF Aside, OneHatched
<1> QED  BY <1>1, <1>2, <1>3, NextIs

\* While nothing but locks lapses, a bizId that has not been answered made nothing.
LEMMA SentOnceKept ==
  ASSUME ClaimInv, [ClaimNext]_claimVars
  PROVE  SentOnce'
<1>0. ClaimTypeOK /\ svc' = svc /\ regime' = regime
  BY ServiceStays DEF ClaimInv
<1> SUFFICES ASSUME svc \in Repeats, Only({"slow"}) PROVE EachOnce'
  BY <1>0 DEF SentOnce, Only
<1>00. EachOnce
  BY DEF ClaimInv, SentOnce
<1>1. ASSUME NEW r \in Runs, Step(r) \/ RunDies(r) PROVE EachOnce'
  <2>1. UNCHANGED <<svc, regime>> /\ step[r] # 0 /\ (Left(r) \/ WentOn(r))
    BY <1>0, <1>1, RunMoves
  <2>2. /\ \A q \in Runs \ {r} : step'[q] = step[q] /\ biz'[q] = biz[q]
        /\ step'[r] = 0 \/ (biz'[r] = biz[r] /\ cache' = cache)
    BY <1>0, <2>1, RunsAfter
  <2>3. /\ Len(Steps) = 3 /\ Service[svc].again = "free"
        /\ At(r, "check") <=> step[r] = 1
        /\ At(r, "pay") <=> step[r] = 2
        /\ At(r, "make") <=> step[r] = 3
        /\ ~At(r, "mark") /\ ~At(r, "insert") /\ ~At(r, "lay")
    BY <1>0, StepsOfRepeats
  <2>4. step[r] \in 1..3 /\ Step(r) /\ biz[r] \in Biz
    BY <1>0, <1>1, <2>1, <2>3 DEF RunDies, Only, ClaimTypeOK
  <2>5. CASE step[r] \in {1, 2}
    <3>1. Check(r) \/ Pay(r)
      <4>1. ~CheckLate(r)
        BY DEF CheckLate, Repeats
      <4> QED  BY <2>3, <2>4, <2>5, <4>1 DEF Step, Mark, Insert, Make, Lay
    <3>2. row' = row /\ made' = made
      BY <3>1 DEF Check, Pay, Replayed, Refused
    <3>3. cache' = cache /\ biz' = biz
      <4>1. ~IsSet /\ ~Answered(biz[r])
        BY <1>00, <2>3 DEF EachOnce, IsSet, Answered
      <4>2. CASE Check(r)
        BY <4>1, <4>2 DEF Check
      <4>3. CASE Pay(r)
        <5>1. step[r] # Len(Steps)
          BY <2>3, <2>5
        <5> QED  BY <4>3, <5>1 DEF Pay, GoOn
      <4> QED  BY <3>1, <4>2, <4>3
    <3>4. \A q \in Runs : step'[q] # 0 => step[q] # 0
      BY <2>1, <2>2
    <3> QED  BY <1>00, <3>2, <3>3, <3>4 DEF EachOnce
  <2>6. CASE step[r] = 3
    <3>1. Make(r)
      BY <2>3, <2>4, <2>6 DEF Step, Check, CheckLate, Pay, Mark, Insert, Lay
    <3>2. row' = row /\ made' = [made EXCEPT ![biz[r]] = @ + 1] /\ Leave(r, "done")
      BY <2>3, <2>6, <3>1 DEF Make, GoOn
    <3>3. step'[r] = 0 /\ cache' = [cache EXCEPT ![biz[r]] = "done"]
      BY <1>0, <3>2 DEF Leave, ClaimTypeOK
    <3>4. \A b \in Biz \ {biz[r]} : cache'[b] = cache[b] /\ made'[b] = made[b]
      BY <1>0, <3>2, <3>3 DEF ClaimTypeOK
    <3>5. cache'[biz[r]] = "done"
      BY <1>0, <2>4, <3>3 DEF ClaimTypeOK
    <3>6. \A q \in Runs : step'[q] # 0 => q # r /\ step[q] # 0 /\ biz'[q] = biz[q] /\ biz[q] \in Biz \ {biz[r]}
      <4>1. \A q \in Runs : biz[q] \in Biz
        BY <1>0 DEF ClaimTypeOK
      <4> QED  BY <1>00, <2>1, <2>2, <3>3, <4>1 DEF EachOnce
    <3>7. \A q \in Runs : step'[q] # 0 => cache'[biz'[q]] = "pending"
      BY <1>00, <3>4, <3>6 DEF EachOnce
    <3>8. \A p, q \in Runs : p # q /\ step'[p] # 0 /\ step'[q] # 0 => biz'[p] # biz'[q]
      BY <1>00, <3>6 DEF EachOnce
    <3>9. \A b \in Biz : cache'[b] # "done" => made'[b] = 0
      BY <1>00, <3>4, <3>5 DEF EachOnce
    <3> QED  BY <1>00, <3>2, <3>7, <3>8, <3>9 DEF EachOnce
  <2> QED  BY <2>4, <2>5, <2>6
<1>2. ASSUME NEW r \in Runs, NEW b \in Biz, Send(r, b) PROVE EachOnce'
  <2>1. UNCHANGED <<row, made>> /\ cache[b] = "free" /\ step[r] = 0
    BY <1>2 DEF Send, Acquired
  <2>2. \A q \in Runs : q # r => step'[q] = step[q] /\ biz'[q] = biz[q]
    BY <1>0, <1>2 DEF Send, ClaimTypeOK
  <2>3. step'[r] = 1 /\ biz'[r] = b /\ cache'[b] = "pending" /\ \A c \in Biz : c # b => cache'[c] = cache[c]
    BY <1>0, <1>2 DEF Send, ClaimTypeOK
  <2>4. \A q \in Runs : q # r /\ step'[q] # 0 => biz[q] # b /\ biz[q] \in Biz /\ step[q] # 0
    <3>1. \A q \in Runs : biz[q] \in Biz
      BY <1>0 DEF ClaimTypeOK
    <3> QED  BY <1>00, <2>1, <2>2, <3>1 DEF EachOnce
  <2>5. \A q \in Runs : step'[q] # 0 => cache'[biz'[q]] = "pending"
    BY <1>00, <2>2, <2>3, <2>4 DEF EachOnce
  <2>6. \A p, q \in Runs : p # q /\ step'[p] # 0 /\ step'[q] # 0 => biz'[p] # biz'[q]
    BY <1>00, <2>2, <2>3, <2>4 DEF EachOnce
  <2>7. \A c \in Biz : cache'[c] # "done" => made'[c] = 0
    BY <1>00, <2>1, <2>3 DEF EachOnce
  <2> QED  BY <1>00, <2>1, <2>5, <2>6, <2>7 DEF EachOnce
<1>3. CASE Aside
  <2>1. cache' = cache
    BY <1>3 DEF Aside, Only
  <2> QED  BY <1>00, <1>3, <2>1 DEF Aside, EachOnce
<1> QED  BY <1>1, <1>2, <1>3, NextIs

\* What a request makes it makes after its voucher.
LEMMA ChargedKept ==
  ASSUME ClaimInv, [ClaimNext]_claimVars
  PROVE  Charged'
<1>0. ClaimTypeOK /\ Ones /\ PaidFor /\ svc' = svc /\ regime' = regime
  BY ServiceStays DEF ClaimInv
<1> SUFFICES ASSUME svc = "breed" \/ (svc \in Repeats /\ Only({"slow"})) PROVE MadeIsCharged'
  BY <1>0 DEF Charged, Only
<1>00. MadeIsCharged
  BY DEF ClaimInv, Charged
<1>1. ASSUME NEW r \in Runs, Step(r) \/ RunDies(r) PROVE MadeIsCharged'
  <2>1. paid \subseteq paid' /\ \A k : PaidBefore(k) => PaidBefore(k)'
    BY <1>0, <1>1, PostedStays
  <2>2. CASE made' = made
    BY <1>00, <2>1, <2>2 DEF MadeIsCharged
  <2>3. CASE made' # made
    <3>1. made' = [made EXCEPT ![biz[r]] = @ + 1] /\ (At(r, "make") \/ (At(r, "lay") /\ Unlaid(biz[r])))
      BY <1>0, <1>1, <2>3, RunWrites
    <3>2. step[r] >= 3 /\ Service[svc].key = "request" /\ svc # "minigame"
      <4>1. CASE svc = "breed"
        BY <1>0, <3>1, <4>1, StepsOfPaysFirst DEF PaysFirst
      <4>2. CASE svc \in Repeats
        BY <1>0, <3>1, <4>2, StepsOfRepeats DEF Repeats
      <4> QED  BY <4>1, <4>2
    <3>3. made[biz[r]] = 0
      <4>1. CASE svc = "breed"
        BY <1>0, <3>1, <4>1, StepsOfPaysFirst DEF PaysFirst, Unlaid
      <4>2. CASE svc \in Repeats
        <5>1. EachOnce
          BY <4>2 DEF ClaimInv, SentOnce, Repeats
        <5>2. cache[biz[r]] = "pending" /\ biz[r] \in Biz
          BY <1>0, <3>2, <5>1, RunIsSound DEF EachOnce
        <5> QED  BY <5>1, <5>2 DEF EachOnce
      <4> QED  BY <4>1, <4>2
    <3>4. PaidBefore(biz[r])
      <4>1. read[r] = 1
        <5>1. step[r] \in 0..4
          BY <1>0 DEF ClaimTypeOK
        <5>2. step[r] >= 2
          BY <3>2, <5>1
        <5> QED  BY <1>0, <3>2, <5>2 DEF Ones
      <4>2. PaidBefore(KeyOf(biz[r]))
        BY <1>0, <3>2, <4>1 DEF PaidFor, PaysFirst
      <4> QED  BY <3>2, <4>2 DEF KeyOf
    <3>5. biz[r] \in Biz
      BY <1>0, RunIsSound
    <3> DEFINE c == biz[r]
    <3>6. made'[c] = 1 /\ \A b \in Biz \ {c} : made'[b] = made[b]
      BY <1>0, <3>1, <3>3, <3>5 DEF ClaimTypeOK
    <3>7. PaidBefore(c)
      BY <3>4
    <3> HIDE DEF c
    <3>8. \A k : PaidBefore(k) => \E v \in paid' : v.key = k
      BY <2>1 DEF PaidBefore
    <3>9. ASSUME NEW b \in Biz PROVE made'[b] <= 1 /\ (made'[b] > 0 => \E v \in paid' : v.key = b)
      BY <1>00, <3>6, <3>7, <3>8 DEF MadeIsCharged
    <3> QED  BY <3>9 DEF MadeIsCharged, PaidBefore
  <2> QED  BY <2>2, <2>3
<1>2. ASSUME NEW r \in Runs, NEW b \in Biz, Send(r, b) PROVE MadeIsCharged'
  BY <1>00, <1>2 DEF Send, MadeIsCharged, PaidBefore
<1>3. CASE Aside
  BY <1>00, <1>3 DEF Aside, MadeIsCharged, PaidBefore
<1> QED  BY <1>1, <1>2, <1>3, NextIs

\* At first nothing is paid, made or marked.
LEMMA IInvInit == ASSUME ClaimInit PROVE ClaimInv
<1>1. ClaimTypeOK
  BY TypeInit
<1>2. /\ row = Open /\ paid = {} /\ made = [b \in Biz |-> 0] /\ \A r \in Runs : step[r] = 0
      /\ svc # "minigame" => worth = 1
  BY DEF ClaimInit
<1>3. Sum(made, Biz) = 0
  <2>1. IsFiniteSet(Biz)
    BY ClaimAssumption
  <2>2. \A b \in Biz : made[b] = 0
    BY <1>2
  <2> QED  BY <2>1, <2>2, SumZero
<1>4. ~Real /\ row.amount = 0
  BY <1>2 DEF Real, Open
<1>5. Ones
  BY <1>2, <1>4 DEF Ones
<1>6. OnePerKey
  BY <1>2, FS_EmptySet DEF OnePerKey
<1>7. Alone /\ Owed /\ PaidFor
  BY <1>2, <1>4 DEF Alone, Owed, PaidFor
<1>8. PaidAlone
  BY <1>2, <1>4 DEF PaidAlone, FirstPaid
<1>9. HatchedOnce
  BY <1>2, <1>3 DEF HatchedOnce, OneHatched
<1>10. SentOnce /\ Charged
  BY <1>2 DEF SentOnce, EachOnce, Charged, MadeIsCharged
<1> QED  BY <1>1, <1>5, <1>6, <1>7, <1>8, <1>9, <1>10 DEF ClaimInv

\* All parts together are inductive.
LEMMA IInvKept == ASSUME ClaimInv, [ClaimNext]_claimVars PROVE ClaimInv'
<1>1. ClaimTypeOK'
  BY TypeKept DEF ClaimInv
<1> QED  BY <1>1, OnesKept, OnePerKeyKept, AloneKept, OwedKept, PaidForKept, PaidAloneKept,
           HatchedOnceKept, SentOnceKept, ChargedKept DEF ClaimInv

\* So they hold for ever.
LEMMA ClaimHolds == ClaimSpec => []ClaimInv
<1>1. ClaimInit => ClaimInv
  BY IInvInit
<1>2. ClaimInv /\ [ClaimNext]_claimVars => ClaimInv'
  BY IInvKept
<1> QED  BY <1>1, <1>2, PTL DEF ClaimSpec

-----------------------------------------------------------------------------
(* What follows. *)

\* The variables keep their types.
THEOREM ClaimTypeCorrect == ClaimSpec => []ClaimTypeOK
<1>1. ClaimInv => ClaimTypeOK
  BY DEF ClaimInv
<1> QED  BY <1>1, ClaimHolds, PTL

\* At most one voucher for what can be had once.
LEMMA OneVoucher == ASSUME ClaimInv PROVE PaidOnce
<1> SUFFICES ASSUME svc \notin Repeats, Service[svc].key = "thing" \/ Only({"forgets"})
             PROVE  Cardinality(paid) <= 1
  BY DEF PaidOnce, Repeats
<1>0. ClaimTypeOK /\ OnePerKey
  BY DEF ClaimInv
<1>1. \A v, w \in paid : v = w
  <2>1. CASE Service[svc].key = "thing"
    BY <1>0, <2>1 DEF OnePerKey
  <2>2. CASE Service[svc].key # "thing"
    <3>1. svc \in PaysFirst
      <4>1. svc \notin MarksFirst
        BY <1>0, <2>2, TheServices DEF MarksFirst, ShapeOf
      <4>2. svc # "hatch"
        BY <2>2, TheServices DEF ShapeOf
      <4> QED  BY <1>0, <4>1, <4>2, NoOthers
    <3> QED  BY <2>2, <3>1 DEF ClaimInv, PaidAlone, FirstPaid
  <2> QED  BY <2>1, <2>2
<1>2. CASE paid = {}
  BY <1>2, FS_EmptySet
<1>3. CASE paid # {}
  <2>1. PICK v \in paid : TRUE
    BY <1>3
  <2>2. paid = {v}
    BY <1>1, <2>1
  <2> QED  BY <2>2, FS_Singleton
<1> QED  BY <1>2, <1>3

\* What is made, added up.
LEMMA EffectsIsSum == ASSUME ClaimTypeOK PROVE Effects = Sum(made, Biz)
BY SumOfFunction DEF Effects, ClaimTypeOK

\* One egg, one pet.
LEMMA OnePetOnly == ASSUME ClaimInv PROVE OnePet
<1>1. Effects = Sum(made, Biz)
  BY EffectsIsSum DEF ClaimInv
<1>2. svc = "hatch" /\ Only({"forgets"}) => Sum(made, Biz) = 0 \/ Sum(made, Biz) = 1
  BY DEF ClaimInv, HatchedOnce, OneHatched
<1> QED  BY <1>1, <1>2 DEF OnePet

\* What the row says was paid.
LEMMA TruthIsTold == ASSUME ClaimInv PROVE RowTellsTruth
<1>0. ClaimTypeOK
  BY DEF ClaimInv
<1>1. MarkedIsPaid
  <2> SUFFICES ASSUME svc \in MarksFirst => Idle /\ Only({"slow", "stuck", "forgets"}), svc # "hatch", Real
               PROVE  paid # {}
    BY DEF MarkedIsPaid, Real
  <2>1. CASE svc \in MarksFirst
    BY <2>1 DEF ClaimInv, Owed, Idle, Only
  <2>2. CASE svc \in PaysFirst \cup Repeats
    BY <2>2 DEF ClaimInv, PaidFor
  <2> QED  BY <1>0, <2>1, <2>2, NoOthers
<1>2. RecordedIsPaid
  <2> SUFFICES ASSUME Only({"forgets"}), Real, svc # "hatch", Idle
               PROVE  \E v \in paid : v.amount = row.amount
    BY DEF RecordedIsPaid, Real
  <2>1. CASE svc = "minigame"
    BY <2>1 DEF ClaimInv, PaidAlone, FirstPaid, PaysFirst
  <2>2. CASE svc # "minigame"
    <3>1. row.amount = 1 /\ \A v \in paid : v.amount = 1
      BY <2>2 DEF ClaimInv, Ones, Real
    <3>2. paid # {}
      BY <1>1 DEF MarkedIsPaid, Real, Only
    <3> QED  BY <3>1, <3>2
  <2> QED  BY <2>1, <2>2
<1> QED  BY <1>1, <1>2 DEF RowTellsTruth

\* What can be had once is had once, and a row that says something was given
\* tells the truth (idempotency.interceptor.ts, ledger.service.ts:331-378, and the
\* order of writes of each service): for any number of runs and requests.
THEOREM ClaimsStand == ClaimSpec => []ClaimsAreTrue
<1>1. ClaimInv => ClaimsAreTrue
  BY OneVoucher, OnePetOnly, TruthIsTold DEF ClaimsAreTrue, GrantedOnce
<1> QED  BY <1>1, ClaimHolds, PTL

\* As many vouchers as things made.
LEMMA EffectsAreCharged ==
  ASSUME ClaimTypeOK, IsFiniteSet(paid), MadeIsCharged
  PROVE  Effects <= Cardinality(paid)
<1> DEFINE K == {v.key : v \in paid}
           f == [b \in Biz |-> IF b \in K THEN 1 ELSE 0]
<1>1. IsFiniteSet(Biz)
  BY ClaimAssumption
<1>2. Sum(made, Biz) <= Sum(f, Biz)
  <2>1. \A b \in Biz : made[b] \in Int /\ f[b] \in Int /\ made[b] <= f[b]
    <3>1. \A b \in Biz : made[b] \in Nat /\ made[b] <= 1 /\ (made[b] > 0 => b \in K)
      BY DEF MadeIsCharged, PaidBefore, ClaimTypeOK
    <3> HIDE DEF K
    <3> QED  BY <3>1
  <2>2. ASSUME NEW m, m = made, NEW g, g = f PROVE Sum(m, Biz) <= Sum(g, Biz)
    <3>1. \A b \in Biz : m[b] \in Int /\ g[b] \in Int /\ m[b] <= g[b]
      BY <2>1, <2>2
    <3> QED  BY <1>1, <3>1, SumLess
  <2> HIDE DEF f
  <2> QED  BY <2>2
<1>3. IsFiniteSet(K) /\ Cardinality(K) <= Cardinality(paid)
  <2> DEFINE h == [v \in paid |-> v.key]
  <2>1. h \in Surjection(paid, K)
    BY DEF Surjection
  <2> HIDE DEF h, K
  <2> QED  BY <2>1, FS_Surjection
<1>4. Sum(f, Biz) = Cardinality(Biz \cap K)
  <2> DEFINE R == Biz \cap K
  <2>1. IsFiniteSet(R) /\ IsFiniteSet(Biz \ R)
    BY <1>1, FS_Subset
  <2>2. (\A b \in R : f[b] = 1) /\ (\A b \in Biz \ R : f[b] = 0) /\ (\A b \in Biz : f[b] \in Int)
    OBVIOUS
  <2>3. R \in SUBSET Biz
    OBVIOUS
  <2> HIDE DEF R, f, K
  <2>4. Sum(f, R) = 1 * Cardinality(R)
    BY <2>1, <2>2, SumConst
  <2>5. Sum(f, Biz \ R) = 0
    BY <2>1, <2>2, SumZero
  <2>6. Sum(f, Biz) = Sum(f, R) + Sum(f, Biz \ R)
    BY <1>1, <2>2, <2>3, SumSplit
  <2>7. Cardinality(R) \in Nat
    BY <2>1, FS_CardinalityType
  <2>8. Sum(f, Biz) = Cardinality(R)
    BY <2>4, <2>5, <2>6, <2>7
  <2> QED  BY <2>8 DEF R
<1>5. Cardinality(Biz \cap K) <= Cardinality(K)
  <2>1. Biz \cap K \in SUBSET K
    OBVIOUS
  <2> HIDE DEF K
  <2> QED  BY <1>3, <2>1, FS_Subset
<1>6. Cardinality(K) \in Nat /\ Cardinality(paid) \in Nat /\ Cardinality(Biz \cap K) \in Nat
  <2>1. IsFiniteSet(Biz \cap K)
    BY <1>1, FS_Subset
  <2> HIDE DEF K
  <2> QED  BY <1>3, <2>1, FS_CardinalityType
<1>7. Sum(made, Biz) \in Int
  <2>1. \A b \in Biz : made[b] \in Int
    BY DEF ClaimTypeOK
  <2> QED  BY <1>1, <2>1, SumInt
<1>8. Effects = Sum(made, Biz)
  BY EffectsIsSum
<1> HIDE DEF K, f
<1> QED  BY <1>2, <1>3, <1>4, <1>5, <1>6, <1>7, <1>8

\* Nothing is handed over that was not charged (breed.service.ts:91-261,
\* consumable.service.ts:100-131): an egg never, whatever dies, lapses or is
\* forgotten; an hour off or an item's effect while each request runs once.
THEOREM NothingIsFree == ClaimSpec => []NothingForFree
<1>1. ASSUME ClaimInv PROVE NothingForFree
  <2> SUFFICES ASSUME svc \in Charges, svc = "breed" \/ Only({"slow"})
               PROVE  Effects <= Cardinality(paid)
    BY DEF NothingForFree
  <2>1. MadeIsCharged
    BY <1>1 DEF ClaimInv, Charged, Charges, Repeats
  <2> QED  BY <1>1, <2>1, EffectsAreCharged DEF ClaimInv, OnePerKey
<1> QED  BY <1>1, ClaimHolds, PTL

-----------------------------------------------------------------------------
(* Coupons. *)

Underway == [at : {"look", "charge", "code"}, biz : CouponBiz, code : {0}]
            \cup [at : {"replay", "answer"}, biz : CouponBiz, code : Codes]

CouponTypes ==
  /\ coupons \in Nat /\ charged \subseteq CouponBiz /\ IsFiniteSet(charged)
  /\ code \in [Codes -> {"unused", "live", "verified", "expired"}]
  /\ replay \in [CouponBiz -> Codes \cup {0}]
  /\ shown \subseteq CouponBiz \X Codes /\ discounts \in Nat
  /\ run \in [Issuers -> {Ready} \cup Underway]

\* While no lock lapses one request runs at a time, the one that has the lock.
OneRuns == \A r \in Issuers : run[r] # Ready => busy = {r}

\* What can be answered has been charged for.
ChargedFirst ==
  /\ \A r \in Issuers : run[r].at \in {"code", "replay", "answer"} => run[r].biz \in charged
  /\ \A b \in CouponBiz : replay[b] # 0 => b \in charged
  /\ \A p \in shown : p[1] \in charged

\* A bizId is answered once, and runs no more.
AnsweredOnce ==
  /\ \A p, q \in shown : p[1] = q[1] => p = q
  /\ \A r \in Issuers : run[r] # Ready => \A p \in shown : p[1] # run[r].biz

\* The bizIds whose code was taken at the till.
Redeemed == {b \in charged : \E c \in Codes : <<b, c>> \in shown /\ code[c] = "verified"}

CouponInv ==
  /\ CouponTypes
  /\ fate \subseteq {"dies"} =>
       OneRuns /\ ChargedFirst /\ AnsweredOnce /\ discounts <= Cardinality(Redeemed)

LEMMA CouponStarts == CouponInit => CouponInv
<1> SUFFICES ASSUME CouponInit PROVE CouponInv
  OBVIOUS
<1>1. CouponTypes
  BY CouponAssumption, FS_EmptySet DEF CouponInit, CouponTypes
<1>2. OneRuns /\ ChargedFirst /\ AnsweredOnce
  BY DEF CouponInit, OneRuns, ChargedFirst, AnsweredOnce, Ready
<1>3. Redeemed = {} /\ Cardinality(Redeemed) = 0
  BY FS_EmptySet DEF CouponInit, Redeemed
<1> QED  BY <1>1, <1>2, <1>3 DEF CouponInv, CouponInit

\* Whatever is charged, shown or taken stays so: no discount is forgotten.
LEMMA RedeemedGrows ==
  ASSUME CouponTypes', charged \subseteq charged', shown \subseteq shown',
         \A c \in Codes : code[c] = "verified" => code'[c] = "verified"
  PROVE  Redeemed \subseteq Redeemed' /\ IsFiniteSet(Redeemed') /\ IsFiniteSet(Redeemed)
         /\ Cardinality(Redeemed) <= Cardinality(Redeemed')
         /\ Cardinality(Redeemed) \in Nat /\ Cardinality(Redeemed') \in Nat
<1>1. Redeemed \subseteq Redeemed'
  BY DEF Redeemed
<1>2. Redeemed' \subseteq charged'
  BY DEF Redeemed
<1>3. IsFiniteSet(Redeemed')
  BY <1>2, FS_Subset DEF CouponTypes
<1> QED  BY <1>1, <1>3, FS_Subset, FS_CardinalityType

\* What a run that is under way holds ...
LEMMA UnderwayIs ==
  ASSUME CouponTypes, NEW r \in Issuers, NEW s, s # "ready", Is(r, s)
  PROVE  /\ run[r] \in Underway /\ run[r].biz \in CouponBiz /\ run[r] # Ready
         /\ s \in {"look", "charge", "code"} => run[r].code = 0
         /\ s \in {"replay", "answer"} => run[r].code \in Codes
<1>1. run[r] \in Underway
  BY DEF CouponTypes, Is, Ready
<1>2. run[r] # Ready
  BY DEF Is, Ready
<1>3. CASE run[r] \in [at : {"look", "charge", "code"}, biz : CouponBiz, code : {0}]
  BY <1>1, <1>2, <1>3 DEF Is
<1>4. CASE run[r] \in [at : {"replay", "answer"}, biz : CouponBiz, code : Codes]
  BY <1>1, <1>2, <1>4 DEF Is
<1> QED  BY <1>1, <1>3, <1>4 DEF Underway

\* ... and a step later.
LEMMA GoesTo ==
  ASSUME CouponTypes, NEW r \in Issuers, run[r] \in Underway, NEW x, NEW c,
         run' = [run EXCEPT ![r].at = x, ![r].code = c],
         (x \in {"look", "charge", "code"} /\ c = 0) \/ (x \in {"replay", "answer"} /\ c \in Codes)
  PROVE  /\ run' \in [Issuers -> {Ready} \cup Underway]
         /\ run'[r].at = x /\ run'[r].biz = run[r].biz /\ run'[r].code = c /\ run'[r] # Ready
<1> DEFINE y == [at |-> x, biz |-> run[r].biz, code |-> c]
<1>1. y = [[run[r] EXCEPT !.at = x] EXCEPT !.code = c]
  <2>1. PICK a, b, k : run[r] = [at |-> a, biz |-> b, code |-> k]
    BY DEF Underway
  <2>2. [[[at |-> a, biz |-> b, code |-> k] EXCEPT !.at = x] EXCEPT !.code = c]
        = [at |-> x, biz |-> b, code |-> c]
    <3>1. [[at |-> a, biz |-> b, code |-> k] EXCEPT !.at = x] = [at |-> x, biz |-> b, code |-> k]
      OBVIOUS
    <3>2. [[at |-> x, biz |-> b, code |-> k] EXCEPT !.code = c] = [at |-> x, biz |-> b, code |-> c]
      OBVIOUS
    <3> QED  BY <3>1, <3>2
  <2>3. run[r].biz = b
    BY <2>1
  <2> QED  BY <2>1, <2>2, <2>3
<1>2. y \in Underway
  BY DEF Underway
<1>3. run' = [run EXCEPT ![r] = y]
  BY <1>1 DEF CouponTypes
<1>4. y # Ready
  BY DEF Ready
<1>5. run'[r] = y
  BY <1>3 DEF CouponTypes
<1> QED  BY <1>2, <1>3, <1>4, <1>5 DEF CouponTypes

LEMMA MovesTo ==
  ASSUME CouponTypes, NEW r \in Issuers, run[r] \in Underway, NEW x,
         run' = [run EXCEPT ![r].at = x],
         (x \in {"look", "charge", "code"} /\ run[r].code = 0) \/ (x \in {"replay", "answer"} /\ run[r].code \in Codes)
  PROVE  /\ run' \in [Issuers -> {Ready} \cup Underway]
         /\ run'[r].at = x /\ run'[r].biz = run[r].biz /\ run'[r].code = run[r].code /\ run'[r] # Ready
<1>1. run' = [run EXCEPT ![r].at = x, ![r].code = run[r].code]
  BY DEF CouponTypes, Underway
<1> QED  BY <1>1, GoesTo

\* The steps of one request: where it is afterwards.
LEMMA IssueTypes ==
  ASSUME CouponTypes, NEW r \in Issuers,
         (\E b \in CouponBiz : Request(r, b)) \/ Issue(r) \/ IssueDies(r)
  PROVE  CouponTypes'
<1>1. CASE \E b \in CouponBiz : Request(r, b)
  BY <1>1 DEF CouponTypes, Request, Underway
<1>2. CASE Look(r)
  <2>1. run[r] \in Underway /\ run[r].biz \in CouponBiz /\ run[r].code = 0
    BY <1>2, UnderwayIs DEF Look
  <2>2. CASE replay[run[r].biz] # 0
    <3>1. run' = [run EXCEPT ![r].at = "answer", ![r].code = replay[run[r].biz]]
          /\ replay[run[r].biz] \in Codes
      BY <1>2, <2>1, <2>2 DEF Look, CouponTypes
    <3>2. run' \in [Issuers -> {Ready} \cup Underway]
      BY <2>1, <3>1, GoesTo
    <3> QED  BY <1>2, <3>2 DEF Look, CouponTypes
  <2>3. CASE replay[run[r].biz] = 0
    <3>1. run' = [run EXCEPT ![r] = Ready] \/ run' = [run EXCEPT ![r].at = "charge"]
      BY <1>2, <2>3 DEF Look, Quit, Goto
    <3>2. run' \in [Issuers -> {Ready} \cup Underway]
      BY <2>1, <3>1, MovesTo DEF CouponTypes
    <3> QED  BY <1>2, <3>2 DEF Look, CouponTypes
  <2> QED  BY <2>2, <2>3
<1>3. CASE Charge(r)
  <2>1. run[r] \in Underway /\ run[r].biz \in CouponBiz /\ run[r].code = 0
    BY <1>3, UnderwayIs DEF Charge
  <2>2. run' = [run EXCEPT ![r] = Ready] \/ run' = [run EXCEPT ![r].at = "code"]
    BY <1>3 DEF Charge, Quit, Goto
  <2>3. run' \in [Issuers -> {Ready} \cup Underway]
    BY <2>1, <2>2, MovesTo DEF CouponTypes
  <2>4. charged' \subseteq CouponBiz /\ coupons' \in Nat
    BY <1>3, <2>1 DEF Charge, CouponTypes
  <2>5. charged' = charged \/ charged' = charged \cup {run[r].biz}
    BY <1>3 DEF Charge
  <2>6. IsFiniteSet(charged')
    BY <2>5, FS_AddElement DEF CouponTypes
  <2> QED  BY <1>3, <2>3, <2>4, <2>6 DEF Charge, CouponTypes
<1>4. CASE SetCode(r)
  <2>1. run[r] \in Underway
    BY <1>4, UnderwayIs DEF SetCode
  <2>2. PICK c \in Codes : code' = [code EXCEPT ![c] = "live"]
                         /\ run' = [run EXCEPT ![r].at = "replay", ![r].code = c]
    BY <1>4 DEF SetCode
  <2>3. run' \in [Issuers -> {Ready} \cup Underway]
    BY <2>1, <2>2, GoesTo
  <2> QED  BY <1>4, <2>2, <2>3 DEF SetCode, CouponTypes
<1>5. CASE SetReplay(r)
  <2>1. run[r] \in Underway /\ run[r].biz \in CouponBiz /\ run[r].code \in Codes
    BY <1>5, UnderwayIs DEF SetReplay
  <2>2. run' \in [Issuers -> {Ready} \cup Underway]
    BY <1>5, <2>1, MovesTo DEF SetReplay, Goto
  <2> QED  BY <1>5, <2>1, <2>2 DEF SetReplay, CouponTypes, Goto
<1>6. CASE Show(r)
  <2>1. run[r].biz \in CouponBiz /\ run[r].code \in Codes
    BY <1>6, UnderwayIs DEF Show
  <2> QED  BY <1>6, <2>1 DEF CouponTypes, Show, Quit
<1>7. CASE IssueDies(r)
  BY <1>7 DEF CouponTypes, IssueDies, Quit
<1> QED
  <2>1. Issue(r) => CouponTypes'
    BY <1>2, <1>3, <1>4, <1>5, <1>6 DEF Issue
  <2> QED  BY <1>1, <1>7, <2>1

\* What a step of r does to the lock and to the others.
LEMMA OneRunsOn ==
  ASSUME CouponTypes, OneRuns, NEW r \in Issuers, fate \subseteq {"dies"},
         (\E b \in CouponBiz : Request(r, b)) \/ Issue(r) \/ IssueDies(r)
  PROVE  /\ OneRuns'
         /\ \A q \in Issuers \ {r} : run[q] = Ready /\ run'[q] = Ready
<1>1. \A q \in Issuers \ {r} : run[q] = Ready
  <2>1. CASE \E b \in CouponBiz : Request(r, b)
    BY <2>1 DEF OneRuns, Request
  <2>2. CASE Issue(r) \/ IssueDies(r)
    <3>1. run[r] # Ready
      BY <2>2 DEF Issue, Look, Charge, SetCode, SetReplay, Show, IssueDies, Is, Ready
    <3> QED  BY <3>1 DEF OneRuns
  <2> QED  BY <2>1, <2>2
<1>2. \A q \in Issuers \ {r} : run'[q] = run[q]
  BY DEF Request, Issue, Look, Charge, SetCode, SetReplay, Show, IssueDies, Goto, Quit, CouponTypes
<1>3. run'[r] # Ready => busy' = {r}
  <2>1. CASE \E b \in CouponBiz : Request(r, b)
    BY <2>1 DEF Request
  <2>2. CASE Issue(r) \/ IssueDies(r)
    <3>1. run[r] # Ready
      BY <2>2 DEF Issue, Look, Charge, SetCode, SetReplay, Show, IssueDies, Is, Ready
    <3>2. run' = [run EXCEPT ![r] = Ready] \/ busy' = busy
      BY <2>2 DEF Issue, Look, Charge, SetCode, SetReplay, Show, IssueDies, Goto, Quit
    <3> QED  BY <3>1, <3>2 DEF OneRuns, CouponTypes
  <2> QED  BY <2>1, <2>2
<1> QED  BY <1>1, <1>2, <1>3 DEF OneRuns

\* A request that has no code to show, or one it was charged for, and one that is over.
LEMMA RunningOn ==
  ASSUME ChargedFirst, AnsweredOnce, NEW r \in Issuers,
         \A q \in Issuers \ {r} : run'[q] = Ready,
         run'[r].at \in {"code", "replay", "answer"} => run'[r].biz \in charged',
         \A p \in shown : p[1] # run'[r].biz,
         charged \subseteq charged', shown' = shown,
         \A b \in CouponBiz : replay'[b] # 0 => b \in charged'
  PROVE  ChargedFirst' /\ AnsweredOnce'
BY DEF ChargedFirst, AnsweredOnce, Ready

LEMMA RunOver ==
  ASSUME ChargedFirst, AnsweredOnce, \A q \in Issuers : run'[q] = Ready,
         charged \subseteq charged', shown' = shown, replay' = replay
  PROVE  ChargedFirst' /\ AnsweredOnce'
BY DEF ChargedFirst, AnsweredOnce, Ready

\* A request is charged for before it has a code, and is answered once.
LEMMA IssueKeeps ==
  ASSUME CouponInv, NEW r \in Issuers,
         (\E b \in CouponBiz : Request(r, b)) \/ Issue(r) \/ IssueDies(r)
  PROVE  CouponInv'
<1>1. CouponTypes /\ CouponTypes'
  BY IssueTypes DEF CouponInv
<1>2. fate' = fate /\ discounts' = discounts /\ charged \subseteq charged' /\ shown \subseteq shown'
  BY DEF Request, Issue, Look, Charge, SetCode, SetReplay, Show, IssueDies
<1> SUFFICES ASSUME fate \subseteq {"dies"}
             PROVE  OneRuns' /\ ChargedFirst' /\ AnsweredOnce' /\ discounts' <= Cardinality(Redeemed')
  BY <1>1, <1>2 DEF CouponInv
<1>3. OneRuns /\ ChargedFirst /\ AnsweredOnce /\ discounts <= Cardinality(Redeemed)
  BY DEF CouponInv
<1>4. OneRuns' /\ \A q \in Issuers \ {r} : run[q] = Ready /\ run'[q] = Ready
  BY <1>1, <1>3, OneRunsOn
<1>5. \A c \in Codes : code[c] = "verified" => code'[c] = "verified"
  BY <1>1 DEF CouponTypes, Request, Issue, Look, Charge, SetCode, SetReplay, Show, IssueDies
<1>6. ChargedFirst' /\ AnsweredOnce'
  <2>1. CASE \E b \in CouponBiz : Request(r, b)
    <3>1. PICK b \in CouponBiz : Request(r, b)
      BY <2>1
    <3>2. run'[r] = [at |-> "look", biz |-> b, code |-> 0]
      BY <1>1, <3>1 DEF Request, CouponTypes
    <3>3. \A p \in shown : p[1] # b
      <4>1. \A c \in Codes : <<b, c>> \notin shown
        BY <1>2, <3>1 DEF Request, WasShown
      <4>2. \A p \in shown : p[2] \in Codes /\ p = <<p[1], p[2]>>
        BY <1>1 DEF CouponTypes
      <4> QED  BY <4>1, <4>2
    <3>4. UNCHANGED <<charged, shown, replay>>
      BY <3>1 DEF Request
    <3>5. run'[r].at \notin {"code", "replay", "answer"} /\ run'[r].biz = b
      BY <3>2
    <3> QED  BY <1>3, <1>4, <3>3, <3>4, <3>5, RunningOn DEF ChargedFirst
  <2>2. CASE Look(r)
    <3>1. run[r] \in Underway /\ run[r].biz \in CouponBiz /\ run[r] # Ready /\ run[r].code = 0
      BY <1>1, <2>2, UnderwayIs DEF Look
    <3>2. UNCHANGED <<charged, shown, replay>>
      BY <2>2 DEF Look
    <3>3. CASE replay[run[r].biz] # 0
      <4>1. run' = [run EXCEPT ![r].at = "answer", ![r].code = replay[run[r].biz]]
            /\ replay[run[r].biz] \in Codes
        BY <1>1, <2>2, <3>1, <3>3 DEF Look, CouponTypes
      <4>2. run'[r].biz = run[r].biz
        BY <1>1, <3>1, <4>1, GoesTo
      <4> QED  BY <1>3, <1>4, <3>1, <3>2, <3>3, <4>2, RunningOn DEF ChargedFirst, AnsweredOnce
    <3>4. CASE run' = [run EXCEPT ![r].at = "charge"]
      <4>1. run'[r].at = "charge" /\ run'[r].biz = run[r].biz
        BY <1>1, <3>1, <3>4, MovesTo
      <4> QED  BY <1>3, <1>4, <3>1, <3>2, <4>1, RunningOn DEF ChargedFirst, AnsweredOnce
    <3>5. CASE run' = [run EXCEPT ![r] = Ready]
      BY <1>1, <1>3, <1>4, <3>2, <3>5, RunOver DEF CouponTypes
    <3> QED  BY <2>2, <3>3, <3>4, <3>5 DEF Look, Quit, Goto
  <2>3. CASE Charge(r)
    <3>1. run[r] \in Underway /\ run[r].biz \in CouponBiz /\ run[r] # Ready /\ run[r].code = 0
      BY <1>1, <2>3, UnderwayIs DEF Charge
    <3>2. UNCHANGED <<shown, replay>>
      BY <2>3 DEF Charge
    <3>3. CASE run' = [run EXCEPT ![r] = Ready]
      BY <1>1, <1>2, <1>3, <1>4, <3>2, <3>3, RunOver DEF CouponTypes
    <3>4. CASE run' = [run EXCEPT ![r].at = "code"] /\ run[r].biz \in charged'
      <4>1. run'[r].at = "code" /\ run'[r].biz = run[r].biz
        BY <1>1, <3>1, <3>4, MovesTo
      <4>2. \A b \in CouponBiz : replay'[b] # 0 => b \in charged'
        BY <1>2, <1>3, <3>2 DEF ChargedFirst
      <4> QED  BY <1>2, <1>3, <1>4, <3>1, <3>2, <3>4, <4>1, <4>2, RunningOn DEF AnsweredOnce
    <3> QED  BY <2>3, <3>3, <3>4 DEF Charge, Quit, Goto
  <2>4. CASE SetCode(r)
    <3>1. run[r] \in Underway /\ run[r] # Ready /\ run[r].biz \in charged
      BY <1>1, <1>3, <2>4, UnderwayIs DEF SetCode, ChargedFirst, Is
    <3>2. PICK c \in Codes : run' = [run EXCEPT ![r].at = "replay", ![r].code = c]
      BY <2>4 DEF SetCode
    <3>3. run'[r].biz = run[r].biz
      BY <1>1, <3>1, <3>2, GoesTo
    <3>4. UNCHANGED <<charged, shown, replay>>
      BY <2>4 DEF SetCode
    <3> QED  BY <1>3, <1>4, <3>1, <3>3, <3>4, RunningOn DEF ChargedFirst, AnsweredOnce
  <2>5. CASE SetReplay(r)
    <3>1. run[r] \in Underway /\ run[r] # Ready /\ run[r].biz \in charged /\ run[r].code \in Codes
      BY <1>1, <1>3, <2>5, UnderwayIs DEF SetReplay, ChargedFirst, Is
    <3>2. run'[r].biz = run[r].biz
      BY <1>1, <2>5, <3>1, MovesTo DEF SetReplay, Goto
    <3>3. UNCHANGED <<charged, shown>> /\ \A b \in CouponBiz : b # run[r].biz => replay'[b] = replay[b]
      BY <1>1, <2>5 DEF SetReplay, CouponTypes
    <3> QED  BY <1>3, <1>4, <3>1, <3>2, <3>3, RunningOn DEF ChargedFirst, AnsweredOnce
  <2>6. CASE Show(r)
    <3>1. run[r] # Ready /\ run[r].biz \in charged
      BY <1>1, <1>3, <2>6, UnderwayIs DEF Show, ChargedFirst, Is
    <3>2. \A q \in Issuers : run'[q] = Ready
      BY <1>1, <1>4, <2>6 DEF Show, Quit, CouponTypes
    <3>3. shown' = shown \cup {<<run[r].biz, run[r].code>>} /\ UNCHANGED <<charged, replay>>
      BY <2>6 DEF Show
    <3>4. \A p \in shown : p[1] # run[r].biz
      BY <1>3, <3>1 DEF AnsweredOnce
    <3>5. AnsweredOnce'
      BY <1>3, <3>2, <3>3, <3>4 DEF AnsweredOnce
    <3>6. ChargedFirst'
      BY <1>3, <3>1, <3>2, <3>3 DEF ChargedFirst, Ready
    <3> QED  BY <3>5, <3>6
  <2>7. CASE IssueDies(r)
    <3>1. \A q \in Issuers : run'[q] = Ready
      BY <1>1, <1>4, <2>7 DEF IssueDies, Quit, CouponTypes
    <3> QED  BY <1>3, <2>7, <3>1, RunOver DEF IssueDies
  <2>8. Issue(r) => ChargedFirst' /\ AnsweredOnce'
    BY <2>2, <2>3, <2>4, <2>5, <2>6 DEF Issue
  <2> QED  BY <2>1, <2>7, <2>8
<1>7. Cardinality(Redeemed) <= Cardinality(Redeemed')
      /\ Cardinality(Redeemed) \in Nat /\ Cardinality(Redeemed') \in Nat
  BY <1>1, <1>2, <1>5, RedeemedGrows
<1> QED  BY <1>1, <1>2, <1>3, <1>4, <1>6, <1>7 DEF CouponTypes

\* The till: a code that is taken was shown for a bizId that had taken none.
LEMMA VerifyKeeps == ASSUME CouponInv, NEW c \in Codes, Verify(c) PROVE CouponInv'
<1>1. /\ code' = [code EXCEPT ![c] = "verified"] /\ code[c] = "live" /\ discounts' = discounts + 1
      /\ UNCHANGED <<fate, coupons, charged, replay, shown, run, busy>>
  BY DEF Verify, Consume
<1>2. CouponTypes /\ CouponTypes'
  BY <1>1 DEF CouponInv, CouponTypes
<1> SUFFICES ASSUME fate \subseteq {"dies"}
             PROVE  OneRuns' /\ ChargedFirst' /\ AnsweredOnce' /\ discounts' <= Cardinality(Redeemed')
  BY <1>1, <1>2 DEF CouponInv
<1>3. OneRuns /\ ChargedFirst /\ AnsweredOnce /\ discounts <= Cardinality(Redeemed)
  BY DEF CouponInv
<1>4. OneRuns' /\ ChargedFirst' /\ AnsweredOnce'
  BY <1>1, <1>3 DEF OneRuns, ChargedFirst, AnsweredOnce
<1>5. PICK b \in CouponBiz : <<b, c>> \in shown
  BY DEF Verify
<1>6. b \notin Redeemed
  <2>1. ASSUME NEW d \in Codes, <<b, d>> \in shown PROVE d = c
    <3>1. <<b, d>> = <<b, c>>
      BY <1>3, <1>5, <2>1 DEF AnsweredOnce
    <3> QED  BY <3>1
  <2> QED  BY <1>1, <2>1 DEF Redeemed
<1>7. b \in charged
  <2>1. <<b, c>>[1] \in charged
    BY <1>3, <1>5 DEF ChargedFirst
  <2> QED  BY <2>1
<1>8. \A d \in Codes : code[d] = "verified" => code'[d] = "verified"
  BY <1>1, <1>2 DEF CouponTypes
<1>9. Redeemed \cup {b} \subseteq Redeemed'
  <2>1. Redeemed \subseteq Redeemed'
    BY <1>1, <1>8 DEF Redeemed
  <2>2. code'[c] = "verified"
    BY <1>1, <1>2 DEF CouponTypes
  <2>3. b \in Redeemed'
    BY <1>1, <1>5, <1>7, <2>2 DEF Redeemed
  <2> QED  BY <2>1, <2>3
<1>10. IsFiniteSet(Redeemed) /\ IsFiniteSet(Redeemed') /\ Cardinality(Redeemed) \in Nat
  BY <1>1, <1>2, <1>8, RedeemedGrows
<1>11. Cardinality(Redeemed \cup {b}) = Cardinality(Redeemed) + 1
       /\ Cardinality(Redeemed \cup {b}) <= Cardinality(Redeemed') /\ Cardinality(Redeemed') \in Nat
  BY <1>6, <1>9, <1>10, FS_AddElement, FS_Subset, FS_CardinalityType
<1>12. discounts' <= Cardinality(Redeemed')
  BY <1>1, <1>2, <1>3, <1>10, <1>11 DEF CouponTypes
<1> QED  BY <1>4, <1>12

\* Redis forgets a code or an answer.
LEMMA ExpiryKeeps ==
  ASSUME CouponInv, (\E c \in Codes : CodeExpires(c)) \/ (\E b \in CouponBiz : ReplayExpires(b))
  PROVE  CouponInv'
<1>1. UNCHANGED <<fate, coupons, charged, shown, discounts, run, busy>>
  BY DEF CodeExpires, ReplayExpires
<1>2. CouponTypes /\ CouponTypes'
  BY <1>1 DEF CouponInv, CouponTypes, CodeExpires, ReplayExpires
<1>3. \A d \in Codes : code[d] = "verified" => code'[d] = "verified"
  BY <1>2 DEF CodeExpires, ReplayExpires, CouponTypes
<1>4. Cardinality(Redeemed) <= Cardinality(Redeemed')
      /\ Cardinality(Redeemed) \in Nat /\ Cardinality(Redeemed') \in Nat
  BY <1>1, <1>2, <1>3, RedeemedGrows
<1>5. \A b \in CouponBiz : replay'[b] # 0 => replay[b] # 0
  BY <1>2 DEF CodeExpires, ReplayExpires, CouponTypes
<1>6. fate \subseteq {"dies"} => OneRuns' /\ ChargedFirst' /\ AnsweredOnce'
  BY <1>1, <1>5 DEF CouponInv, OneRuns, ChargedFirst, AnsweredOnce
<1>7. fate \subseteq {"dies"} => discounts' <= Cardinality(Redeemed')
  BY <1>1, <1>2, <1>4 DEF CouponInv, CouponTypes
<1> QED  BY <1>1, <1>2, <1>6, <1>7 DEF CouponInv

LEMMA CouponStepKeeps == CouponInv /\ [CouponNext]_couponVars => CouponInv'
<1> SUFFICES ASSUME CouponInv, [CouponNext]_couponVars PROVE CouponInv'
  OBVIOUS
<1>1. CASE \E r \in Issuers, b \in CouponBiz : Request(r, b)
  BY <1>1, IssueKeeps
<1>2. CASE \E r \in Issuers : Issue(r) \/ IssueDies(r)
  BY <1>2, IssueKeeps
<1>3. CASE \E c \in Codes : Verify(c) \/ CodeExpires(c)
  BY <1>3, VerifyKeeps, ExpiryKeeps
<1>4. CASE \E b \in CouponBiz : ReplayExpires(b)
  BY <1>4, ExpiryKeeps
<1>5. CASE Lapse
  BY <1>5 DEF Lapse, CouponInv, CouponTypes
<1>6. CASE UNCHANGED couponVars
  BY <1>6 DEF couponVars, CouponInv, CouponTypes, OneRuns, ChargedFirst, AnsweredOnce, Redeemed
<1> QED  BY <1>1, <1>2, <1>3, <1>4, <1>5, <1>6 DEF CouponNext

(* However a request for a code dies and is sent again, however codes and  *)
(* answers are forgotten by Redis: for any requests, coupons and codes the *)
(* till takes no more codes than coupons were burned, as long as no lock   *)
(* lapses and the interceptor remembers (coupon.service.ts).               *)
THEOREM CouponIsWorthOneCode == CouponSpec => []OneDiscountPerCoupon
<1>1. CouponInit => CouponInv
  BY CouponStarts
<1>2. CouponInv /\ [CouponNext]_couponVars => CouponInv'
  BY CouponStepKeeps
<1>3. CouponInv => OneDiscountPerCoupon
  <2> SUFFICES ASSUME CouponInv, fate \subseteq {"dies"} PROVE discounts <= Cardinality(charged)
    BY DEF OneDiscountPerCoupon
  <2>1. Redeemed \subseteq charged /\ IsFiniteSet(charged) /\ discounts <= Cardinality(Redeemed) /\ discounts \in Nat
    BY DEF CouponInv, CouponTypes, Redeemed
  <2>2. Cardinality(Redeemed) <= Cardinality(charged) /\ Cardinality(Redeemed) \in Nat /\ Cardinality(charged) \in Nat
    BY <2>1, FS_Subset, FS_CardinalityType
  <2> QED  BY <2>1, <2>2
<1> QED  BY <1>1, <1>2, <1>3, PTL DEF CouponSpec
=============================================================================
