------------------------------ MODULE JobProofs ------------------------------
(***************************************************************************)
(* Expire.tla for any finite set of accounts, any batch and any days: a    *)
(* run of the job that players leave alone burns what is past its date, no *)
(* more and no less.                                                       *)
(*                                                                         *)
(* The amounts were read before they are posted, so the invariant says     *)
(* that they are still those of the rows: a burn changes the row of its    *)
(* own account only, and a batch has one group for an account. Hence no    *)
(* burn fails, a batch is never all failures, and the job gives up for     *)
(* one reason only: nothing was left to load.                              *)
(*                                                                         *)
(* Archive.tla for any months: nothing is dropped that is not copied. What *)
(* is detached is of the past and written no more, so that the copy of the *)
(* script's month stays what its table holds.                              *)
(***************************************************************************)
EXTENDS Expire, Archive, SumProofs, TLAPS

\* Coins are spent, not made, but by Issue, which keeps to the bound.
Bounded == \A a \in Accounts : old[a] + live[a] + heldOld[a] + heldLive[a] <= MaxHeld

\* A run has a day.
HasADay == pc # "off" => key \in 1 .. MaxDay

\* What was read is what there is.
BatchIsDue == \A g \in batch : g[2] = old[g[1]] /\ \A h \in batch : h[1] = g[1] => h = g

QuietRun ==
  quiet /\ pc # "off" => failed = 0 /\ (pc = "post" => size > 0 /\ BatchIsDue)

IInv == TypeOK /\ Bounded /\ HasADay /\ QuietRun

-----------------------------------------------------------------------------
(* The batch. *)

\* A burn takes from the old part what the old part has, and no more.
LEMMA OldIsTakenFirst ==
  ASSUME TypeOK, NEW a \in Accounts, NEW q \in Nat
  PROVE  /\ TakeOld(a, q) \in Nat /\ TakeOld(a, q) <= old[a] /\ TakeOld(a, q) <= q
         /\ q <= old[a] + live[a] => q - TakeOld(a, q) \in 0 .. live[a]
         /\ q <= old[a] => TakeOld(a, q) = q
<1>1. old[a] \in Nat /\ live[a] \in Nat
  BY ExpireAssumption DEF TypeOK, Units
<1> QED  BY <1>1 DEF TakeOld, Least

\* Where something is due, loadBatch finds some of it, finitely much.
LEMMA SomeAreFirst ==
  ASSUME NEW S \in SUBSET Accounts, S # {}
  PROVE  First(S) \subseteq S /\ Cardinality(First(S)) \in Nat \ {0}
<1>1. PICK m \in S : \A k \in S : m <= k
  <2>1. S \in SUBSET Nat
    BY ExpireAssumption
  <2> QED  BY <2>1, LeastNatural
<1>2. {b \in S : b < m} = {}
  <2>1. \A b \in S : b \in Nat /\ m \in Nat /\ m <= b
    BY <1>1, ExpireAssumption
  <2>2. \A b \in S : ~(b < m)
    BY <2>1
  <2> QED  BY <2>2
<1>3. Cardinality({b \in S : b < m}) = 0
  BY <1>2, FS_EmptySet
<1>4. m \in First(S)
  BY <1>3, ExpireAssumption DEF First
<1>5. First(S) \subseteq S
  BY DEF First
<1>6. IsFiniteSet(First(S))
  BY <1>5, ExpireAssumption, FS_Subset
<1>7. Cardinality(First(S)) \in Nat
  BY <1>6, FS_CardinalityType
<1>8. Cardinality(First(S)) # 0
  BY <1>4, <1>6, FS_EmptySet
<1> QED  BY <1>5, <1>7, <1>8

\* What is loaded is what is there, one group an account.
LEMMA LoadReads ==
  ASSUME TypeOK, Load
  PROVE  /\ batch' \subseteq Accounts \X (1 .. MaxHeld)
         /\ size' \in Nat \ {0}
         /\ \A g \in batch' : g[2] = old[g[1]] /\ \A h \in batch' : h[1] = g[1] => h = g
<1>1. Due \subseteq Accounts /\ Due # {}
  BY DEF Due, Load
<1>2. First(Due) \subseteq Due /\ Cardinality(First(Due)) \in Nat \ {0}
  BY <1>1, SomeAreFirst
<1>3. \A a \in Due : old[a] \in 1 .. MaxHeld
  BY ExpireAssumption DEF Due, Amount, TypeOK, Units
<1>4. batch' = {<<a, old[a]>> : a \in First(Due)}
  BY DEF Load, Amount
<1>5. size' = Cardinality(First(Due))
  BY DEF Load
<1>6. batch' \subseteq Accounts \X (1 .. MaxHeld)
  BY <1>1, <1>2, <1>3, <1>4
<1>7. \A g \in batch' : g = <<g[1], old[g[1]]>>
  BY <1>4
<1> QED  BY <1>2, <1>5, <1>6, <1>7

\* A group of the batch is an amount of an account.
LEMMA GroupsAreAmounts ==
  ASSUME TypeOK, NEW g \in batch
  PROVE  g = <<g[1], g[2]>> /\ g[1] \in Accounts /\ g[2] \in Nat \ {0} /\ g[2] <= MaxHeld
BY ExpireAssumption DEF TypeOK

-----------------------------------------------------------------------------
(* The invariant. *)

\* Everything is live on the first day.
LEMMA InitHolds == Init => IInv
<1> SUFFICES ASSUME Init PROVE IInv
  OBVIOUS
<1>1. TypeOK
  <2>1. MaxDay \in Nat \ {0} /\ MaxHeld \in Nat /\ MaxMoves \in Nat
    BY ExpireAssumption
  <2>2. live \in [Accounts -> Units] /\ old \in [Accounts -> Units]
    BY <2>1 DEF Init, Units
  <2>3. day \in 1 .. MaxDay /\ key \in 0 .. MaxDay /\ ran \in 0 .. MaxDay /\ moves \in 0 .. MaxMoves
    BY <2>1 DEF Init
  <2>4. heldOld = old /\ heldLive = old
    BY DEF Init
  <2>5. quiet \in BOOLEAN /\ pc = "off" /\ posted = {} /\ batch = {} /\ size = 0 /\ failed = 0 /\ groups = 0
    BY DEF Init
  <2> QED  BY <2>2, <2>3, <2>4, <2>5 DEF TypeOK
<1>2. Bounded
  BY ExpireAssumption DEF Init, Bounded
<1> QED  BY <1>1, <1>2 DEF Init, IInv, HasADay, QuietRun

\* A move of a player keeps the lots within bounds.
LEMMA MovesKeep ==
  ASSUME IInv, NEW a \in Accounts,
         Thaw(a) \/ Issue(a) \/ \E q \in 1 .. MaxHeld : Spend(a, q) \/ Freeze(a, q)
  PROVE  IInv'
<1>1. TypeOK /\ Bounded /\ moves \in Nat /\ MaxHeld \in Nat /\ MaxMoves \in Nat
  BY ExpireAssumption DEF IInv, TypeOK
<1>2. \A b \in Accounts : old[b] \in Nat /\ live[b] \in Nat /\ heldOld[b] \in Nat /\ heldLive[b] \in Nat
  BY ExpireAssumption, <1>1 DEF TypeOK, Units
<1>3. ASSUME \A f \in {old', live', heldOld', heldLive'} : f \in [Accounts -> Nat],
             \A b \in Accounts : old'[b] + live'[b] + heldOld'[b] + heldLive'[b] <= MaxHeld,
             Move, UNCHANGED <<quiet, day, posted, ran, job>>
      PROVE  IInv'
  <2>1. \A f \in {old', live', heldOld', heldLive'} : f \in [Accounts -> Units]
    <3>1. \A b \in Accounts : old'[b] \in Nat /\ live'[b] \in Nat /\ heldOld'[b] \in Nat /\ heldLive'[b] \in Nat
      BY <1>3
    <3>2. \A b \in Accounts : old'[b] \in Units /\ live'[b] \in Units /\ heldOld'[b] \in Units /\ heldLive'[b] \in Units
      BY <1>1, <1>3, <3>1 DEF Units
    <3> QED  BY <1>3, <3>2
  <2>2. moves' \in 0 .. MaxMoves
    BY <1>1, <1>3 DEF Move
  <2>3. TypeOK'
    BY <1>1, <1>3, <2>1, <2>2 DEF TypeOK, job
  <2>4. Bounded' /\ HasADay'
    BY <1>3 DEF IInv, Bounded, HasADay, job
  <2>5. QuietRun'
    BY <1>3 DEF QuietRun, Move, job
  <2> QED  BY <2>3, <2>4, <2>5 DEF IInv
<1>4. CASE Thaw(a)
  <2>1. \A b \in Accounts : old'[b] + live'[b] + heldOld'[b] + heldLive'[b] <= MaxHeld
    BY <1>1, <1>2, <1>4 DEF Thaw, Bounded, TypeOK
  <2>2. \A f \in {old', live', heldOld', heldLive'} : f \in [Accounts -> Nat]
    BY <1>1, <1>2, <1>4 DEF Thaw, TypeOK
  <2> QED  BY <1>3, <1>4, <2>1, <2>2 DEF Thaw
<1>5. CASE Issue(a)
  <2>1. \A b \in Accounts : old'[b] + live'[b] + heldOld'[b] + heldLive'[b] <= MaxHeld
    BY <1>1, <1>2, <1>5 DEF Issue, Bounded, TypeOK
  <2>2. \A f \in {old', live', heldOld', heldLive'} : f \in [Accounts -> Nat]
    BY <1>1, <1>2, <1>5 DEF Issue, TypeOK
  <2> QED  BY <1>3, <1>5, <2>1, <2>2 DEF Issue
<1>6. ASSUME NEW q \in 1 .. MaxHeld, Spend(a, q) \/ Freeze(a, q) PROVE IInv'
  <2>1. q \in Nat /\ q <= old[a] + live[a]
    BY <1>1, <1>6 DEF Spend, Freeze
  <2> DEFINE t == TakeOld(a, q)
  <2>2. t \in Nat /\ t <= old[a] /\ t <= q /\ q - t \in 0 .. live[a]
    BY <1>1, <2>1, OldIsTakenFirst
  <2> HIDE DEF t
  <2>3. CASE Spend(a, q)
    <3>1. /\ old' = [old EXCEPT ![a] = old[a] - t] /\ live' = [live EXCEPT ![a] = live[a] - (q - t)]
          /\ heldOld' = heldOld /\ heldLive' = heldLive
      BY <2>3 DEF Spend, t
    <3>2. \A b \in Accounts : old'[b] + live'[b] + heldOld'[b] + heldLive'[b] <= MaxHeld
      BY <1>1, <1>2, <2>1, <2>2, <3>1 DEF Bounded, TypeOK
    <3>3. \A f \in {old', live', heldOld', heldLive'} : f \in [Accounts -> Nat]
      BY <1>1, <1>2, <2>1, <2>2, <3>1 DEF TypeOK
    <3> QED  BY <1>3, <2>3, <3>2, <3>3 DEF Spend
  <2>4. CASE Freeze(a, q)
    <3>1. /\ old' = [old EXCEPT ![a] = old[a] - t] /\ live' = [live EXCEPT ![a] = live[a] - (q - t)]
          /\ heldOld' = [heldOld EXCEPT ![a] = heldOld[a] + t]
          /\ heldLive' = [heldLive EXCEPT ![a] = heldLive[a] + (q - t)]
      BY <2>4 DEF Freeze, t
    <3>2. \A b \in Accounts : old'[b] + live'[b] + heldOld'[b] + heldLive'[b] <= MaxHeld
      BY <1>1, <1>2, <2>1, <2>2, <3>1 DEF Bounded, TypeOK
    <3>3. \A f \in {old', live', heldOld', heldLive'} : f \in [Accounts -> Nat]
      BY <1>1, <1>2, <2>1, <2>2, <3>1 DEF TypeOK
    <3> QED  BY <1>3, <2>4, <3>2, <3>3 DEF Freeze
  <2> QED  BY <1>6, <2>3, <2>4
<1> QED  BY <1>4, <1>5, <1>6

\* A burn takes from the row of its account; the other groups of the batch keep theirs.
LEMMA BurnKeeps ==
  ASSUME IInv, NEW g \in batch, Burn(g)
  PROVE  /\ IInv'
         /\ quiet => live' = live
<1> DEFINE a == g[1]
           q == g[2]
           t == TakeOld(a, q)
<1>1. TypeOK /\ Bounded /\ pc = "post" /\ key \in 1 .. MaxDay /\ MaxHeld \in Nat
  BY ExpireAssumption DEF IInv, HasADay, Burn
<1>2. a \in Accounts /\ q \in Nat /\ q <= old[a] + live[a]
  BY <1>1, GroupsAreAmounts DEF Burn
<1>3. t \in Nat /\ t <= old[a] /\ t <= q /\ q - t \in 0 .. live[a] /\ (q <= old[a] => t = q)
  BY <1>1, <1>2, OldIsTakenFirst
<1>4. /\ old' = [old EXCEPT ![a] = old[a] - t] /\ live' = [live EXCEPT ![a] = live[a] - (q - t)]
      /\ posted' = posted \cup {<<key, a>>} /\ batch' = batch \ {g} /\ groups' = groups + 1
      /\ UNCHANGED <<quiet, heldOld, heldLive, day, pc, key, size, failed, moves, ran>>
  BY DEF Burn, Posted
<1> HIDE DEF a, q, t
<1>5. \A b \in Accounts : old[b] \in Units /\ live[b] \in Units /\ heldOld[b] \in Units /\ heldLive[b] \in Units
  BY <1>1 DEF TypeOK
<1>6. old' \in [Accounts -> Units] /\ live' \in [Accounts -> Units]
  BY <1>1, <1>2, <1>3, <1>4, <1>5 DEF TypeOK, Units
<1>7. Bounded'
  BY <1>1, <1>2, <1>3, <1>4, <1>5 DEF TypeOK, Units, Bounded
<1>8. TypeOK'
  BY <1>1, <1>2, <1>4, <1>6 DEF TypeOK
<1>9. QuietRun'
  <2> SUFFICES ASSUME quiet PROVE failed' = 0 /\ size' > 0 /\ BatchIsDue'
    BY <1>4 DEF QuietRun
  <2>1. failed = 0 /\ size > 0 /\ BatchIsDue
    BY <1>1 DEF IInv, QuietRun
  <2>2. \A h \in batch' : h \in batch /\ h[1] # a /\ h[1] \in Accounts
    BY <1>1, <1>4, <2>1, GroupsAreAmounts DEF BatchIsDue, a
  <2>3. \A h \in batch' : old'[h[1]] = old[h[1]]
    BY <1>1, <1>4, <2>2 DEF TypeOK
  <2> QED  BY <1>4, <2>1, <2>2, <2>3 DEF BatchIsDue
<1>10. ASSUME quiet PROVE live' = live
  <2>1. q = old[a]
    BY <1>1, <1>10 DEF IInv, QuietRun, BatchIsDue, a, q
  <2>2. live[a] - (q - t) = live[a]
    BY <1>2, <1>3, <1>5, <2>1 DEF Units
  <2> QED  BY <1>1, <1>2, <1>4, <2>2 DEF TypeOK
<1> QED  BY <1>1, <1>4, <1>7, <1>8, <1>9, <1>10 DEF IInv, HasADay

\* Every step keeps the invariant.
LEMMA NextKeeps == IInv /\ [Next]_vars => IInv'
<1> SUFFICES ASSUME IInv, [Next]_vars PROVE IInv'
  OBVIOUS
<1>1. TypeOK /\ Bounded /\ HasADay /\ QuietRun /\ MaxDay \in Nat /\ BatchSize \in Nat /\ MaxHeld \in Nat
  BY ExpireAssumption DEF IInv
<1>2. CASE UNCHANGED vars
  BY <1>1, <1>2 DEF vars, IInv, TypeOK, Bounded, HasADay, QuietRun, BatchIsDue
<1>3. CASE Tomorrow
  <2>1. \A a \in Accounts : /\ old[a] \in Nat /\ live[a] \in Nat /\ heldOld[a] \in Nat /\ heldLive[a] \in Nat
                            /\ old[a] + live[a] + heldOld[a] + heldLive[a] <= MaxHeld
    BY <1>1 DEF TypeOK, Units, Bounded
  <2>2. \A f \in {old', live', heldOld', heldLive'} : f \in [Accounts -> Units]
    BY <1>1, <1>3, <2>1 DEF Tomorrow, Units
  <2>3. Bounded'
    BY <1>3, <2>1 DEF Tomorrow, Bounded
  <2>4. TypeOK'
    BY <1>1, <1>3, <2>2 DEF Tomorrow, TypeOK, job
  <2> QED  BY <1>3, <2>3, <2>4 DEF Tomorrow, IInv, HasADay, QuietRun, job
<1>4. CASE Start
  <2>1. TypeOK' /\ Bounded'
    BY <1>1, <1>4 DEF Start, TypeOK, Bounded
  <2> QED  BY <1>1, <1>4, <2>1 DEF Start, IInv, HasADay, QuietRun, TypeOK
<1>5. CASE Load
  <2>1. /\ batch' \subseteq Accounts \X (1 .. MaxHeld) /\ size' \in Nat \ {0}
        /\ \A g \in batch' : g[2] = old[g[1]] /\ \A h \in batch' : h[1] = g[1] => h = g
    BY <1>1, <1>5, LoadReads
  <2>2. TypeOK' /\ Bounded' /\ HasADay'
    BY <1>1, <1>5, <2>1 DEF Load, TypeOK, Bounded, HasADay
  <2>3. QuietRun'
    BY <1>1, <1>5, <2>1 DEF Load, QuietRun, BatchIsDue
  <2> QED  BY <2>2, <2>3 DEF IInv
<1>6. CASE Finish
  <2>1. TypeOK' /\ Bounded'
    BY <1>1, <1>6 DEF Finish, TypeOK, Bounded
  <2> QED  BY <1>6, <2>1 DEF Finish, IInv, HasADay, QuietRun
<1>7. CASE Again
  <2>1. TypeOK' /\ Bounded'
    BY <1>1, <1>7 DEF Again, TypeOK, Bounded
  <2> QED  BY <1>1, <1>7, <2>1 DEF Again, IInv, HasADay, QuietRun
<1>8. ASSUME NEW g \in batch, Burn(g) PROVE IInv'
  BY <1>8, BurnKeeps
<1>9. ASSUME NEW g \in batch, Replay(g) PROVE IInv'
  <2>1. TypeOK' /\ Bounded'
    BY <1>1, <1>9 DEF Replay, TypeOK, Bounded
  <2>2. QuietRun'
    BY <1>1, <1>9 DEF Replay, QuietRun, BatchIsDue
  <2> QED  BY <1>1, <1>9, <2>1, <2>2 DEF Replay, IInv, HasADay
<1>10. ASSUME NEW g \in batch, Fail(g) PROVE IInv'
  <2>1. TypeOK' /\ Bounded'
    BY <1>1, <1>10 DEF Fail, TypeOK, Bounded, Least
  <2>2. ~quiet
    BY <1>1, <1>10, GroupsAreAmounts DEF Fail, QuietRun, BatchIsDue, TypeOK, Units
  <2> QED  BY <1>1, <1>10, <2>1, <2>2 DEF Fail, IInv, HasADay, QuietRun
<1> QED  BY <1>2, <1>3, <1>4, <1>5, <1>6, <1>7, <1>8, <1>9, <1>10, MovesKeep DEF Next, Step

\* The invariant holds from the start.
LEMMA Holds == Spec => []IInv
BY InitHolds, NextKeeps, PTL DEF Spec

-----------------------------------------------------------------------------
(* Theorems. *)

\* Every variable of the job keeps its type (expire.service.ts:60-175), for any accounts
\* and days; in particular no lot goes below zero.
THEOREM TypeCorrect == Spec => []TypeOK
BY Holds, PTL DEF IInv

\* Left alone, the job burns the lots that are past their date and no others, and a run
\* leaves none (expire.service.ts:55-59, 113-116), however many accounts and batches.
THEOREM QuietBurnsAreExact == Spec => QuietBurnIsExact
<1>1. IInv /\ [Next]_vars => [quiet /\ (\E g \in batch : Burn(g)) => live' = live]_vars
  BY BurnKeeps
<1>2. IInv /\ [Next]_vars => [quiet /\ pc # "off" /\ pc' = "off" => \A a \in Accounts : old'[a] = 0]_vars
  <2> SUFFICES ASSUME IInv, Next, quiet, pc # "off", pc' = "off", NEW a \in Accounts
               PROVE  old'[a] = 0
    OBVIOUS
  <2>1. CASE Finish
    <3>1. old[a] \in Nat /\ ~(old[a] > 0)
      BY <2>1, ExpireAssumption DEF Finish, Due, Amount, IInv, TypeOK, Units
    <3> QED  BY <2>1, <3>1 DEF Finish
  <2>2. CASE Again
    BY <2>2 DEF Again, GiveUp, IInv, QuietRun, TypeOK
  <2>3. CASE ~Finish /\ ~Again
    BY <2>3 DEF Next, Step, Tomorrow, Start, Load, Burn, Replay, Fail, Thaw, Issue, Spend, Freeze, job
  <2> QED  BY <2>1, <2>2, <2>3
<1> QED  BY <1>1, <1>2, Holds, PTL DEF Spec, QuietBurnIsExact, BurnsOnlyExpired, NothingExpiredLeft

-----------------------------------------------------------------------------
(* The archive. *)

Shapes ==
  /\ month \in 0 .. MaxMonth
  /\ table \in [Months -> {"none", "attached", "detached", "dropped"}]
  /\ DOMAIN file = Months /\ DOMAIN store = Months
  /\ script \in [at : {"out", "detach", "dump", "upload", "drop"}, todo : SUBSET Months, drop : BOOLEAN]

\* Rows are written to the month that is now; what is detached or gone is of the past.
GoneIsPast == \A m \in Months : table[m] \in {"detached", "dropped"} => m < month

\* The months to do are past. The one that is being done was detached, and is dropped
\* once it is seen to be whole.
ScriptKnows ==
  /\ script.at # "out" => script.todo # {} /\ \A m \in script.todo : m < month
  /\ \A m \in Months : script.at # "out" /\ m = Turn =>
       /\ script.at \in {"dump", "upload", "drop"} => table[m] = "detached"
       /\ script.at = "upload" => s3 /\ file[m] = RowsOf(m)
       /\ script.at = "drop" => Whole(m)

ArchiveInv == Shapes /\ GoneIsPast /\ ScriptKnows /\ NothingLost

\* The script has a turn, the first of the months to do.
LEMMA TurnIsOne ==
  ASSUME Shapes, ScriptKnows, script.at # "out"
  PROVE  Turn \in Months /\ Turn \in script.todo /\ Turn < month
<1>1. script.todo \in SUBSET Nat /\ script.todo # {} /\ script.todo \subseteq Months
  BY ArchiveAssumption DEF Shapes, ScriptKnows, Months
<1>2. \E m \in script.todo : \A k \in script.todo : m <= k
  BY <1>1, LeastNatural
<1>3. Turn \in script.todo
  BY <1>2 DEF Turn, Min
<1> QED  BY <1>1, <1>3 DEF ScriptKnows

\* A row goes to the month that is now.
LEMMA PastIsWritten ==
  ASSUME NEW S, \A e \in S : e.month = month, Write(S), NEW m, m # month
  PROVE  RowsOf(m)' = RowsOf(m)
BY DEF Write, RowsOf

\* Nothing is detached before the first month has passed.
LEMMA ArchiveStarts == ArchiveInit => ArchiveInv
<1> SUFFICES ASSUME ArchiveInit PROVE ArchiveInv
  OBVIOUS
<1>1. 0 \in 0 .. MaxMonth
  BY ArchiveAssumption
<1> QED  BY <1>1 DEF ArchiveInit, ArchiveInv, Shapes, GoneIsPast, ScriptKnows, NothingLost, Out

\* Books and reversals write to the month that is now, which is not gone.
LEMMA WritesKeep ==
  ASSUME ArchiveInv, NEW S, \A e \in S : e.month = month, Write(S),
         UNCHANGED <<s3, month, table, file, store, script>>
  PROVE  ArchiveInv'
<1>1. Shapes' /\ GoneIsPast'
  BY DEF ArchiveInv, Shapes, GoneIsPast
<1>2. ASSUME NEW m \in Months, m < month
      PROVE  RowsOf(m)' = RowsOf(m) /\ Whole(m)' = Whole(m)
  <2>1. m # month
    BY <1>2, ArchiveAssumption DEF Months, ArchiveInv, Shapes
  <2> QED  BY <2>1, PastIsWritten DEF Whole
<1>3. Turn' = Turn
  BY DEF Turn
<1>4. ScriptKnows'
  <2>1. script.at # "out" => Turn < month
    BY TurnIsOne DEF ArchiveInv
  <2>2. ASSUME NEW m \in Months, m = Turn'
        PROVE  /\ script.at \in {"dump", "upload", "drop"} => table[m] = "detached"
               /\ script.at = "upload" => s3 /\ file[m] = RowsOf(m)'
               /\ script.at = "drop" => Whole(m)'
    BY <1>2, <1>3, <2>1, <2>2 DEF ArchiveInv, ScriptKnows
  <2> QED  BY <2>2 DEF ArchiveInv, ScriptKnows
<1>5. NothingLost'
  BY <1>2 DEF ArchiveInv, GoneIsPast, NothingLost
<1> QED  BY <1>1, <1>4, <1>5 DEF ArchiveInv

\* The rows of a month, where none is written, and what is in its copy.
LEMMA SameRows ==
  ASSUME UNCHANGED <<s3, entries, strays>>, NEW m
  PROVE  /\ RowsOf(m)' = RowsOf(m)
         /\ (file'[m] = file[m] /\ store'[m] = store[m]) => Whole(m)' = Whole(m)
BY DEF RowsOf, Whole

LEMMA BookKeeps == ArchiveInv /\ Book => ArchiveInv'
<1> SUFFICES ASSUME ArchiveInv, Book PROVE ArchiveInv'
  OBVIOUS
<1>1. PICK e : e.month = month /\ Write({e})
  BY DEF Book
<1> QED  BY <1>1, WritesKeep DEF Book

LEMMA ReverseKeeps == ASSUME ArchiveInv, NEW m \in Months, Reverse(m) PROVE ArchiveInv'
<1>1. PICK S : (\A e \in S : e.month = month) /\ Write(S)
  BY DEF Reverse
<1> QED  BY <1>1, WritesKeep DEF Reverse

\* A month that is past stays past.
LEMMA NextMonthKeeps == ArchiveInv /\ NextMonth => ArchiveInv'
<1> SUFFICES ASSUME ArchiveInv, NextMonth PROVE ArchiveInv'
  OBVIOUS
<1>0. month \in Nat /\ month' = month + 1 /\ month' \in 0 .. MaxMonth /\ Months \subseteq Nat
  BY ArchiveAssumption DEF ArchiveInv, Shapes, NextMonth, Months
<1>1. Shapes' /\ GoneIsPast'
  BY <1>0 DEF ArchiveInv, Shapes, GoneIsPast, NextMonth
<1>2. \A m \in Months : RowsOf(m)' = RowsOf(m) /\ Whole(m)' = Whole(m)
  BY SameRows DEF NextMonth
<1>3. Turn' = Turn /\ script.todo \subseteq Months
  BY DEF Turn, NextMonth, ArchiveInv, Shapes
<1>4. ScriptKnows'
  <2>1. UNCHANGED <<s3, table, file, script>>
    BY DEF NextMonth
  <2>2. script.at # "out" => \A m \in script.todo : m < month'
    <3> SUFFICES ASSUME script.at # "out", NEW m \in script.todo PROVE m < month'
      OBVIOUS
    <3>1. m < month /\ m \in Nat
      BY <1>0, <1>3 DEF ArchiveInv, ScriptKnows
    <3> QED  BY <1>0, <3>1
  <2>3. \A m \in Months : m = Turn => m = Turn'
    BY <1>3
  <2> QED  BY <1>2, <1>3, <2>1, <2>2 DEF ArchiveInv, ScriptKnows
<1>5. NothingLost'
  BY <1>2 DEF ArchiveInv, NothingLost, NextMonth
<1> QED  BY <1>1, <1>4, <1>5 DEF ArchiveInv

\* ensure() builds months there is no table of.
LEMMA EnsureKeeps == ArchiveInv /\ Ensure => ArchiveInv'
<1> SUFFICES ASSUME ArchiveInv, Ensure PROVE ArchiveInv'
  OBVIOUS
<1>0. UNCHANGED <<s3, month, entries, strays, file, store, script>>
  BY DEF Ensure, dbVars
<1>1. /\ table' \in [Months -> {"none", "attached", "detached", "dropped"}]
      /\ \A m \in Months : table'[m] = table[m] \/ (table[m] = "none" /\ table'[m] = "attached")
  BY DEF Ensure, ArchiveInv, Shapes
<1>2. Shapes' /\ GoneIsPast'
  BY <1>0, <1>1 DEF ArchiveInv, Shapes, GoneIsPast
<1>3. \A m \in Months : RowsOf(m)' = RowsOf(m) /\ Whole(m)' = Whole(m)
  BY <1>0, SameRows
<1>4. Turn' = Turn
  BY <1>0 DEF Turn
<1>5. ScriptKnows'
  BY <1>0, <1>1, <1>3, <1>4 DEF ArchiveInv, ScriptKnows
<1>6. NothingLost'
  BY <1>1, <1>3 DEF ArchiveInv, NothingLost
<1> QED  BY <1>2, <1>5, <1>6 DEF ArchiveInv

\* What is expired is past.
LEMMA StartScriptKeeps == ASSUME ArchiveInv, NEW drop \in BOOLEAN, StartScript(drop) PROVE ArchiveInv'
<1>0. UNCHANGED <<s3, month, entries, strays, table, file, store>>
  BY DEF StartScript, dbVars
<1>1. script' = [at |-> "detach", todo |-> Listed, drop |-> drop] /\ Listed # {}
  BY DEF StartScript
<1>2. \A m \in Listed : m \in Months /\ m < month
  BY ArchiveAssumption DEF Listed, Expired, Months, ArchiveInv, Shapes
<1>3. Shapes' /\ GoneIsPast'
  BY <1>0, <1>1, <1>2 DEF ArchiveInv, Shapes, GoneIsPast
<1>4. ScriptKnows'
  BY <1>0, <1>1, <1>2 DEF ScriptKnows
<1>5. NothingLost'
  BY <1>0, SameRows DEF ArchiveInv, NothingLost
<1> QED  BY <1>3, <1>4, <1>5 DEF ArchiveInv

\* The script stops at any point.
LEMMA StoppedKeeps ==
  ASSUME ArchiveInv, script' = Out, UNCHANGED <<s3, month, entries, strays, table>>,
         Shapes', NothingLost'
  PROVE  ArchiveInv'
BY DEF ArchiveInv, GoneIsPast, ScriptKnows, Out

LEMMA DetachKeeps == ArchiveInv /\ Detach => ArchiveInv'
<1> SUFFICES ASSUME ArchiveInv, Detach PROVE ArchiveInv'
  OBVIOUS
<1>0. UNCHANGED <<s3, month, entries, strays, file, store>>
  BY DEF Detach, dbVars
<1>1. Turn \in Months /\ Turn < month
  BY TurnIsOne DEF ArchiveInv, Detach
<1>2. \A m \in Months : RowsOf(m)' = RowsOf(m) /\ Whole(m)' = Whole(m)
  BY <1>0, SameRows
<1>3. CASE table[Turn] = "attached"
  <2>1. table' = [table EXCEPT ![Turn] = "detached"] /\ script' = [script EXCEPT !.at = "dump"]
    BY <1>3 DEF Detach, Goto
  <2>2. Turn' = Turn /\ script'.at = "dump" /\ script'.todo = script.todo /\ script' \in
          [at : {"out", "detach", "dump", "upload", "drop"}, todo : SUBSET Months, drop : BOOLEAN]
    BY <2>1 DEF Turn, ArchiveInv, Shapes
  <2>3. \A m \in Months : table'[m] = IF m = Turn THEN "detached" ELSE table[m]
    BY <2>1 DEF ArchiveInv, Shapes
  <2>4. Shapes'
    BY <1>0, <2>1, <2>2 DEF ArchiveInv, Shapes
  <2>5. GoneIsPast'
    BY <1>0, <1>1, <2>3 DEF ArchiveInv, GoneIsPast
  <2>6. ScriptKnows'
    BY <1>0, <2>2, <2>3 DEF ArchiveInv, ScriptKnows, Detach
  <2>7. NothingLost'
    BY <1>2, <2>3 DEF ArchiveInv, NothingLost
  <2> QED  BY <2>4, <2>5, <2>6, <2>7 DEF ArchiveInv
<1>4. CASE table[Turn] # "attached"
  <2>1. script' = Out /\ table' = table
    BY <1>4 DEF Detach
  <2>2. Shapes' /\ NothingLost'
    BY <1>0, <1>2, <2>1 DEF ArchiveInv, Shapes, NothingLost, Out
  <2> QED  BY <1>0, <2>1, <2>2, StoppedKeeps
<1> QED  BY <1>3, <1>4

\* What is written of the turn's month leaves the other months' copies.
LEMMA CopyKeeps ==
  ASSUME ArchiveInv, script.at \in {"dump", "upload"},
         UNCHANGED <<s3, month, entries, strays, table>>,
         DOMAIN file' = Months, DOMAIN store' = Months,
         \A m \in Months : m # Turn => file'[m] = file[m] /\ store'[m] = store[m]
  PROVE  NothingLost'
<1>1. Turn \in Months /\ table[Turn] = "detached"
  BY TurnIsOne DEF ArchiveInv, ScriptKnows
<1>2. \A m \in Months : table[m] = "dropped" => Whole(m)' = Whole(m)
  BY <1>1, SameRows
<1> QED  BY <1>2 DEF ArchiveInv, NothingLost

\* No row is written to a past month, so the dump stays what the table holds ...
LEMMA DumpKeeps == ArchiveInv /\ Dump => ArchiveInv'
<1> SUFFICES ASSUME ArchiveInv, Dump PROVE ArchiveInv'
  OBVIOUS
<1>0. UNCHANGED <<s3, month, entries, strays, table, store>> /\ script.at = "dump"
  BY DEF Dump, dbVars
<1>1. Turn \in Months /\ table[Turn] = "detached"
  BY <1>0, TurnIsOne DEF ArchiveInv, ScriptKnows
<1>2. file' = [file EXCEPT ![Turn] = RowsOf(Turn)]
      /\ script' = [script EXCEPT !.at = IF s3 THEN "upload" ELSE "drop"]
  BY DEF Dump, Goto
<1>3. DOMAIN file' = Months /\ DOMAIN store' = Months
      /\ \A m \in Months : file'[m] = IF m = Turn THEN RowsOf(m) ELSE file[m]
  BY <1>0, <1>2 DEF ArchiveInv, Shapes
<1>4. NothingLost'
  BY <1>0, <1>3, CopyKeeps
<1>5. Turn' = Turn /\ script'.at = (IF s3 THEN "upload" ELSE "drop")
      /\ script'.todo = script.todo /\ script' \in
          [at : {"out", "detach", "dump", "upload", "drop"}, todo : SUBSET Months, drop : BOOLEAN]
  BY <1>2 DEF Turn, ArchiveInv, Shapes
<1>6. Shapes' /\ GoneIsPast'
  BY <1>0, <1>3, <1>5 DEF ArchiveInv, Shapes, GoneIsPast
<1>7. \A m \in Months : m = Turn => file'[m] = RowsOf(m)'
  BY <1>0, <1>3, SameRows
<1>8. ScriptKnows'
  BY <1>0, <1>1, <1>5, <1>7 DEF ArchiveInv, ScriptKnows, Whole
<1> QED  BY <1>4, <1>6, <1>8 DEF ArchiveInv

\* ... until it is in the store.
LEMMA UploadKeeps == ArchiveInv /\ Upload => ArchiveInv'
<1> SUFFICES ASSUME ArchiveInv, Upload PROVE ArchiveInv'
  OBVIOUS
<1>0. UNCHANGED <<s3, month, entries, strays, table, file>> /\ script.at = "upload"
  BY DEF Upload, dbVars
<1>1. Turn \in Months /\ table[Turn] = "detached" /\ s3 /\ file[Turn] = RowsOf(Turn)
  BY <1>0, TurnIsOne DEF ArchiveInv, ScriptKnows
<1>2. store' = [store EXCEPT ![Turn] = file[Turn]] /\ script' = [script EXCEPT !.at = "drop"]
  BY DEF Upload, Goto
<1>3. DOMAIN file' = Months /\ DOMAIN store' = Months
      /\ \A m \in Months : store'[m] = IF m = Turn THEN RowsOf(m) ELSE store[m]
  BY <1>0, <1>1, <1>2 DEF ArchiveInv, Shapes
<1>4. NothingLost'
  BY <1>0, <1>3, CopyKeeps
<1>5. Turn' = Turn /\ script'.at = "drop" /\ script'.todo = script.todo /\ script' \in
          [at : {"out", "detach", "dump", "upload", "drop"}, todo : SUBSET Months, drop : BOOLEAN]
  BY <1>2 DEF Turn, ArchiveInv, Shapes
<1>6. Shapes' /\ GoneIsPast'
  BY <1>0, <1>3, <1>5 DEF ArchiveInv, Shapes, GoneIsPast
<1>7. \A m \in Months : m = Turn => Whole(m)'
  BY <1>0, <1>1, <1>3, SameRows DEF Whole
<1>8. ScriptKnows'
  BY <1>0, <1>1, <1>5, <1>7 DEF ArchiveInv, ScriptKnows
<1> QED  BY <1>4, <1>6, <1>8 DEF ArchiveInv

LEMMA UploadFailsKeeps == ArchiveInv /\ UploadFails => ArchiveInv'
<1> SUFFICES ASSUME ArchiveInv, UploadFails PROVE ArchiveInv'
  OBVIOUS
<1>0. UNCHANGED <<s3, month, entries, strays, table, file>> /\ script.at = "upload" /\ script' = Out
  BY DEF UploadFails, dbVars, Stops
<1>1. DOMAIN file' = Months /\ DOMAIN store' = Months
      /\ \A m \in Months : m # Turn => store'[m] = store[m]
  BY <1>0 DEF UploadFails, ArchiveInv, Shapes
<1>2. NothingLost'
  BY <1>0, <1>1, CopyKeeps
<1>3. Shapes'
  BY <1>0, <1>1 DEF ArchiveInv, Shapes, Out
<1> QED  BY <1>0, <1>2, <1>3, StoppedKeeps

\* What the script drops it has a copy of.
LEMMA DropKeeps == ArchiveInv /\ Drop => ArchiveInv'
<1> SUFFICES ASSUME ArchiveInv, Drop PROVE ArchiveInv'
  OBVIOUS
<1>0. UNCHANGED <<s3, month, entries, strays, file, store>> /\ script.at = "drop"
  BY DEF Drop, dbVars
<1>1. Turn \in script.todo /\ Turn \in Months /\ Turn < month
      /\ table[Turn] = "detached" /\ Whole(Turn)
  BY <1>0, TurnIsOne DEF ArchiveInv, ScriptKnows
<1>2. \A m \in Months : RowsOf(m)' = RowsOf(m) /\ Whole(m)' = Whole(m)
  BY <1>0, SameRows
<1>3. table' \in [Months -> {"none", "attached", "detached", "dropped"}]
      /\ \A m \in Months : table'[m] = table[m] \/ (m = Turn /\ table'[m] = "dropped")
  BY <1>1 DEF Drop, ArchiveInv, Shapes
<1>4. GoneIsPast'
  BY <1>0, <1>1, <1>3 DEF ArchiveInv, GoneIsPast
<1>5. NothingLost'
  BY <1>1, <1>2, <1>3 DEF ArchiveInv, NothingLost
<1>6. CASE script.todo = {Turn}
  <2>1. script' = Out
    BY <1>6 DEF Drop
  <2> QED  BY <1>0, <1>3, <1>4, <1>5, <2>1 DEF ArchiveInv, Shapes, ScriptKnows, Out
<1>7. CASE script.todo # {Turn}
  <2>1. script'.at = "detach" /\ script'.todo = script.todo \ {Turn} /\ script' \in
          [at : {"out", "detach", "dump", "upload", "drop"}, todo : SUBSET Months, drop : BOOLEAN]
    BY <1>7 DEF Drop, ArchiveInv, Shapes
  <2>2. script'.todo # {} /\ \A m \in script'.todo : m < month
    BY <1>0, <1>1, <1>7, <2>1 DEF ArchiveInv, ScriptKnows
  <2>3. ScriptKnows'
    BY <1>0, <2>1, <2>2 DEF ScriptKnows
  <2> QED  BY <1>0, <1>3, <1>4, <1>5, <2>1, <2>3 DEF ArchiveInv, Shapes
<1> QED  BY <1>6, <1>7

LEMMA DieKeeps == ArchiveInv /\ Die => ArchiveInv'
<1> SUFFICES ASSUME ArchiveInv, Die PROVE ArchiveInv'
  OBVIOUS
<1>0. UNCHANGED <<s3, month, entries, strays, table, file, store>> /\ script' = Out
  BY DEF Die, dbVars
<1>1. NothingLost' /\ Shapes'
  BY <1>0, SameRows DEF ArchiveInv, NothingLost, Shapes, Out
<1> QED  BY <1>0, <1>1, StoppedKeeps

\* By hand, while the script is out.
LEMMA ByHandKeeps ==
  ASSUME ArchiveInv, NEW m \in Months, AttachBack(m) \/ DropByHand(m)
  PROVE  ArchiveInv'
<1>0. UNCHANGED <<s3, month, entries, strays, file, store, script>> /\ script.at = "out"
      /\ table[m] = "detached"
  BY DEF AttachBack, DropByHand, dbVars
<1>1. /\ table' \in [Months -> {"none", "attached", "detached", "dropped"}]
      /\ \A k \in Months : k # m => table'[k] = table[k]
      /\ table'[m] = "dropped" => Whole(m)
  <2>1. PICK state \in {"attached", "dropped"} :
          table' = [table EXCEPT ![m] = state] /\ (state = "dropped" => Whole(m))
    BY DEF AttachBack, DropByHand
  <2> QED  BY <2>1 DEF ArchiveInv, Shapes
<1>2. \A k \in Months : Whole(k)' = Whole(k)
  BY <1>0, SameRows
<1>3. Shapes' /\ GoneIsPast'
  <2>1. Shapes'
    BY <1>0, <1>1 DEF ArchiveInv, Shapes
  <2>2. \A k \in Months : table'[k] \in {"detached", "dropped"} => table[k] \in {"detached", "dropped"}
    BY <1>0, <1>1
  <2> QED  BY <1>0, <2>1, <2>2 DEF ArchiveInv, GoneIsPast
<1>4. ScriptKnows'
  BY <1>0 DEF ScriptKnows
<1>5. NothingLost'
  BY <1>1, <1>2 DEF ArchiveInv, NothingLost
<1> QED  BY <1>3, <1>4, <1>5 DEF ArchiveInv

\* Every action, whoever takes it.
LEMMA ArchiveStepKeeps == ArchiveInv /\ [ArchiveNext]_archiveVars => ArchiveInv'
<1> SUFFICES ASSUME ArchiveInv, [ArchiveNext]_archiveVars PROVE ArchiveInv'
  OBVIOUS
<1>1. CASE Book \/ NextMonth \/ Ensure \/ Script \/ Die
  BY <1>1, BookKeeps, NextMonthKeeps, EnsureKeeps, DetachKeeps, DumpKeeps, UploadKeeps,
     UploadFailsKeeps, DropKeeps, DieKeeps DEF Script
<1>2. CASE \E m \in Months : Reverse(m) \/ AttachBack(m) \/ DropByHand(m)
  BY <1>2, ReverseKeeps, ByHandKeeps
<1>3. CASE \E drop \in BOOLEAN : StartScript(drop)
  BY <1>3, StartScriptKeeps
<1>4. CASE UNCHANGED archiveVars
  <2>1. UNCHANGED <<s3, month, entries, strays, table, file, store, script>>
    BY <1>4 DEF archiveVars
  <2>2. Turn' = Turn /\ \A m \in Months : RowsOf(m)' = RowsOf(m) /\ Whole(m)' = Whole(m)
    BY <2>1, SameRows DEF Turn
  <2> QED  BY <2>1, <2>2 DEF ArchiveInv, Shapes, GoneIsPast, ScriptKnows, NothingLost
<1> QED  BY <1>1, <1>2, <1>3, <1>4 DEF ArchiveNext

(* Of any number of months, kept and built ahead as it may be: whatever is *)
(* dropped is whole in its copy, for a death, a failed upload, a table     *)
(* attached again or one dropped by hand at any point (archive-entries.ts).*)
THEOREM NothingIsLost == ArchiveSpec => []NothingLost
<1>1. ArchiveInit => ArchiveInv
  BY ArchiveStarts
<1>2. ArchiveInv /\ [ArchiveNext]_archiveVars => ArchiveInv'
  BY ArchiveStepKeeps
<1>3. ArchiveInv => NothingLost
  BY DEF ArchiveInv
<1> QED  BY <1>1, <1>2, <1>3, PTL DEF ArchiveSpec
=============================================================================
