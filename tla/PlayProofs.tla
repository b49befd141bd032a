----------------------------- MODULE PlayProofs -----------------------------
(***************************************************************************)
(* What a player does with the pet, for any number of handlers: the race   *)
(* of Race.tla and its conditional UPDATEs, whatever its rewards and caps; *)
(* the draws of Gacha.tla, whatever the pools; and, for any number of      *)
(* players, the live queue of Matchmaking.tla, the promo codes of          *)
(* Promo.tla and, as far as an editor may go, the events of Campaign.tla.  *)
(*                                                                         *)
(* A handler of a race carries the row as it read it, so the invariant has *)
(* to say what that old row still tells of the present one: a handler that *)
(* got to a token has seen a race, one that re-rolls saw room for it, and  *)
(* one that pays a second time saw the settled row, which no longer        *)
(* changes. A handler of a draw carries the roll it will save, hand over   *)
(* and count: the invariant says that a roll not saved yet fits the pity   *)
(* that stands, that one saved is what the row says, and that the counter  *)
(* a handler is about to save tells of the draws so far.                   *)
(***************************************************************************)
EXTENDS Race, Gacha, Campaign, Matchmaking, Promo, SumProofs, SequenceTheorems, TLAPS

Reviving == {"token", "reroll"}
Doubling == {"token2", "pay2", "mark2"}

SeesARace(r) ==
  run[r].at \in {"pay", "mark", "count"} \cup Reviving => race \in Race /\ run[r].row \in Race

SawRoom(r) ==
  run[r].at \in Reviving => run[r].row.revives < MaxPerRace

SeesSettled(r) ==
  run[r].at \in Doubling =>
    /\ race \in Race /\ race.status = "settled"
    /\ run[r].row \in Race /\ run[r].row.reward = race.reward

TokensAreIssued == \A s \in Scenes : tokens[s] <= issued[s]

NoRollsYet == race = NoRace => rolls = 0

RaceInv ==
  /\ TypeOK /\ TokensAreIssued /\ NoRollsYet
  /\ \A r \in Runs : SeesARace(r) /\ SawRoom(r) /\ SeesSettled(r)
  /\ DoubleIsRecorded /\ RollsCounted

IInv == RaceInv /\ TaskCountsTheRace

-----------------------------------------------------------------------------
\* No race, no handler.
LEMMA RaceStart == Init => RaceInv
<1> SUFFICES ASSUME Init PROVE RaceInv
  OBVIOUS
<1>1. missed \in BOOLEAN
  BY DEF Init
<1>2. /\ run \in [Runs -> {Ready}] /\ \A r \in Runs : run[r] = Ready
      /\ issued \in [Scenes -> {0}] /\ tokens \in [Scenes -> {0}]
  BY DEF Init
<1>3. /\ race = NoRace /\ race.status # "settled" /\ posted = {} /\ tasks = 0 /\ rolls = 0
      /\ coins \in Nat /\ stamina \in 0..Full /\ AdCap \in Nat
  BY RaceAssumption DEF Init, NoRace
<1>4. TypeOK
  BY <1>1, <1>2, <1>3 DEF TypeOK
<1>5. TokensAreIssued /\ NoRollsYet /\ DoubleIsRecorded /\ RollsCounted
  BY <1>2, <1>3 DEF TokensAreIssued, NoRollsYet, DoubleIsRecorded, RollsCounted
<1>6. \A r \in Runs : run[r].at = "ready"
  BY <1>2 DEF Ready
<1>7. \A r \in Runs : SeesARace(r) /\ SawRoom(r) /\ SeesSettled(r)
  BY <1>6 DEF SeesARace, SawRoom, SeesSettled, Reviving, Doubling
<1> QED  BY <1>4, <1>5, <1>7 DEF RaceInv

\* Every read, every reward and every conditional UPDATE of a handler keeps the invariant.
LEMMA RaceStep == RaceInv /\ [Next]_vars => RaceInv'
<1> SUFFICES ASSUME RaceInv, [Next]_vars PROVE RaceInv'
  OBVIOUS
<1> USE RaceAssumption DEF RaceInv, TypeOK, TokensAreIssued, NoRollsYet, SeesARace, SawRoom, SeesSettled,
        DoubleIsRecorded, RollsCounted, Race, NoRace, Ready, Phases, Scenes,
        Reviving, Doubling, Go, On, End, At
<1>1. ASSUME NEW r \in Runs, Start(r)
      PROVE  RaceInv'
  BY <1>1, SMTT(60) DEF Start, Free
<1>2. ASSUME NEW r \in Runs, Look(r)
      PROVE  RaceInv'
  BY <1>2, SMTT(60) DEF Look, Affords
<1>3. ASSUME NEW r \in Runs, SpendStamina(r)
      PROVE  RaceInv'
  BY <1>3, SMTT(60) DEF SpendStamina
<1>4. ASSUME NEW r \in Runs, PayEntry(r)
      PROVE  RaceInv'
  BY <1>4, SMTT(60) DEF PayEntry, Posted
<1>5. ASSUME NEW r \in Runs, SaveRace(r)
      PROVE  RaceInv'
  <2>1. /\ run' = [run EXCEPT ![r] = Ready]
        /\ UNCHANGED <<coins, stamina, posted, issued, tokens, tasks, missed, rolls>>
    BY <1>5 DEF SaveRace
  <2>2. CASE race # NoRace
    <3>1. race' = race
      BY <1>5, <2>2 DEF SaveRace
    <3> HIDE DEF Race, NoRace
    <3> QED  BY <2>1, <3>1, SMTT(60)
  <2>3. CASE race = NoRace
    <3>1. race' \in Race /\ race'.status = "pending" /\ race'.revives = 0
      BY <1>5, <2>3 DEF SaveRace
    <3>2. race \notin Race /\ race.status # "settled" /\ race' # NoRace /\ 0 \in 0..MaxPerRace
      BY <2>3, <3>1
    <3> HIDE DEF Race, NoRace
    <3> QED  BY <2>1, <2>3, <3>1, <3>2, SMTT(60)
  <2> QED  BY <2>2, <2>3
<1>6. ASSUME NEW r \in Runs, Settle(r)
      PROVE  RaceInv'
  BY <1>6, SMTT(60) DEF Settle, Free
<1>7. ASSUME NEW r \in Runs, PayRace(r)
      PROVE  RaceInv'
  BY <1>7, SMTT(60) DEF PayRace, Credit, Posted
<1>8. ASSUME NEW r \in Runs, MarkSettled(r)
      PROVE  RaceInv'
  BY <1>8, SMTT(60) DEF MarkSettled, Unsettled
<1>19. ASSUME NEW r \in Runs, CountRace(r)
      PROVE  RaceInv'
  <2>1. /\ run' = [run EXCEPT ![r] = Ready] /\ tasks' \in Nat
        /\ UNCHANGED <<race, coins, stamina, posted, issued, tokens, rolls>>
    BY <1>19 DEF CountRace
  <2>2. missed' \in BOOLEAN
    BY <1>19 DEF CountRace
  <2> HIDE DEF Race, NoRace
  <2> QED  BY <2>1, <2>2, SMTT(60)
<1>9. ASSUME NEW r \in Runs, Revive(r)
      PROVE  RaceInv'
  BY <1>9, SMTT(60) DEF Revive, Free, Pending
<1>10. ASSUME NEW r \in Runs, ReviveToken(r)
      PROVE  RaceInv'
  BY <1>10, SMTT(60) DEF ReviveToken, Consume
<1>11. ASSUME NEW r \in Runs, Reroll(r)
      PROVE  RaceInv'
  <2>1. /\ run' = [run EXCEPT ![r] = Ready]
        /\ UNCHANGED <<coins, stamina, posted, issued, tokens, tasks, missed>>
    BY <1>11 DEF Reroll
  <2>2. CASE UNCHANGED <<race, rolls>>
    <3> HIDE DEF Race, NoRace
    <3> QED  BY <2>1, <2>2, SMTT(60)
  <2>3. ASSUME NEW w \in Rewards, race.status = "pending", race.revives = run[r].row.revives,
               race' = [race EXCEPT !.reward = w, !.revives = run[r].row.revives + 1],
               rolls' = rolls + 1
        PROVE  RaceInv'
    <3>1. race \in Race /\ run[r].row \in Race /\ run[r].row.revives < MaxPerRace
      BY <1>11 DEF Reroll
    <3>2. race.revives + 1 \in 0..MaxPerRace
      BY <2>3, <3>1
    <3>3. race' \in Race /\ race'.status = "pending" /\ race'.revives = race.revives + 1
      BY <2>3, <3>1, <3>2
    <3>4. race # NoRace /\ race' # NoRace
      BY <3>1, <3>3
    <3> HIDE DEF Race, NoRace
    <3> QED  BY <2>1, <2>3, <3>1, <3>2, <3>3, <3>4, SMTT(60)
  <2> QED  BY <1>11, <2>2, <2>3 DEF Reroll, Pending, SameCount
<1>12. ASSUME NEW r \in Runs, Double(r)
      PROVE  RaceInv'
  BY <1>12, SMTT(60) DEF Double, Free, NotDoubled
<1>13. ASSUME NEW r \in Runs, DoubleToken(r)
      PROVE  RaceInv'
  BY <1>13, SMTT(60) DEF DoubleToken, Consume
<1>14. ASSUME NEW r \in Runs, PayDouble(r)
      PROVE  RaceInv'
  BY <1>14, SMTT(60) DEF PayDouble, Credit, Posted
<1>15. ASSUME NEW r \in Runs, MarkDoubled(r)
      PROVE  RaceInv'
  <2>1. race \in Race /\ race' = [race EXCEPT !.doubled = TRUE]
    BY <1>15 DEF MarkDoubled
  <2>2. /\ race' \in Race /\ race'.status = race.status
        /\ race'.reward = race.reward /\ race'.revives = race.revives
    BY <2>1
  <2>3. race # NoRace /\ race' # NoRace
    BY <2>1, <2>2
  <2>4. /\ run' = [run EXCEPT ![r] = Ready]
        /\ UNCHANGED <<coins, stamina, posted, issued, tokens, tasks, missed, rolls>>
    BY <1>15 DEF MarkDoubled
  <2> HIDE DEF Race, NoRace
  <2>5. race \in Race
    BY <2>1
  <2> QED  BY <2>5, <2>2, <2>3, <2>4, SMTT(60)
<1>16. ASSUME NEW r \in Runs, Die(r)
      PROVE  RaceInv'
  BY <1>16, SMTT(60) DEF Die
<1>17. ASSUME NEW s \in Scenes, Issue(s)
      PROVE  RaceInv'
  BY <1>17, SMTT(60) DEF Issue, UnderCap
<1>18. CASE UNCHANGED vars
  BY <1>18 DEF vars
<1> QED
  BY <1>1, <1>2, <1>3, <1>4, <1>5, <1>6, <1>7, <1>8, <1>9, <1>10, <1>11, <1>12, <1>13, <1>14, <1>15, <1>16, <1>17, <1>18, <1>19 DEF Next, Enter, Finish, Watch

\* Who is about to count, the counts and the status tell the same story as long as they
\* stay what they are.
LEMMA StillCounted ==
  ASSUME TaskCountsTheRace, UNCHANGED <<tasks, missed>>,
         race'.status = "settled" <=> race.status = "settled",
         \A q \in Runs : run'[q].at = "count" <=> run[q].at = "count"
  PROVE  TaskCountsTheRace'
BY DEF TaskCountsTheRace, At

\* A handler that goes on, but not to count, leaves the others where they are.
LEMMA OneMoves ==
  ASSUME TypeOK, NEW r \in Runs, NEW at, Go(r, at) \/ On(r, at) \/ End(r)
  PROVE  /\ \A q \in Runs : q # r => run'[q] = run[q]
         /\ run'[r].at \in {at, "ready"} /\ (On(r, at) => run'[r].at = at) /\ (End(r) => run'[r].at = "ready")
BY SMTT(30) DEF TypeOK, Go, On, End, Ready

\* Before a race is settled nobody counts it, and no more than one does then.
LEMMA TaskKeeps == RaceInv /\ TaskCountsTheRace /\ [Next]_vars => TaskCountsTheRace'
<1> SUFFICES ASSUME RaceInv, TaskCountsTheRace, [Next]_vars PROVE TaskCountsTheRace'
  OBVIOUS
<1>0. TypeOK /\ \A r \in Runs : SeesARace(r) /\ SeesSettled(r)
  BY DEF RaceInv
\* A step that neither counts nor settles.
<1>1. ASSUME NEW r \in Runs, NEW at, at # "count", Go(r, at) \/ On(r, at) \/ End(r),
             run[r].at # "count", UNCHANGED <<tasks, missed>>,
             race'.status = "settled" <=> race.status = "settled"
      PROVE  TaskCountsTheRace'
  <2>1. \A q \in Runs : run'[q].at = "count" <=> run[q].at = "count"
    BY <1>0, <1>1, OneMoves
  <2> QED  BY <1>1, <2>1, StillCounted
<1>2. ASSUME NEW r \in Runs, Start(r) \/ Settle(r) \/ Revive(r) \/ Double(r) PROVE TaskCountsTheRace'
  <2>1. /\ Go(r, "look") \/ Go(r, "pay") \/ Go(r, "token") \/ Go(r, "token2")
        /\ run[r].at = "ready" /\ UNCHANGED <<race, tasks, missed>>
    BY <1>2 DEF Start, Settle, Revive, Double, Free, At
  <2> QED  BY <1>1, <2>1
<1>3. ASSUME NEW r \in Runs, Look(r) \/ SpendStamina(r) \/ PayEntry(r) PROVE TaskCountsTheRace'
  <2>1. /\ On(r, "spend") \/ On(r, "enter") \/ On(r, "save") \/ End(r)
        /\ run[r].at \in {"look", "spend", "enter"} /\ UNCHANGED <<race, tasks, missed>>
    BY <1>3 DEF Look, SpendStamina, PayEntry, At
  <2> QED  BY <1>1, <2>1
<1>4. ASSUME NEW r \in Runs, SaveRace(r) PROVE TaskCountsTheRace'
  <2>1. run[r].at = "save" /\ End(r) /\ UNCHANGED <<tasks, missed>>
    BY <1>4 DEF SaveRace, At
  <2>2. race'.status = "settled" <=> race.status = "settled"
    BY <1>4 DEF SaveRace, NoRace
  <2> QED  BY <1>1, <2>1, <2>2
<1>5. ASSUME NEW r \in Runs, PayRace(r) \/ ReviveToken(r) \/ DoubleToken(r) \/ PayDouble(r)
      PROVE  TaskCountsTheRace'
  <2>1. /\ On(r, "mark") \/ On(r, "reroll") \/ On(r, "pay2") \/ On(r, "mark2") \/ End(r)
        /\ run[r].at \in {"pay", "token", "token2", "pay2"} /\ UNCHANGED <<race, tasks, missed>>
    BY <1>5 DEF PayRace, ReviveToken, DoubleToken, PayDouble, Consume, At
  <2> QED  BY <1>1, <2>1
<1>6. ASSUME NEW r \in Runs, Reroll(r) \/ MarkDoubled(r) PROVE TaskCountsTheRace'
  <2>1. run[r].at \in {"reroll", "mark2"} /\ End(r) /\ UNCHANGED <<tasks, missed>>
    BY <1>6 DEF Reroll, MarkDoubled, At
  <2>2. race \in Race
    BY <1>0, <2>1 DEF SeesARace, SeesSettled, Reviving, Doubling
  <2>3. race'.status = race.status
    BY <1>6, <2>2 DEF Reroll, MarkDoubled, Race
  <2> QED  BY <1>1, <2>1, <2>3
\* The one UPDATE that hits the row; nobody has counted or is about to.
<1>7. ASSUME NEW r \in Runs, MarkSettled(r) PROVE TaskCountsTheRace'
  <2>1. run[r].at = "mark" /\ UNCHANGED <<tasks, missed>>
    BY <1>7 DEF MarkSettled, At
  <2>2. CASE ~Unsettled
    BY <1>1, <1>7, <2>1, <2>2 DEF MarkSettled
  <2>3. CASE Unsettled
    <3>1. On(r, "count") /\ race' = [race EXCEPT !.status = "settled"] /\ race.status = "pending"
      BY <1>7, <2>3 DEF MarkSettled, Unsettled
    <3>2. race \in Race
      BY <1>0, <2>1 DEF SeesARace
    <3>3. race'.status = "settled"
      BY <3>1, <3>2 DEF Race
    <3>4. run'[r].at = "count" /\ \A q \in Runs : q # r => run'[q] = run[q]
      BY <1>0, <3>1, OneMoves
    <3>5. tasks = 0 /\ ~missed /\ \A q \in Runs : run[q].at # "count"
      BY <3>1 DEF TaskCountsTheRace, At
    <3> QED  BY <2>1, <3>3, <3>4, <3>5 DEF TaskCountsTheRace, At
  <2> QED  BY <2>2, <2>3
\* The one that is about to count counts, or fails to, or dies.
<1>8. ASSUME NEW r \in Runs, run[r].at = "count", End(r), UNCHANGED race,
             \/ tasks' = tasks + 1 /\ UNCHANGED missed
             \/ missed' = TRUE /\ UNCHANGED tasks
      PROVE  TaskCountsTheRace'
  <2>1. /\ race.status = "settled" /\ tasks = 0 /\ ~missed
        /\ \A q \in Runs \ {r} : run[q].at # "count"
    BY <1>8 DEF TaskCountsTheRace, At
  <2>2. \A q \in Runs : run'[q].at # "count"
    BY <1>0, <1>8, <2>1, OneMoves
  <2>3. race'.status = "settled" /\ tasks' = IF missed' THEN 0 ELSE 1
    BY <1>8, <2>1
  <2> QED  BY <2>2, <2>3 DEF TaskCountsTheRace, At
<1>9. ASSUME NEW r \in Runs, CountRace(r) PROVE TaskCountsTheRace'
  BY <1>8, <1>9 DEF CountRace, At
<1>10. ASSUME NEW r \in Runs, Die(r) PROVE TaskCountsTheRace'
  <2>1. End(r) /\ UNCHANGED <<race, tasks>> /\ missed' = (missed \/ run[r].at = "count")
    BY <1>10 DEF Die, At
  <2>2. CASE run[r].at = "count"
    BY <1>8, <2>1, <2>2
  <2>3. CASE run[r].at # "count"
    <3>1. missed' = missed
      BY <1>0, <2>1, <2>3 DEF TypeOK
    <3> QED  BY <1>1, <2>1, <2>3, <3>1
  <2> QED  BY <2>2, <2>3
<1>11. ASSUME NEW s \in Scenes, Issue(s) PROVE TaskCountsTheRace'
  BY <1>11, StillCounted DEF Issue
<1>12. CASE UNCHANGED vars
  BY <1>12, StillCounted DEF vars
<1> QED
  BY <1>2, <1>3, <1>4, <1>5, <1>6, <1>7, <1>9, <1>10, <1>11, <1>12 DEF Next, Enter, Finish, Watch

LEMMA InitHolds == Init => IInv
<1>1. Init => TaskCountsTheRace
  BY SMTT(30) DEF Init, TaskCountsTheRace, At, Ready, NoRace
<1> QED  BY <1>1, RaceStart DEF IInv

LEMMA NextKeeps == IInv /\ [Next]_vars => IInv'
  BY RaceStep, TaskKeeps DEF IInv

\* So it holds for ever.
LEMMA Invariance == Spec => []IInv
  BY InitHolds, NextKeeps, PTL DEF Spec

-----------------------------------------------------------------------------
(* Theorems. *)

\* Every variable keeps its type, whatever a race costs, the free track included; in
\* particular coins, stamina and tokens do not go below zero, nor revives and tokens
\* over their caps.
THEOREM TypeCorrect == Spec => []TypeOK
<1>1. IInv => TypeOK
  BY DEF IInv, RaceInv
<1> QED  BY <1>1, Invariance, PTL

\* Handlers that settle, re-roll and double one race at the same time leave it
\* counted at most once by the task, and once unless its one count has failed or the
\* handler that owed it is still at it or has died; with the reward its second voucher
\* paid, and with as many re-rolls on the row as were written, within their cap.
THEOREM RaceIsOnRecord == Spec => []RaceOnRecord
<1>1. IInv => RaceOnRecord
  BY DEF IInv, RaceInv, RaceOnRecord
<1> QED  BY <1>1, Invariance, PTL

-----------------------------------------------------------------------------
(* Draws from the pools. DrawInv is inductive. *)

DrawSteps == {"look", "roll", "save", "state", "deliver", "mark"}
Jobs  == [at : DrawSteps, biz : Biz, pool : Pools, times : {1, Ten}, row : GachaDraw \cup {None}, pity : Nat]
Given == [asset : Assets, cost : Nat, prizes : Seq(GachaPrize)]

DrawShapes ==
  /\ wallet \in [Assets -> 0..Purse] /\ owned \in [Unique -> Nat] /\ left \in [Unique -> 0..Limit]
  /\ pity \in [Pools -> Nat] /\ rares \in [Pools -> Seq(BOOLEAN)]
  /\ draws \in [Biz -> GachaDraw \cup {None}] /\ granted \in [Biz -> Given \cup {None}]
  /\ doing \in [Handlers -> Jobs \cup {Idle}] /\ held \subseteq Handlers

\* A row charges in the currency of its pool; a handler hands over what the row says.
RowsFit == \A b \in Biz : draws[b] # None => draws[b].asset = Pool[draws[b].pool].asset

JobFits(r) ==
  /\ doing[r].at \in {"save", "state", "deliver", "mark"} => doing[r].row \in GachaDraw
  /\ doing[r].at = "save" => doing[r].row.pool = doing[r].pool /\ doing[r].row.asset = Pool[doing[r].pool].asset
  /\ doing[r].at \in {"state", "deliver", "mark"} =>
       /\ draws[doing[r].biz] # None /\ draws[doing[r].biz].pool = doing[r].row.pool
       /\ draws[doing[r].biz].prizes = doing[r].row.prizes /\ draws[doing[r].biz].cost = doing[r].row.cost

\* Where no repeat crosses over to another pool.
OnePool ==
  "crosses" \notin regime =>
    \A r \in Handlers : doing[r].at # "ready" =>
      /\ draws[doing[r].biz] # None => draws[doing[r].biz].pool = doing[r].pool
      /\ \A q \in Handlers : doing[q].at # "ready" /\ doing[q].biz = doing[r].biz => doing[q].pool = doing[r].pool

\* Where nobody dies and no lock lapses, a handler is alone.
Quiet == {"dies", "slow"} \cap regime = {}
Alone == Quiet => \A r \in Handlers : doing[r].at # "ready" => held = {r}

\* n is no less than the draws that came after the last rare one of s.
Tells(n, s) == n \in Nat /\ (n < Len(s) => s[Len(s) - n])

Windows(s, d) == \A i \in 1..(Len(s) - d + 1) : \E j \in i..(i + d - 1) : s[j]

Bounded(p) == Pool[p].pity > 0 /\ rareEntries(p) # {}

\* A roll that is not saved yet: what it makes of pity, and that the forced ones are rare.
IsFair(p, n, s, m) ==
  /\ m = After(n, s, Len(s))
  /\ Bounded(p) => \A k \in 1..Len(s) : Forced(p, After(n, s, k - 1)) => s[k].rare

PityHolds ==
  Quiet =>
    /\ \A p \in Pools : Bounded(p) => Windows(rares[p], Pool[p].pity)
    /\ \A p \in Pools : (\A r \in Handlers : ~(doing[r].at = "state" /\ doing[r].pool = p)) => Tells(pity[p], rares[p])
    /\ \A r \in Handlers : doing[r].at = "state" => Tells(doing[r].pity, rares[doing[r].pool])
    /\ \A r \in Handlers : doing[r].at = "save" =>
         IsFair(doing[r].pool, pity[doing[r].pool], doing[r].row.prizes, doing[r].pity)

\* Where nothing but a crossing goes wrong and the pool is of coins and compensates, what
\* was rolled can be paid and granted, and a row that is not delivered yet is about to be.
Covered(r) ==
  /\ wallet[Pool[doing[r].pool].asset] >= doing[r].row.cost
  /\ \A u \in Unique : left[u] >= Copies(u, doing[r].row)

NoneInReserve ==
  Only({"crosses"}) =>
    /\ \A u \in Unique : owned[u] + left[u] = Limit
    /\ \A b \in Biz : draws[b] # None /\ Deliverable(draws[b].pool) /\ ~draws[b].delivered =>
         \E r \in Handlers : doing[r].at \in {"state", "deliver", "mark"} /\ doing[r].biz = b
    /\ \A r \in Handlers : doing[r].at = "roll" => CanPay(doing[r].pool, doing[r].times)
    /\ \A r \in Handlers : doing[r].at \in {"save", "state", "deliver"} /\ Deliverable(doing[r].row.pool) => Covered(r)

DrawInv ==
  /\ DrawShapes /\ RowsFit /\ (\A r \in Handlers : JobFits(r)) /\ OnePool /\ Alone
  /\ NeverRerolled /\ PityHolds /\ NoneInReserve

-----------------------------------------------------------------------------
\* The greatest and the least of some of the first k numbers are among them.
LEMMA MaxIs ==
  ASSUME NEW k \in Nat, NEW S \in SUBSET (1..k), S # {}
  PROVE  Max(S) \in S /\ \A y \in S : Max(S) >= y
<1> DEFINE N == {k - x : x \in S}
<1>0. PICK one \in S : TRUE
  OBVIOUS
<1>1. N \in SUBSET Nat /\ k - one \in N
  OBVIOUS
<1>2. PICK m \in N : \A y \in N : m <= y
  BY <1>1, LeastNatural
<1>3. PICK x \in S : m = k - x
  OBVIOUS
<1>4. \A z \in S : k - x <= k - z
  BY <1>2, <1>3
<1>5. \A z \in S : x >= z
  BY <1>4
<1>6. \A z \in S : (\A w \in S : z >= w) => z = x
  BY <1>5
<1> QED  BY <1>5, <1>6 DEF Max

LEMMA MinIs ==
  ASSUME NEW k \in Nat, NEW S \in SUBSET (1..k), S # {}
  PROVE  Min(S) \in S
<1>1. S \in SUBSET Nat
  OBVIOUS
<1>2. PICK m \in S : \A y \in S : m <= y
  BY <1>1, LeastNatural
<1> QED  BY <1>2 DEF Min

\* A random number picks one of the entries it is drawn from.
LEMMA PickIsOne ==
  ASSUME NEW p \in Pools, NEW E \in SUBSET allEntries(p), E # {}, NEW t
  PROVE  pickEntry(p, E, t) \in E
<1> DEFINE over == {n \in E : t < totalWeight(p, {m \in E : m <= n})}
<1>1. PICK k \in Nat : E \in SUBSET (1..k)
  BY GachaAssumption DEF SoundPools, allEntries, Pools
<1>2. Max(E) \in E
  BY <1>1, MaxIs
<1>3. CASE over = {}
  BY <1>2, <1>3 DEF pickEntry
<1>4. CASE over # {}
  <2>1. Min(over) \in over
    BY <1>1, <1>4, MinIs
  <2> QED  BY <1>4, <2>1 DEF pickEntry
<1> QED  BY <1>3, <1>4

\* One draw gives an entry of the pool, a rare one where it is forced.
LEMMA DrawIsEntry ==
  ASSUME NEW p \in Pools, NEW n \in Nat, NEW e \in Draw1(p, n)
  PROVE  e \in Range(Pool[p].entries) /\ (Bounded(p) /\ Forced(p, n) => e.rare)
<1> DEFINE E == IF Forced(p, n) /\ rareEntries(p) # {} THEN rareEntries(p) ELSE allEntries(p)
<1>1. 1 \in allEntries(p)
  <2>1. Len(Pool[p].entries) \in Nat \ {0} /\ DOMAIN Pool[p].entries = 1..Len(Pool[p].entries)
    BY GachaAssumption DEF SoundPools, Pools
  <2> QED  BY <2>1 DEF allEntries
<1>2. E \in SUBSET allEntries(p) /\ E # {}
  BY <1>1 DEF rareEntries
<1>3. PICK i \in Picks(p, E) : e = Pool[p].entries[i]
  BY DEF Draw1
<1>4. i \in E
  BY <1>2, <1>3, PickIsOne DEF Picks
<1>5. e \in Range(Pool[p].entries)
  BY <1>2, <1>3, <1>4 DEF allEntries, Range
<1>6. ASSUME Bounded(p), Forced(p, n) PROVE e.rare
  BY <1>3, <1>4, <1>6 DEF Bounded, rareEntries
<1> QED  BY <1>5, <1>6

\* The counter is a number, and looks at nothing but which draws were rare.
LEMMA AfterIs ==
  ASSUME NEW n \in Nat, NEW s, NEW k \in Nat
  PROVE  /\ After(n, s, k) \in Nat
         /\ (\A j \in 1..k : ~s[j].rare) => After(n, s, k) = n + k
         /\ (\E j \in 1..k : s[j].rare) =>
              \E j \in 1..k : s[j].rare /\ After(n, s, k) = k - j
<1> DEFINE hits == {j \in 1..k : s[j].rare}
<1>1. CASE hits = {}
  BY <1>1 DEF After
<1>2. CASE hits # {}
  <2>1. Max(hits) \in hits
    BY <1>2, MaxIs
  <2>2. After(n, s, k) = k - Max(hits)
    BY <1>2 DEF After
  <2>3. PICK j \in 1..k : s[j].rare /\ After(n, s, k) = k - j
    BY <2>1, <2>2
  <2> QED  BY <1>2, <2>3
<1> QED  BY <1>1, <1>2

LEMMA AfterHit ==
  ASSUME NEW n \in Nat, NEW s, NEW k \in Nat, \E j \in 1..k : s[j].rare
  PROVE  \E j \in 1..k : s[j].rare /\ After(n, s, k) = k - j
  BY AfterIs

LEMMA AfterSame ==
  ASSUME NEW n, NEW s, NEW t, NEW k \in Nat, \A j \in 1..k : s[j].rare = t[j].rare
  PROVE  After(n, s, k) = After(n, t, k)
<1>1. {j \in 1..k : s[j].rare} = {j \in 1..k : t[j].rare}
  OBVIOUS
<1> QED  BY <1>1 DEF After

\* The flags of what is saved, after those of what was saved before.
Flags(t) == [n \in DOMAIN t |-> t[n].rare]

LEMMA FlagsAppended ==
  ASSUME NEW s \in Seq(BOOLEAN), NEW t \in Seq(GachaPrize), \A e \in GachaPrize : e.rare \in BOOLEAN
  PROVE  /\ s \o Flags(t) \in Seq(BOOLEAN) /\ Len(s \o Flags(t)) = Len(s) + Len(t)
         /\ \A i \in 1..Len(s) : (s \o Flags(t))[i] = s[i]
         /\ \A k \in 1..Len(t) : (s \o Flags(t))[Len(s) + k] = t[k].rare
<1>1. DOMAIN t = 1..Len(t) /\ Len(t) \in Nat /\ \A k \in 1..Len(t) : t[k] \in GachaPrize
  OBVIOUS
<1>2. Flags(t) \in [1..Len(t) -> BOOLEAN]
  BY <1>1 DEF Flags
<1>3. Flags(t) \in Seq(BOOLEAN) /\ Len(Flags(t)) = Len(t)
  BY <1>1, <1>2
<1>4. \A k \in 1..Len(t) : Flags(t)[k] = t[k].rare
  BY <1>1 DEF Flags
<1> DEFINE f == Flags(t)
<1>5. f \in Seq(BOOLEAN)
  BY <1>3
<1> HIDE DEF f
<1>6. /\ s \o f \in Seq(BOOLEAN) /\ Len(s \o f) = Len(s) + Len(f)
      /\ \A i \in 1..Len(s) : (s \o f)[i] = s[i]
      /\ \A k \in 1..Len(f) : (s \o f)[Len(s) + k] = f[k]
  BY <1>5, ConcatProperties
<1> QED  BY <1>3, <1>4, <1>6 DEF f

\* The counter still tells of the draws so far while a round goes on.
LEMMA TellsOn ==
  ASSUME NEW s, NEW u, NEW n \in Nat, NEW t, NEW k \in Nat, Tells(n, s), Len(s) \in Nat,
         \A i \in 1..Len(s) : u[i] = s[i], \A j \in 1..k : u[Len(s) + j] = t[j].rare
  PROVE  After(n, t, k) \in Nat /\ (After(n, t, k) < Len(s) + k => u[Len(s) + k - After(n, t, k)])
<1>1. CASE \E j \in 1..k : t[j].rare
  <2>1. PICK j \in 1..k : t[j].rare /\ After(n, t, k) = k - j
    BY <1>1, AfterHit
  <2>2. Len(s) + k - After(n, t, k) = Len(s) + j
    BY <2>1
  <2> QED  BY <2>1, <2>2, AfterIs
<1>2. CASE \A j \in 1..k : ~t[j].rare
  <2>1. After(n, t, k) = n + k
    BY <1>2, AfterIs
  <2>2. Len(s) + k - (n + k) = Len(s) - n /\ (n < Len(s) => Len(s) - n \in 1..Len(s))
    OBVIOUS
  <2> QED  BY <2>1, <2>2 DEF Tells
<1> QED  BY <1>1, <1>2

\* What a round leaves: no more draws than the pity without a rare one, over what was
\* saved before and what is saved now.
LEMMA RoundIsFair ==
  ASSUME NEW p \in Pools, NEW s \in Seq(BOOLEAN), NEW t \in Seq(GachaPrize), NEW n \in Nat, NEW m,
         \A e \in GachaPrize : e.rare \in BOOLEAN, Tells(n, s), IsFair(p, n, t, m)
  PROVE  /\ Tells(m, s \o Flags(t))
         /\ Bounded(p) /\ Windows(s, Pool[p].pity) => Windows(s \o Flags(t), Pool[p].pity)
<1> DEFINE u == s \o Flags(t)
           d == Pool[p].pity
<1>1. /\ u \in Seq(BOOLEAN) /\ Len(u) = Len(s) + Len(t) /\ Len(s) \in Nat /\ Len(t) \in Nat
      /\ \A i \in 1..Len(s) : u[i] = s[i]
      /\ \A k \in 1..Len(t) : u[Len(s) + k] = t[k].rare
  BY FlagsAppended
<1> HIDE DEF u
<1>2. ASSUME NEW k \in 0..Len(t)
      PROVE  After(n, t, k) \in Nat /\ (After(n, t, k) < Len(s) + k => u[Len(s) + k - After(n, t, k)])
  <2>1. k \in Nat /\ \A j \in 1..k : u[Len(s) + j] = t[j].rare
    BY <1>1
  <2> QED  BY <1>1, <2>1, TellsOn
<1>3. Tells(m, u)
  BY <1>1, <1>2 DEF IsFair, Tells
<1>4. ASSUME Bounded(p), Windows(s, d) PROVE Windows(u, d)
  <2>0. d \in Nat /\ d > 0
    BY <1>4, GachaAssumption DEF SoundPools, Bounded, Pools
  <2> HIDE DEF d
  <2> SUFFICES ASSUME NEW i \in 1..(Len(u) - d + 1) PROVE \E j \in i..(i + d - 1) : u[j]
    BY DEF Windows
  <2>1. CASE i + d - 1 <= Len(s)
    <3>1. i \in 1..(Len(s) - d + 1)
      BY <1>1, <2>0, <2>1
    <3>2. PICK j \in i..(i + d - 1) : s[j]
      BY <1>4, <3>1 DEF Windows
    <3>3. j \in 1..Len(s)
      BY <1>1, <2>0, <2>1, <3>1
    <3>4. u[j]
      BY <1>1, <3>2, <3>3
    <3> QED  BY <3>4
  <2>2. CASE i + d - 1 > Len(s)
    <3> DEFINE k == i + d - 1 - Len(s)
               a == After(n, t, k - 1)
    <3>1. k \in 1..Len(t) /\ k - 1 \in 0..Len(t)
      BY <1>1, <2>0, <2>2
    <3>2. a \in Nat /\ (a < Len(s) + (k - 1) => u[Len(s) + (k - 1) - a])
      BY <1>2, <3>1
    <3>3. CASE a + 1 >= d
      <4>1. Forced(p, a)
        BY <2>0, <3>3 DEF Forced, d
      <4>2. t[k].rare
        BY <1>4, <3>1, <4>1 DEF IsFair
      <4>3. Len(s) + k = i + d - 1 /\ i + d - 1 \in i..(i + d - 1)
        BY <1>1, <2>0
      <4> QED  BY <1>1, <3>1, <4>2, <4>3
    <3>4. CASE a + 1 < d
      <4> DEFINE j == Len(s) + (k - 1) - a
      <4>1. j \in i..(i + d - 1) /\ a < Len(s) + (k - 1)
        BY <1>1, <2>0, <3>1, <3>2, <3>4, SMTT(30)
      <4> QED  BY <3>2, <4>1
    <3> HIDE DEF a, k
    <3> QED  BY <2>0, <3>2, <3>3, <3>4
  <2> QED  BY <1>1, <2>0, <2>1, <2>2
<1> QED  BY <1>3, <1>4 DEF u

-----------------------------------------------------------------------------
\* Every prize knows whether it is rare.
LEMMA PrizesKnowRare == \A e \in GachaPrize : e.rare \in BOOLEAN
<1>1. \A p \in Pools : \A e \in Range(Pool[p].entries) : e.rare \in BOOLEAN
  BY GachaAssumption DEF SoundPools, Pools, Range
<1>2. \A e \in GachaEntry : e.rare \in BOOLEAN
  BY <1>1 DEF GachaEntry, Prize
<1> QED  BY <1>2 DEF GachaPrize

\* What is planned for a round: a prize for each draw, as rare as what was drawn, and
\* counted as it is.
LEMMA PlanIsFair ==
  ASSUME NEW p \in Pools, NEW times \in Nat, NEW n \in Nat, NEW entries \in rollAll(p, times, n)
  PROVE  /\ plan(p, entries) \in Seq(GachaPrize)
         /\ After(n, entries, times) \in Nat
         /\ IsFair(p, n, plan(p, entries), After(n, entries, times))
<1> DEFINE t == plan(p, entries)
<1>1. entries \in [1..times -> Range(Pool[p].entries)]
  BY DEF rollAll
<1>2. \A k \in 1..times : entries[k] \in Draw1(p, After(n, entries, k - 1))
  BY DEF rollAll
<1>3. \A k \in 1..times : Prize(entries[k]) \in GachaPrize /\ entries[k].rare \in BOOLEAN
  <2>1. \A e \in Range(Pool[p].entries) : Prize(e) \in GachaEntry
    BY DEF GachaEntry
  <2>2. \A e \in Range(Pool[p].entries) : e.rare \in BOOLEAN
    BY GachaAssumption DEF SoundPools, Pools, Range
  <2>3. \A k \in 1..times : entries[k] \in Range(Pool[p].entries)
    BY <1>1
  <2> QED  BY <2>1, <2>2, <2>3 DEF GachaPrize
<1>4. \A k \in 1..times : t[k] \in GachaPrize /\ t[k].rare = entries[k].rare
  <2> TAKE k \in 1..times
  <2>1. [code |-> Pool[p].dupe, rare |-> entries[k].rare] \in GachaPrize
    BY <1>3 DEF GachaPrize
  <2>2. k \in DOMAIN entries
    BY <1>1
  <2>3. t[k] = Prize(entries[k]) \/ t[k] = [code |-> Pool[p].dupe, rare |-> entries[k].rare]
    BY <2>2 DEF plan
  <2> QED  BY <1>3, <2>1, <2>3 DEF Prize
<1>5. t \in [1..times -> GachaPrize]
  <2>1. t = [k \in 1..times |-> t[k]]
    BY <1>1 DEF plan
  <2> QED  BY <1>4, <2>1
<1>6. t \in Seq(GachaPrize) /\ Len(t) = times
  BY <1>5
<1> HIDE DEF t
<1>7. \A k \in 0..times : After(n, entries, k) = After(n, t, k) /\ After(n, t, k) \in Nat
  <2> TAKE k \in 0..times
  <2>1. k \in Nat /\ \A j \in 1..k : entries[j].rare = t[j].rare
    BY <1>4
  <2> QED  BY <2>1, AfterSame, AfterIs
<1>8. ASSUME Bounded(p), NEW k \in 1..times, Forced(p, After(n, t, k - 1)) PROVE t[k].rare
  <2>1. k - 1 \in 0..times
    OBVIOUS
  <2>2. After(n, entries, k - 1) \in Nat /\ Forced(p, After(n, entries, k - 1))
    BY <1>7, <1>8, <2>1
  <2>3. entries[k].rare
    BY <1>2, <1>8, <2>2, DrawIsEntry
  <2> QED  BY <1>4, <2>3
<1>9. IsFair(p, n, t, After(n, entries, times))
  BY <1>6, <1>7, <1>8 DEF IsFair
<1> QED  BY <1>6, <1>7, <1>9 DEF t

\* Where the pool compensates, a round is planned with one copy of a unique prize at
\* most, and none of one the player has.
LEMMA PlanHasOneCopy ==
  ASSUME NEW p \in Pools, NEW times \in Nat, NEW n \in Nat, NEW entries \in rollAll(p, times, n),
         NEW drawn, drawn.prizes = plan(p, entries), NEW u \in Unique, owned \in [Unique -> Nat], Compensates(p)
  PROVE  Copies(u, drawn) \in {0, 1} /\ (owned[u] > 0 => Copies(u, drawn) = 0)
<1> DEFINE t == plan(p, entries)
           C == {k \in DOMAIN t : t[k].code = u}
<1>1. DOMAIN entries = 1..times
  BY DEF rollAll
<1>2. DOMAIN t = 1..times
  BY <1>1 DEF plan
<1>3. Pool[p].dupe # u
  BY GachaAssumption DEF SoundPools, Pools
<1>4. \A k \in C : /\ entries[k].code = u /\ ~(owned[u] > 0)
                   /\ \A m \in 1..(k - 1) : entries[m].code # u
  BY <1>1, <1>2, <1>3 DEF plan, Prize
<1>5. \A k, m \in C : k = m
  <2> SUFFICES ASSUME NEW k \in C, NEW m \in C, k # m PROVE FALSE
    OBVIOUS
  <2>1. k \in 1..times /\ m \in 1..times
    BY <1>2
  <2>2. m \in 1..(k - 1) \/ k \in 1..(m - 1)
    BY <2>1
  <2> QED  BY <1>4, <2>2
<1>6. Copies(u, drawn) = Cardinality(C)
  BY DEF Copies
<1> HIDE DEF C
<1>7. C = {} \/ \E k \in C : C = {k}
  BY <1>5
<1>8. Cardinality(C) \in {0, 1} /\ (C = {} => Cardinality(C) = 0)
  BY <1>7, FS_EmptySet, FS_Singleton
<1>9. owned[u] > 0 => C = {}
  BY <1>4
<1> QED  BY <1>6, <1>8, <1>9

\* The copies in a row are a number.
LEMMA CopiesAreNumber ==
  ASSUME NEW drawn \in GachaDraw, NEW u
  PROVE  Copies(u, drawn) \in Nat
<1>1. drawn.prizes \in Seq(GachaPrize)
  BY DEF GachaDraw
<1>2. DOMAIN drawn.prizes = 1..Len(drawn.prizes) /\ Len(drawn.prizes) \in Nat
  BY <1>1
<1>3. IsFiniteSet(1..Len(drawn.prizes))
  BY <1>2, FS_Interval
<1>4. IsFiniteSet({n \in DOMAIN drawn.prizes : drawn.prizes[n].code = u})
  BY <1>2, <1>3, FS_Subset
<1> QED  BY <1>4, FS_CardinalityType DEF Copies

\* No row is none.
LEMMA NoneIsNoRow == None \notin GachaDraw /\ None \notin Given /\ Idle \notin Jobs
<1>1. "none" \notin {"pool", "cost", "asset", "prizes", "delivered"} /\ "biz" \notin {"at"}
  OBVIOUS
<1>2. DOMAIN None = {"none"} /\ DOMAIN Idle = {"at"}
  BY DEF None, Idle
<1>3. \A x \in GachaDraw : DOMAIN x = {"pool", "cost", "asset", "prizes", "delivered"}
  BY DEF GachaDraw
<1>4. \A x \in Given : DOMAIN x = {"asset", "cost", "prizes"}
  BY DEF Given
<1>5. \A x \in Jobs : DOMAIN x = {"at", "biz", "pool", "times", "row", "pity"}
  BY DEF Jobs
<1> QED  BY <1>1, <1>2, <1>3, <1>4, <1>5

-----------------------------------------------------------------------------
\* A handler goes on, with this row and this counter, or is done.
Onward(r, at, drawn, n) ==
  /\ doing' \in [Handlers -> Jobs \cup {Idle}]
  /\ \A q \in Handlers \ {r} : doing'[q] = doing[q]
  /\ doing'[r] \in Jobs /\ doing'[r].at = at /\ doing'[r].row = drawn /\ doing'[r].pity = n
  /\ doing'[r].biz = doing[r].biz /\ doing'[r].pool = doing[r].pool /\ doing'[r].times = doing[r].times

Leaves(r) ==
  /\ doing' \in [Handlers -> Jobs \cup {Idle}]
  /\ \A q \in Handlers \ {r} : doing'[q] = doing[q]
  /\ doing'[r] = Idle /\ held' = held \ {r}

LEMMA AtWork ==
  ASSUME DrawShapes, NEW r \in Handlers
  PROVE  /\ doing[r].at # "ready" =>
              /\ doing[r] \in Jobs /\ doing[r].at \in DrawSteps /\ doing[r].biz \in Biz /\ doing[r].pool \in Pools
              /\ doing[r].times \in {1, Ten} /\ doing[r].row \in GachaDraw \cup {None} /\ doing[r].pity \in Nat
         /\ doing[r] \in Jobs \/ doing[r] = Idle
         /\ doing[r] \in Jobs => doing[r].at # "ready"
BY DEF DrawShapes, Jobs, Idle, DrawSteps

LEMMA GoesOnward ==
  ASSUME DrawShapes, NEW r \in Handlers, doing[r].at # "ready", NEW at \in DrawSteps,
         NEW drawn \in GachaDraw \cup {None}, NEW n \in Nat,
         doing' = [doing EXCEPT ![r] = [at |-> at, biz |-> doing[r].biz, pool |-> doing[r].pool,
                                        times |-> doing[r].times, row |-> drawn, pity |-> n]]
  PROVE  Onward(r, at, drawn, n)
<1> DEFINE j == [at |-> at, biz |-> doing[r].biz, pool |-> doing[r].pool,
                 times |-> doing[r].times, row |-> drawn, pity |-> n]
<1>1. j \in Jobs
  BY AtWork DEF Jobs
<1>2. doing \in [Handlers -> Jobs \cup {Idle}] /\ doing' = [doing EXCEPT ![r] = j]
  BY DEF DrawShapes
<1>3. doing'[r] = j /\ \A q \in Handlers \ {r} : doing'[q] = doing[q]
  BY <1>2
<1>4. doing' \in [Handlers -> Jobs \cup {Idle}]
  BY <1>1, <1>2
<1> QED  BY <1>1, <1>3, <1>4 DEF Onward

LEMMA CarryIsOnward ==
  ASSUME DrawShapes, NEW r \in Handlers, doing[r].at # "ready", NEW at \in DrawSteps,
         NEW drawn \in GachaDraw \cup {None}, NEW n \in Nat, Carry(r, at, drawn, n)
  PROVE  Onward(r, at, drawn, n)
<1> DEFINE j == doing[r]
           f == [j EXCEPT !.at = at, !.row = drawn, !.pity = n]
           g == [at |-> at, biz |-> j.biz, pool |-> j.pool, times |-> j.times, row |-> drawn, pity |-> n]
<1>1. DOMAIN j = {"at", "biz", "pool", "times", "row", "pity"} /\ doing \in [Handlers -> Jobs \cup {Idle}]
  BY AtWork DEF Jobs, DrawShapes
<1>2. doing' = [doing EXCEPT ![r] = f]
  BY <1>1 DEF Carry
<1> HIDE DEF j
<1>3. DOMAIN f = DOMAIN g /\ DOMAIN g = {"at", "biz", "pool", "times", "row", "pity"}
  BY <1>1
<1>4. f.at = g.at /\ f.biz = g.biz /\ f.pool = g.pool /\ f.times = g.times /\ f.row = g.row /\ f.pity = g.pity
  BY <1>1
<1>5. f = [x \in DOMAIN f |-> f[x]] /\ g = [x \in DOMAIN g |-> g[x]]
  OBVIOUS
<1> HIDE DEF f, g
<1>6. \A x \in DOMAIN g : f[x] = g[x]
  BY <1>3, <1>4
<1>7. f = g
  BY <1>3, <1>5, <1>6, Zenon
<1>8. doing' = [doing EXCEPT ![r] = [at |-> at, biz |-> doing[r].biz, pool |-> doing[r].pool,
                                     times |-> doing[r].times, row |-> drawn, pity |-> n]]
  BY <1>2, <1>7 DEF g, j
<1> QED  BY <1>8, GoesOnward

LEMMA GotoIsOnward ==
  ASSUME DrawShapes, NEW r \in Handlers, doing[r].at # "ready", NEW at \in DrawSteps, Goto(r, at)
  PROVE  Onward(r, at, doing[r].row, doing[r].pity)
<1>1. doing[r] \in Jobs /\ doing \in [Handlers -> Jobs \cup {Idle}]
  BY AtWork DEF DrawShapes
<1>2. [doing[r] EXCEPT !.at = at] =
        [at |-> at, biz |-> doing[r].biz, pool |-> doing[r].pool,
         times |-> doing[r].times, row |-> doing[r].row, pity |-> doing[r].pity]
  BY <1>1 DEF Jobs
<1>3. doing' = [doing EXCEPT ![r] = [doing[r] EXCEPT !.at = at]]
  BY DEF Goto
<1>4. doing' = [doing EXCEPT ![r] =
        [at |-> at, biz |-> doing[r].biz, pool |-> doing[r].pool,
         times |-> doing[r].times, row |-> doing[r].row, pity |-> doing[r].pity]]
  BY <1>2, <1>3
<1>5. doing[r].row \in GachaDraw \cup {None} /\ doing[r].pity \in Nat
  BY AtWork
<1> QED  BY <1>4, <1>5, GoesOnward

LEMMA QuitIsLeaving ==
  ASSUME DrawShapes, NEW r \in Handlers, Quit(r)
  PROVE  Leaves(r)
BY DEF DrawShapes, Quit, Leaves

\* Where nobody dies and no lock lapses, the others wait.
LEMMA OthersWait ==
  ASSUME Alone, Quiet, NEW r \in Handlers, doing[r].at # "ready", NEW q \in Handlers, q # r
  PROVE  doing[q].at = "ready"
BY DEF Alone

LEMMA StaysAlone ==
  ASSUME Alone, NEW r \in Handlers, doing[r].at # "ready", NEW at, NEW drawn, NEW n, Onward(r, at, drawn, n),
         UNCHANGED <<regime, held>>
  PROVE  Alone'
<1> SUFFICES ASSUME Quiet, NEW q \in Handlers, doing'[q].at # "ready" PROVE held = {q}
  BY DEF Alone, Quiet
<1>1. doing[q].at # "ready"
  BY DEF Onward
<1> QED  BY <1>1 DEF Alone

\* A handler that is done takes nothing with it, unless it dies between saving its
\* draws and its counter.
LEMMA LeavingKeeps ==
  ASSUME DrawInv, NEW r \in Handlers, Leaves(r), doing[r].at # "ready",
         UNCHANGED <<regime, wallet, owned, left, pity, draws, granted, rares>>,
         Quiet => doing[r].at # "state",
         Only({"crosses"}) /\ doing[r].at \in {"state", "deliver", "mark"} => ~Deliverable(doing[r].row.pool)
  PROVE  DrawInv'
<1> USE DEF Leaves
<1>0. DrawShapes /\ Idle.at = "ready"
  BY DEF DrawInv, Idle
<1>1. DrawShapes'
  BY DEF DrawInv, DrawShapes
<1>2. RowsFit'
  BY DEF DrawInv, RowsFit
<1>3. \A q \in Handlers : JobFits(q)'
  BY <1>0 DEF DrawInv, JobFits
<1>4. OnePool'
  BY <1>0 DEF DrawInv, OnePool
<1>5. Alone'
  BY <1>0 DEF DrawInv, Alone, Quiet
<1>6. NeverRerolled'
  BY DEF DrawInv, NeverRerolled
<1>7. PityHolds'
  BY <1>0 DEF DrawInv, PityHolds, Quiet
<1>8. NoneInReserve'
  BY <1>0 DEF DrawInv, NoneInReserve, Only, Covered, CanPay, Price, JobFits
<1> QED  BY <1>1, <1>2, <1>3, <1>4, <1>5, <1>6, <1>7, <1>8 DEF DrawInv

-----------------------------------------------------------------------------
\* A request starts where the player's lock is free.
LEMMA RequestKeeps ==
  ASSUME DrawInv, NEW r \in Handlers, NEW b \in Biz, NEW p \in Pools, NEW n \in {1, Ten}, Request(r, b, p, n)
  PROVE  DrawInv'
<1> DEFINE j == [at |-> "look", biz |-> b, pool |-> p, times |-> n, row |-> None, pity |-> 0]
<1>0. /\ DrawShapes /\ doing[r].at = "ready" /\ held = {} /\ held' = {r}
      /\ "crosses" \notin regime => SamePool(b, p)
      /\ doing' = [doing EXCEPT ![r] = j]
      /\ UNCHANGED <<regime, wallet, owned, left, pity, draws, granted, rares>>
  BY DEF DrawInv, Request, IsAt
<1>0a. j \in Jobs /\ doing \in [Handlers -> Jobs \cup {Idle}]
  BY <1>0 DEF DrawShapes, Jobs, DrawSteps
<1>0b. /\ doing'[r] = j /\ \A q \in Handlers \ {r} : doing'[q] = doing[q]
      /\ doing' \in [Handlers -> Jobs \cup {Idle}]
  BY <1>0, <1>0a
<1>0c. doing'[r].at = "look" /\ doing'[r].biz = b /\ doing'[r].pool = p
  BY <1>0b
<1> HIDE DEF j
<1>1. DrawShapes'
  BY <1>0, <1>0b DEF DrawShapes
<1>2. RowsFit'
  BY <1>0 DEF DrawInv, RowsFit
<1>3. \A q \in Handlers : JobFits(q)'
  BY <1>0, <1>0b, <1>0c DEF DrawInv, JobFits
<1>4. OnePool'
  BY <1>0, <1>0b, <1>0c DEF DrawInv, OnePool, SamePool, IsAt
<1>5. Alone'
  BY <1>0, <1>0b, <1>0c DEF DrawInv, Alone, Quiet
<1>6. NeverRerolled'
  BY <1>0 DEF DrawInv, NeverRerolled
<1>7. PityHolds'
  BY <1>0, <1>0b, <1>0c DEF DrawInv, PityHolds, Quiet
<1>8. NoneInReserve'
  BY <1>0, <1>0b, <1>0c DEF DrawInv, NoneInReserve, Only, Covered, CanPay, Price
<1> QED  BY <1>1, <1>2, <1>3, <1>4, <1>5, <1>6, <1>7, <1>8 DEF DrawInv

\* A request sent again is done, or hands over what its row says.
LEMMA ReplayKeeps ==
  ASSUME DrawInv, NEW r \in Handlers, Replay(r)
  PROVE  DrawInv'
<1>0. /\ DrawShapes /\ doing[r].at = "look" /\ Row(r) # None
      /\ UNCHANGED <<regime, wallet, owned, left, pity, draws, granted, rares>>
  BY DEF DrawInv, Replay, IsAt
<1>1. CASE Row(r).delivered
  <2>1. Leaves(r)
    BY <1>0, <1>1, QuitIsLeaving DEF Replay
  <2> QED  BY <1>0, <2>1, LeavingKeeps
<1>2. CASE ~Row(r).delivered
  <2> DEFINE b == doing[r].biz
             drawn == draws[b]
  <2>1. b \in Biz /\ drawn \in GachaDraw /\ drawn # None /\ ~drawn.delivered /\ doing[r].pity \in Nat
    BY <1>0, <1>2, AtWork DEF Row, DrawShapes
  <2>2. Carry(r, "deliver", drawn, doing[r].pity) /\ held' = held
    BY <1>0, <1>2 DEF Replay, Row
  <2>3. Onward(r, "deliver", drawn, doing[r].pity)
    BY <1>0, <2>1, <2>2, CarryIsOnward DEF DrawSteps
  <2> HIDE DEF drawn, b
  <2> USE <1>0, <2>1, <2>2, <2>3 DEF Onward
  <2>4. ASSUME Only({"crosses"}) PROVE ~Deliverable(drawn.pool)
    <3> SUFFICES ASSUME Deliverable(drawn.pool) PROVE FALSE
      OBVIOUS
    <3>1. Quiet
      BY <2>4 DEF Only, Quiet
    <3>2. PICK q \in Handlers : doing[q].at \in {"state", "deliver", "mark"}
      BY <2>4 DEF DrawInv, NoneInReserve, drawn, b
    <3>3. doing[q].at # "ready" /\ doing[q].at # doing[r].at
      BY <3>2
    <3>4. held = {q} /\ held = {r}
      BY <3>1, <3>3 DEF DrawInv, Alone
    <3> QED  BY <3>3, <3>4
  <2>5. DrawShapes'
    BY DEF DrawShapes
  <2>6. RowsFit'
    BY DEF DrawInv, RowsFit
  <2>7. \A q \in Handlers : JobFits(q)'
    BY DEF DrawInv, JobFits, drawn, b
  <2>8. OnePool'
    BY DEF DrawInv, OnePool, b
  <2>9. Alone'
    BY DEF DrawInv, Alone, Quiet
  <2>10. NeverRerolled'
    BY DEF DrawInv, NeverRerolled
  <2>11. PityHolds'
    BY DEF DrawInv, PityHolds, Quiet
  <2>12. NoneInReserve'
    BY <2>4 DEF DrawInv, NoneInReserve, Only, Covered, CanPay, Price
  <2> QED  BY <2>5, <2>6, <2>7, <2>8, <2>9, <2>10, <2>11, <2>12 DEF DrawInv
<1> QED  BY <1>1, <1>2

\* What could be paid can be while nothing is spent.
LEMMA CanPayStays ==
  ASSUME UNCHANGED wallet, NEW q \in Handlers, CanPay(doing'[q].pool, doing'[q].times)
  PROVE  CanPay(doing[q].pool, doing[q].times)'
  BY DEF CanPay, Price

\* What is asked for can be paid, or the handler is done.
LEMMA PrecheckKeeps ==
  ASSUME DrawInv, NEW r \in Handlers, Precheck(r)
  PROVE  DrawInv'
<1>0. /\ DrawShapes /\ doing[r].at = "look"
      /\ UNCHANGED <<regime, wallet, owned, left, pity, draws, granted, rares>>
  BY DEF DrawInv, Precheck, IsAt
<1>1. CASE ~CanPay(doing[r].pool, doing[r].times)
  <2>1. Leaves(r)
    BY <1>0, <1>1, QuitIsLeaving DEF Precheck
  <2> QED  BY <1>0, <2>1, LeavingKeeps
<1>2. CASE CanPay(doing[r].pool, doing[r].times)
  <2>1. Onward(r, "roll", doing[r].row, doing[r].pity) /\ held' = held
    BY <1>0, <1>2, GotoIsOnward DEF Precheck, DrawSteps
  <2> USE <1>0, <2>1 DEF Onward
  <2>2. DrawShapes'
    BY DEF DrawShapes
  <2>3. RowsFit'
    BY DEF DrawInv, RowsFit
  <2>4. \A q \in Handlers : JobFits(q)'
    BY DEF DrawInv, JobFits
  <2>5. OnePool'
    BY DEF DrawInv, OnePool
  <2>6. Alone'
    BY DEF DrawInv, Alone, Quiet
  <2>7. NeverRerolled'
    BY DEF DrawInv, NeverRerolled
  <2>8. PityHolds'
    BY DEF DrawInv, PityHolds, Quiet
  <2>9. NoneInReserve'
    <3> SUFFICES ASSUME Only({"crosses"}) PROVE NoneInReserve'
      BY DEF NoneInReserve, Only
    <3>1. \A c \in Biz : draws[c] # None /\ Deliverable(draws[c].pool) /\ ~draws[c].delivered =>
            \E q \in Handlers : doing'[q].at \in {"state", "deliver", "mark"} /\ doing'[q].biz = c
      <4> SUFFICES ASSUME NEW c \in Biz, draws[c] # None, Deliverable(draws[c].pool), ~draws[c].delivered
                   PROVE  \E q \in Handlers : doing'[q].at \in {"state", "deliver", "mark"} /\ doing'[q].biz = c
        OBVIOUS
      <4>1. PICK q \in Handlers : doing[q].at \in {"state", "deliver", "mark"} /\ doing[q].biz = c
        BY DEF DrawInv, NoneInReserve
      <4> QED  BY <4>1
    <3>2. \A q \in Handlers : doing'[q].at = "roll" => CanPay(doing'[q].pool, doing'[q].times)
      BY <1>2 DEF DrawInv, NoneInReserve
    <3>3. \A q \in Handlers : doing'[q].at \in {"save", "state", "deliver"} /\ Deliverable(doing'[q].row.pool) => Covered(q)'
      BY DEF DrawInv, NoneInReserve, Covered
    <3>4. \A u \in Unique : owned[u] + left[u] = Limit
      BY DEF DrawInv, NoneInReserve
    <3> QED  BY <3>1, <3>2, <3>3, <3>4, CanPayStays DEF NoneInReserve
  <2> QED  BY <2>2, <2>3, <2>4, <2>5, <2>6, <2>7, <2>8, <2>9 DEF DrawInv
<1> QED  BY <1>1, <1>2

\* A roll is a round of the pool, counted from the pity as it stands.
LEMMA RollKeeps ==
  ASSUME DrawInv, NEW r \in Handlers, Roll(r)
  PROVE  DrawInv'
<1>0. /\ DrawShapes /\ doing[r].at = "roll"
      /\ UNCHANGED <<regime, wallet, owned, left, pity, draws, granted, held, rares>>
  BY DEF DrawInv, Roll, IsAt
<1> DEFINE p == doing[r].pool
           times == doing[r].times
<1>1. /\ p \in Pools /\ times \in {1, Ten} /\ times \in Nat /\ pity[p] \in Nat
      /\ owned \in [Unique -> Nat] /\ Price(p, times) \in Nat
  <2>1. p \in Pools /\ times \in {1, Ten} /\ times \in Nat
    BY <1>0, AtWork, GachaAssumption DEF SoundPools
  <2>2. Pool[p].cost \in Nat /\ Pool[p].costTen \in Nat
    BY <2>1, GachaAssumption DEF SoundPools, Pools
  <2> QED  BY <1>0, <2>1, <2>2 DEF DrawShapes, Price
<1> DEFINE drawn(e) == [pool |-> p, cost |-> Price(p, times), asset |-> Pool[p].asset,
                      prizes |-> plan(p, e), delivered |-> FALSE]
<1>2. PICK e \in rollAll(p, times, pity[p]) : Carry(r, "save", drawn(e), After(pity[p], e, times))
  BY DEF Roll
<1> DEFINE w == drawn(e)
           m == After(pity[p], e, times)
<1>3. plan(p, e) \in Seq(GachaPrize) /\ m \in Nat /\ IsFair(p, pity[p], w.prizes, m)
  BY <1>1, <1>2, PlanIsFair
<1>4. w \in GachaDraw
  BY <1>1, <1>3 DEF GachaDraw, Assets
<1>5. Compensates(p) => \A u \in Unique : Copies(u, w) \in {0, 1} /\ (owned[u] > 0 => Copies(u, w) = 0)
  BY <1>1, <1>2, PlanHasOneCopy
<1>6. w.pool = p /\ w.asset = Pool[p].asset /\ w.cost = Price(p, times)
  OBVIOUS
<1>7. Carry(r, "save", w, m)
  BY <1>2
<1> HIDE DEF w, m
<1>8. Onward(r, "save", w, m)
  BY <1>0, <1>3, <1>4, <1>7, CarryIsOnward DEF DrawSteps
<1> USE <1>0, <1>1, <1>3, <1>4, <1>6, <1>8 DEF Onward
<1>9. DrawShapes'
  BY DEF DrawShapes
<1>10. RowsFit'
  BY DEF DrawInv, RowsFit
<1>11. \A q \in Handlers : JobFits(q)'
  BY DEF DrawInv, JobFits
<1>12. OnePool'
  BY DEF DrawInv, OnePool
<1>13. Alone'
  BY DEF DrawInv, Alone, Quiet
<1>14. NeverRerolled'
  BY DEF DrawInv, NeverRerolled
<1>15. PityHolds'
  BY ZenonT(60) DEF DrawInv, PityHolds, Quiet
<1>16. NoneInReserve'
  <2>1. ASSUME Only({"crosses"}), Deliverable(p) PROVE Covered(r)'
    <3>1. wallet[Pool[p].asset] >= w.cost
      BY <2>1 DEF DrawInv, NoneInReserve, CanPay, Deliverable
    <3>2. ASSUME NEW u \in Unique PROVE left[u] >= Copies(u, w)
      <4>1. left[u] = Limit - owned[u] /\ owned[u] \in Nat /\ Limit \in Nat \ {0} /\ left[u] \in 0..Limit
        BY <2>1, GachaAssumption DEF SoundPools, DrawInv, NoneInReserve, DrawShapes
      <4> QED  BY <1>5, <2>1, <4>1 DEF Deliverable
    <3> QED  BY <3>1, <3>2 DEF Covered
  <2> SUFFICES ASSUME Only({"crosses"}) PROVE NoneInReserve'
    BY DEF NoneInReserve, Only
  <2>2. \A c \in Biz : draws[c] # None /\ Deliverable(draws[c].pool) /\ ~draws[c].delivered =>
          \E q \in Handlers : doing'[q].at \in {"state", "deliver", "mark"} /\ doing'[q].biz = c
    <3> SUFFICES ASSUME NEW c \in Biz, draws[c] # None, Deliverable(draws[c].pool), ~draws[c].delivered
                 PROVE  \E q \in Handlers : doing'[q].at \in {"state", "deliver", "mark"} /\ doing'[q].biz = c
      OBVIOUS
    <3>1. PICK q \in Handlers : doing[q].at \in {"state", "deliver", "mark"} /\ doing[q].biz = c
      BY DEF DrawInv, NoneInReserve
    <3> QED  BY <3>1
  <2>3. \A q \in Handlers : doing'[q].at = "roll" => CanPay(doing'[q].pool, doing'[q].times)
    BY DEF DrawInv, NoneInReserve
  <2>4. \A q \in Handlers \ {r} : doing'[q].at \in {"save", "state", "deliver"} /\ Deliverable(doing'[q].row.pool) => Covered(q)'
    BY DEF DrawInv, NoneInReserve, Covered
  <2>5. \A u \in Unique : owned[u] + left[u] = Limit
    BY DEF DrawInv, NoneInReserve
  <2>6. \A q \in Handlers : doing'[q].at \in {"save", "state", "deliver"} /\ Deliverable(doing'[q].row.pool) => Covered(q)'
    BY <2>1, <2>4
  <2> QED  BY <2>2, <2>3, <2>5, <2>6, CanPayStays DEF NoneInReserve
<1> QED  BY <1>9, <1>10, <1>11, <1>12, <1>13, <1>14, <1>15, <1>16 DEF DrawInv

\* What is saved first stands: the handler that finds a row is done.
LEMMA SaveDrawKeeps ==
  ASSUME DrawInv, NEW r \in Handlers, SaveDraw(r)
  PROVE  DrawInv'
<1> DEFINE b == doing[r].biz
           p == doing[r].pool
           w == doing[r].row
<1>0. /\ DrawShapes /\ doing[r].at = "save" /\ b \in Biz /\ p \in Pools /\ doing[r].pity \in Nat
      /\ w \in GachaDraw /\ w.pool = p /\ w.asset = Pool[p].asset /\ JobFits(r)
      /\ UNCHANGED <<regime, wallet, owned, left, pity, granted>>
  BY AtWork DEF DrawInv, SaveDraw, IsAt, JobFits
<1>1. CASE draws[b] # None
  <2>1. ~Unsaved(b)
    BY <1>1 DEF Unsaved
  <2>2. Leaves(r) /\ UNCHANGED <<draws, rares>>
    BY <1>0, <2>1, QuitIsLeaving DEF SaveDraw
  <2> QED  BY <1>0, <2>2, LeavingKeeps
<1>2. CASE draws[b] = None
  <2>1. /\ Unsaved(b) /\ draws' = [draws EXCEPT ![b] = w] /\ held' = held /\ Goto(r, "state")
        /\ rares' = [rares EXCEPT ![p] = @ \o Flags(w.prizes)]
    BY <1>2 DEF SaveDraw, Unsaved, Flags
  <2>2. Onward(r, "state", w, doing[r].pity)
    BY <1>0, <2>1, GotoIsOnward DEF DrawSteps
  <2>3. /\ rares \in [Pools -> Seq(BOOLEAN)] /\ w.prizes \in Seq(GachaPrize)
        /\ draws \in [Biz -> GachaDraw \cup {None}] /\ w # None
    BY <1>0, NoneIsNoRow DEF DrawShapes, GachaDraw
  <2> DEFINE s == rares[p] \o Flags(w.prizes)
  <2>4. s \in Seq(BOOLEAN)
    BY <1>0, <2>3, FlagsAppended, PrizesKnowRare
  <2>5. /\ rares' \in [Pools -> Seq(BOOLEAN)] /\ rares'[p] = s
        /\ \A o \in Pools \ {p} : rares'[o] = rares[o]
    BY <1>0, <2>1, <2>3, <2>4
  <2>6. /\ draws' \in [Biz -> GachaDraw \cup {None}] /\ draws'[b] = w
        /\ \A c \in Biz \ {b} : draws'[c] = draws[c]
    BY <1>0, <2>1, <2>3
  <2> HIDE DEF s, w, p, b
  <2>7. ASSUME Quiet
        PROVE  /\ Tells(doing[r].pity, s)
               /\ Bounded(p) => Windows(s, Pool[p].pity)
    <3>1. \A q \in Handlers : doing[q].at = "state" => FALSE
      <4> SUFFICES ASSUME NEW q \in Handlers, doing[q].at = "state" PROVE FALSE
        OBVIOUS
      <4>1. doing[q].at # "ready" /\ doing[r].at # "ready" /\ q # r
        BY <1>0
      <4> QED  BY <2>7, <4>1 DEF DrawInv, Alone
    <3>2. Tells(pity[p], rares[p]) /\ (Bounded(p) => Windows(rares[p], Pool[p].pity))
      BY <1>0, <2>7, <3>1 DEF DrawInv, PityHolds
    <3>3. IsFair(p, pity[p], w.prizes, doing[r].pity)
      BY <1>0, <2>7 DEF DrawInv, PityHolds, w, p
    <3>4. pity[p] \in Nat /\ rares[p] \in Seq(BOOLEAN)
      BY <1>0, <2>3 DEF DrawShapes
    <3> QED  BY <1>0, <2>3, <3>2, <3>3, <3>4, RoundIsFair, PrizesKnowRare DEF s
  <2> USE DEF Onward
  <2>8. OnePool'
    <3> SUFFICES ASSUME "crosses" \notin regime, NEW q \in Handlers, doing'[q].at # "ready"
                 PROVE  /\ draws'[doing'[q].biz] # None => draws'[doing'[q].biz].pool = doing'[q].pool
                        /\ \A o \in Handlers : doing'[o].at # "ready" /\ doing'[o].biz = doing'[q].biz =>
                             doing'[o].pool = doing'[q].pool
      BY <1>0 DEF OnePool
    <3>1. \A o \in Handlers : /\ doing'[o].biz = doing[o].biz /\ doing'[o].pool = doing[o].pool
                              /\ doing'[o].at # "ready" => doing[o].at # "ready"
      BY <1>0, <2>2
    <3>2. doing[q].biz = b => doing[q].pool = p
      BY <1>0, <3>1 DEF DrawInv, OnePool, b, p
    <3>3. doing[q].biz \in Biz
      BY <1>0, <3>1, AtWork
    <3> QED  BY <1>0, <2>6, <3>1, <3>2, <3>3 DEF DrawInv, OnePool
  <2>9. NoneInReserve'
    <3> SUFFICES ASSUME Only({"crosses"}) PROVE NoneInReserve'
      BY <1>0 DEF NoneInReserve, Only
    <3>1. \A c \in Biz : draws'[c] # None /\ Deliverable(draws'[c].pool) /\ ~draws'[c].delivered =>
            \E q \in Handlers : doing'[q].at \in {"state", "deliver", "mark"} /\ doing'[q].biz = c
      <4> SUFFICES ASSUME NEW c \in Biz, c # b, draws[c] # None, Deliverable(draws[c].pool), ~draws[c].delivered
                   PROVE  \E q \in Handlers : doing'[q].at \in {"state", "deliver", "mark"} /\ doing'[q].biz = c
        BY <2>2, <2>6 DEF b
      <4>1. PICK q \in Handlers : doing[q].at \in {"state", "deliver", "mark"} /\ doing[q].biz = c
        BY DEF DrawInv, NoneInReserve
      <4>2. doing'[q] = doing[q]
        BY <1>0, <2>2, <4>1
      <4> QED  BY <4>1, <4>2
    <3>2. \A q \in Handlers : doing'[q].at = "roll" => CanPay(doing[q].pool, doing[q].times)'
      BY <1>0, <2>2 DEF DrawInv, NoneInReserve, CanPay, Price
    <3>3. \A q \in Handlers : doing'[q].at \in {"save", "state", "deliver"} /\ Deliverable(doing'[q].row.pool) => Covered(q)'
      BY <1>0, <2>2 DEF DrawInv, NoneInReserve, Covered, w
    <3>4. \A u \in Unique : owned'[u] + left'[u] = Limit
      BY <1>0 DEF DrawInv, NoneInReserve
    <3> QED  BY <3>1, <3>2, <3>3, <3>4 DEF NoneInReserve
  <2> USE <1>0, <1>2, <2>1, <2>2, <2>3, <2>5, <2>6 DEF Onward
  <2>10. DrawShapes'
    BY DEF DrawShapes
  <2>11. RowsFit'
    BY DEF DrawInv, RowsFit
  <2>12. ASSUME NEW q \in Handlers PROVE JobFits(q)'
    <3>1. CASE q = r
      BY <3>1 DEF JobFits, b, w
    <3>2. CASE q # r
      <4>1. doing'[q] = doing[q] /\ JobFits(q)
        BY <3>2 DEF DrawInv
      <4>2. doing[q].at \in {"state", "deliver", "mark"} => doing[q].biz \in Biz \ {b}
        BY <4>1, AtWork DEF JobFits
      <4> QED  BY <4>1, <4>2 DEF JobFits
    <3> QED  BY <3>1, <3>2
  <2>13. Alone'
    BY <1>0, <2>1, <2>2, StaysAlone DEF DrawInv
  <2>14. NeverRerolled'
    BY DEF DrawInv, NeverRerolled
  <2>15. PityHolds'
    <3> SUFFICES ASSUME Quiet' PROVE PityHolds'
      BY DEF PityHolds
    <3>0. Quiet /\ \A q \in Handlers \ {r} : doing[q].at = "ready" /\ doing'[q].at = "ready"
      BY OthersWait DEF Quiet, DrawInv
    <3>1. \A o \in Pools : Bounded(o) => Windows(rares'[o], Pool[o].pity)
      BY <2>7, <3>0 DEF DrawInv, PityHolds
    <3>2. ASSUME NEW o \in Pools, \A q \in Handlers : ~(doing'[q].at = "state" /\ doing'[q].pool = o)
          PROVE  Tells(pity'[o], rares'[o])
      <4>1. o # p
        BY <3>2 DEF p
      <4>2. \A q \in Handlers : doing[q].at # "state"
        BY <3>0
      <4> QED  BY <3>0, <4>1, <4>2 DEF DrawInv, PityHolds
    <3>3. \A q \in Handlers : doing'[q].at = "state" => q = r
      BY <3>0
    <3>4. Tells(doing'[r].pity, rares'[doing'[r].pool])
      BY <2>7, <3>0 DEF p
    <3>5. \A q \in Handlers : doing'[q].at # "save"
      BY <3>0
    <3> QED  BY <3>1, <3>2, <3>3, <3>4, <3>5 DEF PityHolds
  <2> QED  BY <2>8, <2>9, <2>10, <2>11, <2>12, <2>13, <2>14, <2>15 DEF DrawInv
<1> QED  BY <1>1, <1>2

\* The counter is saved: it tells of the draws that were.
LEMMA SaveStateKeeps ==
  ASSUME DrawInv, NEW r \in Handlers, SaveState(r)
  PROVE  DrawInv'
<1> DEFINE p == doing[r].pool
<1>0. /\ DrawShapes /\ doing[r].at = "state" /\ p \in Pools /\ doing[r].pity \in Nat
      /\ pity' = [pity EXCEPT ![p] = doing[r].pity] /\ Goto(r, "deliver")
      /\ UNCHANGED <<regime, wallet, owned, left, draws, granted, held, rares>>
  BY AtWork DEF DrawInv, SaveState, IsAt
<1>1. Onward(r, "deliver", doing[r].row, doing[r].pity)
  BY <1>0, GotoIsOnward DEF DrawSteps
<1>2. /\ pity' \in [Pools -> Nat] /\ pity'[p] = doing[r].pity
      /\ \A o \in Pools \ {p} : pity'[o] = pity[o]
  BY <1>0 DEF DrawShapes
<1> HIDE DEF p
<1>3. Alone'
  BY <1>0, <1>1, StaysAlone DEF DrawInv
<1>4. PityHolds'
  <2> SUFFICES ASSUME Quiet PROVE PityHolds'
    BY <1>0 DEF PityHolds, Quiet
  <2>1. \A q \in Handlers \ {r} : doing[q].at = "ready" /\ doing'[q].at = "ready"
    BY <1>0, <1>1, OthersWait DEF DrawInv, Onward
  <2>2. Tells(doing[r].pity, rares[p])
    BY <1>0 DEF DrawInv, PityHolds, p
  <2>3. ASSUME NEW o \in Pools PROVE Tells(pity'[o], rares[o])
    <3>1. CASE o = p
      BY <1>2, <2>2, <3>1
    <3>2. CASE o # p
      <4>1. \A q \in Handlers : ~(doing[q].at = "state" /\ doing[q].pool = o)
        BY <2>1, <3>2 DEF p
      <4> QED  BY <1>2, <3>2, <4>1 DEF DrawInv, PityHolds
    <3> QED  BY <3>1, <3>2
  <2>4. \A q \in Handlers : doing'[q].at \notin {"state", "save"}
    BY <1>1, <2>1 DEF Onward
  <2>5. \A o \in Pools : Bounded(o) => Windows(rares[o], Pool[o].pity)
    BY DEF DrawInv, PityHolds
  <2> QED  BY <1>0, <2>3, <2>4, <2>5 DEF PityHolds
<1> USE <1>0, <1>1, <1>2 DEF Onward
<1>5. DrawShapes'
  BY DEF DrawShapes
<1>6. RowsFit'
  BY DEF DrawInv, RowsFit
<1>7. \A q \in Handlers : JobFits(q)'
  BY DEF DrawInv, JobFits
<1>8. OnePool'
  BY DEF DrawInv, OnePool
<1>9. NeverRerolled'
  BY DEF DrawInv, NeverRerolled
<1>10. NoneInReserve'
  BY DEF DrawInv, NoneInReserve, Only, Covered, CanPay, Price
<1> QED  BY <1>3, <1>4, <1>5, <1>6, <1>7, <1>8, <1>9, <1>10 DEF DrawInv

\* The voucher is posted once, with what the row says was rolled.
LEMMA DeliverKeeps ==
  ASSUME DrawInv, NEW r \in Handlers, Deliver(r)
  PROVE  DrawInv'
<1> DEFINE b == doing[r].biz
           w == doing[r].row
           a == Pool[doing[r].pool].asset
<1>0. /\ DrawShapes /\ doing[r].at = "deliver" /\ b \in Biz /\ a \in Assets /\ doing[r].pool \in Pools
      /\ w \in GachaDraw /\ JobFits(r) /\ UNCHANGED <<regime, pity, draws, rares>>
  BY AtWork DEF DrawInv, Deliver, IsAt, JobFits, Assets
<1>0a. ASSUME Quiet, NEW q \in Handlers, q # r PROVE doing[q].at = "ready"
  BY <1>0, <1>0a, OthersWait DEF DrawInv
<1>1. CASE granted[b] # None
  <2>1. Goto(r, "mark") /\ UNCHANGED <<wallet, owned, left, granted, held>>
    BY <1>1 DEF Deliver
  <2>2. Onward(r, "mark", w, doing[r].pity)
    BY <1>0, <2>1, GotoIsOnward DEF DrawSteps
  <2>3. Alone'
    BY <1>0, <2>1, <2>2, StaysAlone DEF DrawInv
  <2> HIDE DEF w, b, a
  <2> USE <1>0, <2>1, <2>2 DEF Onward
  <2>4. DrawShapes'
    BY DEF DrawShapes
  <2>5. RowsFit'
    BY DEF DrawInv, RowsFit
  <2>6. \A q \in Handlers : JobFits(q)'
    BY DEF DrawInv, JobFits, w
  <2>7. OnePool'
    BY DEF DrawInv, OnePool
  <2>8. NeverRerolled'
    BY DEF DrawInv, NeverRerolled
  <2>9. PityHolds'
    BY DEF DrawInv, PityHolds, Quiet
  <2>10. NoneInReserve'
    BY DEF DrawInv, NoneInReserve, Only, Covered, CanPay, Price
  <2> QED  BY <2>3, <2>4, <2>5, <2>6, <2>7, <2>8, <2>9, <2>10 DEF DrawInv
<1> DEFINE Paid == wallet[a] >= w.cost /\ \A u \in Unique : left[u] >= Copies(u, w)
<1>2. CASE granted[b] = None /\ Paid
  <2>1. /\ wallet' = [wallet EXCEPT ![a] = @ - w.cost]
        /\ owned' = [u \in Unique |-> owned[u] + Copies(u, w)]
        /\ left' = [u \in Unique |-> left[u] - Copies(u, w)]
        /\ granted' = [granted EXCEPT ![b] = [asset |-> a, cost |-> w.cost, prizes |-> w.prizes]]
        /\ Goto(r, "mark") /\ held' = held
    BY <1>2 DEF Deliver
  <2>2. Onward(r, "mark", w, doing[r].pity)
    BY <1>0, <2>1, GotoIsOnward DEF DrawSteps
  <2>3. Alone'
    BY <1>0, <2>1, <2>2, StaysAlone DEF DrawInv
  <2>4. wallet' \in [Assets -> 0..Purse]
    <3>1. wallet \in [Assets -> 0..Purse] /\ w.cost \in Nat /\ Purse \in Nat
      BY <1>0, GachaAssumption DEF SoundPools, DrawShapes, GachaDraw
    <3>2. wallet[a] - w.cost \in 0..Purse
      BY <1>0, <1>2, <3>1
    <3> QED  BY <2>1, <3>1, <3>2
  <2>5. /\ owned' \in [Unique -> Nat] /\ left' \in [Unique -> 0..Limit]
        /\ \A u \in Unique : owned'[u] + left'[u] = owned[u] + left[u]
    <3>1. \A u \in Unique : /\ Copies(u, w) \in Nat /\ owned[u] \in Nat /\ left[u] \in 0..Limit
                            /\ left[u] >= Copies(u, w)
      BY <1>0, <1>2, CopiesAreNumber DEF DrawShapes
    <3>2. \A u \in Unique : /\ owned[u] + Copies(u, w) \in Nat /\ left[u] - Copies(u, w) \in 0..Limit
                            /\ owned[u] + Copies(u, w) + (left[u] - Copies(u, w)) = owned[u] + left[u]
      BY <3>1, GachaAssumption DEF SoundPools
    <3> QED  BY <2>1, <3>2
  <2>6. [asset |-> a, cost |-> w.cost, prizes |-> w.prizes] \in Given
    BY <1>0 DEF Given, GachaDraw
  <2>7. /\ granted' \in [Biz -> Given \cup {None}]
        /\ granted'[b].asset = a /\ granted'[b].cost = w.cost /\ granted'[b].prizes = w.prizes
        /\ \A c \in Biz \ {b} : granted'[c] = granted[c]
    BY <1>0, <2>1, <2>6 DEF DrawShapes
  <2>8. draws[b] # None /\ draws[b].prizes = w.prizes /\ draws[b].cost = w.cost
    BY <1>0 DEF JobFits
  <2>9. "crosses" \notin regime => draws[b].asset = a
    BY <1>0, <2>8 DEF DrawInv, OnePool, RowsFit
  <2> HIDE DEF w, b, a
  <2>10. DrawShapes'
    BY <1>0, <2>1, <2>2, <2>4, <2>5, <2>7 DEF DrawShapes, Onward
  <2>11. RowsFit'
    BY <1>0 DEF DrawInv, RowsFit
  <2>12. \A q \in Handlers : JobFits(q)'
    BY <1>0, <2>2 DEF DrawInv, JobFits, Onward, w
  <2>13. OnePool'
    BY <1>0, <2>2 DEF DrawInv, OnePool, Onward
  <2>14. NeverRerolled'
    BY <1>0, <2>7, <2>8, <2>9 DEF DrawInv, NeverRerolled
  <2>15. PityHolds'
    BY <1>0, <2>2 DEF DrawInv, PityHolds, Quiet, Onward
  <2>16. NoneInReserve'
    <3> SUFFICES ASSUME Only({"crosses"}) PROVE NoneInReserve'
      BY <1>0 DEF NoneInReserve, Only
    <3>1. Quiet
      BY DEF Only, Quiet
    <3>2. \A q \in Handlers : doing'[q].at \notin {"roll", "save", "state", "deliver"}
      BY <1>0a, <2>2, <3>1 DEF Onward
    <3>3. \A c \in Biz : draws[c] # None /\ Deliverable(draws[c].pool) /\ ~draws[c].delivered =>
            \E q \in Handlers : doing'[q].at \in {"state", "deliver", "mark"} /\ doing'[q].biz = c
      <4> SUFFICES ASSUME NEW c \in Biz, draws[c] # None, Deliverable(draws[c].pool), ~draws[c].delivered
                   PROVE  \E q \in Handlers : doing'[q].at \in {"state", "deliver", "mark"} /\ doing'[q].biz = c
        OBVIOUS
      <4>1. PICK q \in Handlers : doing[q].at \in {"state", "deliver", "mark"} /\ doing[q].biz = c
        BY DEF DrawInv, NoneInReserve
      <4>2. q = r
        BY <1>0a, <3>1, <4>1
      <4> QED  BY <2>2, <4>1, <4>2 DEF Onward
    <3>4. \A u \in Unique : owned'[u] + left'[u] = Limit
      BY <2>5 DEF DrawInv, NoneInReserve
    <3> QED  BY <1>0, <3>2, <3>3, <3>4 DEF NoneInReserve
  <2> QED  BY <2>3, <2>10, <2>11, <2>12, <2>13, <2>14, <2>15, <2>16 DEF DrawInv
<1>3. CASE granted[b] = None /\ ~Paid
  <2>1. Leaves(r) /\ UNCHANGED <<wallet, owned, left, granted>>
    BY <1>0, <1>3, QuitIsLeaving DEF Deliver
  <2>2. Only({"crosses"}) => ~Deliverable(w.pool)
    BY <1>0, <1>3 DEF DrawInv, NoneInReserve, Covered
  <2> QED  BY <1>0, <2>1, <2>2, LeavingKeeps
<1> QED  BY <1>1, <1>2, <1>3

\* The row is marked by the handler that delivered it, which is then done.
LEMMA MarkDeliveredKeeps ==
  ASSUME DrawInv, NEW r \in Handlers, MarkDelivered(r)
  PROVE  DrawInv'
<1> DEFINE b == doing[r].biz
<1>0. /\ DrawShapes /\ doing[r].at = "mark" /\ b \in Biz /\ Leaves(r)
      /\ UNCHANGED <<regime, wallet, owned, left, pity, granted, rares>>
      /\ draws' = [draws EXCEPT ![b].delivered = TRUE]
  BY AtWork, QuitIsLeaving DEF DrawInv, MarkDelivered, IsAt
<1>1. draws \in [Biz -> GachaDraw \cup {None}] /\ draws[b] \in GachaDraw
  BY <1>0 DEF DrawInv, DrawShapes, JobFits
<1> DEFINE w == [draws[b] EXCEPT !.delivered = TRUE]
<1>2. w \in GachaDraw
  BY <1>1 DEF GachaDraw
<1>3. /\ w.delivered /\ w.pool = draws[b].pool /\ w.asset = draws[b].asset
      /\ w.prizes = draws[b].prizes /\ w.cost = draws[b].cost
  BY <1>1 DEF GachaDraw
<1>4. draws' = [draws EXCEPT ![b] = w]
  BY <1>0
<1> HIDE DEF w
<1>5. /\ draws' \in [Biz -> GachaDraw \cup {None}] /\ draws'[b] = w /\ w # None
      /\ \A c \in Biz \ {b} : draws'[c] = draws[c]
  BY <1>0, <1>1, <1>2, <1>4, NoneIsNoRow
<1>6. \A c \in Biz : /\ draws'[c] # None <=> draws[c] # None
                     /\ draws'[c].pool = draws[c].pool /\ draws'[c].asset = draws[c].asset
                     /\ draws'[c].prizes = draws[c].prizes /\ draws'[c].cost = draws[c].cost
  BY <1>1, <1>3, <1>5, NoneIsNoRow
<1>7. /\ doing'[r].at = "ready" /\ held' = held \ {r} /\ doing' \in [Handlers -> Jobs \cup {Idle}]
      /\ \A q \in Handlers \ {r} : doing'[q] = doing[q]
  BY <1>0 DEF Leaves, Idle
<1>8. \A q \in Handlers : doing[q].at # "ready" => doing[q].biz \in Biz
  BY <1>0, AtWork
<1> HIDE DEF b
<1>9. DrawShapes'
  BY <1>0, <1>5, <1>7 DEF DrawShapes
<1>10. RowsFit'
  BY <1>6 DEF DrawInv, RowsFit
<1>11. \A q \in Handlers : JobFits(q)'
  <2> SUFFICES ASSUME NEW q \in Handlers, q # r PROVE JobFits(q)'
    BY <1>7 DEF JobFits
  <2>1. doing'[q] = doing[q] /\ JobFits(q)
    BY <1>7 DEF DrawInv
  <2>2. doing[q].at \in {"state", "deliver", "mark"} => doing[q].biz \in Biz
    BY <1>8
  <2> QED  BY <1>6, <2>1, <2>2 DEF JobFits
<1>12. OnePool'
  BY <1>0, <1>6, <1>7, <1>8 DEF DrawInv, OnePool
<1>13. Alone'
  BY <1>0, <1>7 DEF DrawInv, Alone, Quiet
<1>14. NeverRerolled'
  BY <1>0, <1>6 DEF DrawInv, NeverRerolled
<1>15. PityHolds'
  BY <1>0, <1>7 DEF DrawInv, PityHolds, Quiet
<1>16. NoneInReserve'
  <2> SUFFICES ASSUME Only({"crosses"}) PROVE NoneInReserve'
    BY <1>0 DEF NoneInReserve, Only
  <2>1. ASSUME NEW c \in Biz, draws'[c] # None, Deliverable(draws'[c].pool), ~draws'[c].delivered
        PROVE  \E q \in Handlers : doing'[q].at \in {"state", "deliver", "mark"} /\ doing'[q].biz = c
    <3>1. c # b /\ draws[c] # None /\ ~draws[c].delivered
      BY <1>3, <1>5, <2>1
    <3>2. PICK q \in Handlers : doing[q].at \in {"state", "deliver", "mark"} /\ doing[q].biz = c
      BY <1>6, <2>1, <3>1 DEF DrawInv, NoneInReserve
    <3>3. doing'[q] = doing[q]
      BY <1>7, <3>1, <3>2 DEF b
    <3> QED  BY <3>2, <3>3
  <2>2. ASSUME NEW q \in Handlers, doing'[q].at # "ready" PROVE doing'[q] = doing[q]
    BY <1>7, <2>2
  <2>3. \A q \in Handlers : doing'[q].at \in {"save", "state", "deliver"} /\ Deliverable(doing'[q].row.pool) => Covered(q)'
    BY <1>0, <2>2 DEF DrawInv, NoneInReserve, Covered
  <2>4. \A q \in Handlers : doing'[q].at = "roll" => CanPay(doing[q].pool, doing[q].times)' /\ doing'[q] = doing[q]
    BY <1>0, <2>2 DEF DrawInv, NoneInReserve, CanPay, Price
  <2>5. \A u \in Unique : owned'[u] + left'[u] = Limit
    BY <1>0 DEF DrawInv, NoneInReserve
  <2> QED  BY <2>1, <2>3, <2>4, <2>5 DEF NoneInReserve, CanPay, Price
<1> QED  BY <1>9, <1>10, <1>11, <1>12, <1>13, <1>14, <1>15, <1>16 DEF DrawInv

\* What goes wrong, goes wrong where it is allowed to.
LEMMA OthersKeep ==
  ASSUME DrawInv, \/ \E r \in Handlers : DrawDies(r)
                  \/ Lapse
                  \/ \E a \in Assets : SpendElsewhere(a)
                  \/ \E u \in Unique : OtherMints(u)
  PROVE  DrawInv'
<1>0. DrawShapes
  BY DEF DrawInv
<1>1. ASSUME NEW r \in Handlers, DrawDies(r) PROVE DrawInv'
  <2>1. "dies" \in regime /\ Leaves(r) /\ doing[r].at # "ready"
    BY <1>0, <1>1, QuitIsLeaving DEF DrawDies, IsAt
  <2>2. ~Quiet /\ ~Only({"crosses"})
    BY <2>1 DEF Quiet, Only
  <2> QED  BY <1>1, <2>1, <2>2, LeavingKeeps DEF DrawDies
<1>2. ASSUME Lapse PROVE DrawInv'
  <2>1. /\ held' = {} /\ "slow" \in regime
        /\ UNCHANGED <<regime, wallet, owned, left, pity, draws, granted, doing, rares>>
    BY <1>2 DEF Lapse
  <2>2. ~Quiet /\ ~Only({"crosses"})
    BY <2>1 DEF Quiet, Only
  <2> QED  BY <2>1, <2>2 DEF DrawInv, DrawShapes, RowsFit, JobFits, OnePool, Alone, NeverRerolled,
             PityHolds, NoneInReserve, Quiet, Only
<1>3. ASSUME NEW a \in Assets, SpendElsewhere(a) PROVE DrawInv'
  <2>1. /\ wallet[a] > 0 /\ wallet' = [wallet EXCEPT ![a] = @ - 1] /\ "spends" \in regime
        /\ UNCHANGED <<regime, owned, left, pity, draws, granted, doing, held, rares>>
    BY <1>3 DEF SpendElsewhere
  <2>2. wallet' \in [Assets -> 0..Purse]
    BY <1>0, <2>1, GachaAssumption DEF SoundPools, DrawShapes
  <2>3. ~Only({"crosses"})
    BY <2>1 DEF Only
  <2> QED  BY <2>1, <2>2, <2>3 DEF DrawInv, DrawShapes, RowsFit, JobFits, OnePool, Alone, NeverRerolled,
             PityHolds, NoneInReserve, Quiet, Only
<1>4. ASSUME NEW u \in Unique, OtherMints(u) PROVE DrawInv'
  <2>1. /\ left[u] > 0 /\ left' = [left EXCEPT ![u] = @ - 1] /\ "soldout" \in regime
        /\ UNCHANGED <<regime, wallet, owned, pity, draws, granted, doing, held, rares>>
    BY <1>4 DEF OtherMints
  <2>2. left' \in [Unique -> 0..Limit]
    BY <1>0, <2>1, GachaAssumption DEF SoundPools, DrawShapes
  <2>3. ~Only({"crosses"})
    BY <2>1 DEF Only
  <2> QED  BY <2>1, <2>2, <2>3 DEF DrawInv, DrawShapes, RowsFit, JobFits, OnePool, Alone, NeverRerolled,
             PityHolds, NoneInReserve, Quiet, Only
<1> QED  BY <1>1, <1>2, <1>3, <1>4

\* Nothing was drawn yet.
LEMMA DrawInitHolds ==
  ASSUME DrawInit
  PROVE  DrawInv
<1>0. /\ wallet = [a \in Assets |-> Purse] /\ owned = [u \in Unique |-> 0]
      /\ left = [u \in Unique |-> Limit] /\ pity = [p \in Pools |-> 0]
      /\ draws = [b \in Biz |-> None] /\ granted = [b \in Biz |-> None]
      /\ doing = [r \in Handlers |-> Idle] /\ held = {} /\ rares = [p \in Pools |-> <<>>]
  BY DEF DrawInit
<1>1. \A r \in Handlers : doing[r].at = "ready"
  BY <1>0 DEF Idle
<1>2. \A b \in Biz : draws[b] = None /\ granted[b] = None
  BY <1>0
<1>3. \A p \in Pools : rares[p] = <<>> /\ pity[p] = 0 /\ Len(rares[p]) = 0
  BY <1>0
<1>4. DrawShapes
  BY <1>0, GachaAssumption DEF SoundPools, DrawShapes
<1>5. RowsFit /\ OnePool /\ Alone /\ NeverRerolled /\ \A r \in Handlers : JobFits(r)
  BY <1>1, <1>2 DEF RowsFit, OnePool, Alone, NeverRerolled, JobFits
<1>6. ASSUME NEW p \in Pools, Bounded(p) PROVE Windows(rares[p], Pool[p].pity)
  <2>1. Pool[p].pity \in Nat /\ Pool[p].pity > 0
    BY <1>6, GachaAssumption DEF SoundPools, Bounded, Pools
  <2> QED  BY <1>3, <2>1 DEF Windows
<1>7. \A p \in Pools : Tells(pity[p], rares[p])
  BY <1>3 DEF Tells
<1>8. PityHolds
  BY <1>1, <1>6, <1>7 DEF PityHolds
<1>9. \A u \in Unique : owned[u] + left[u] = Limit
  BY <1>0, GachaAssumption DEF SoundPools
<1>10. NoneInReserve
  BY <1>1, <1>2, <1>9 DEF NoneInReserve
<1> QED  BY <1>4, <1>5, <1>8, <1>10 DEF DrawInv

LEMMA DrawNextKeeps == DrawInv /\ [DrawNext]_drawVars => DrawInv'
<1> SUFFICES ASSUME DrawInv, [DrawNext]_drawVars PROVE DrawInv'
  OBVIOUS
<1>1. ASSUME NEW r \in Handlers, NEW b \in Biz, NEW p \in Pools, NEW n \in {1, Ten}, Request(r, b, p, n)
      PROVE  DrawInv'
  BY <1>1, RequestKeeps
<1>2. ASSUME NEW r \in Handlers, Step(r) PROVE DrawInv'
  BY <1>2, ReplayKeeps, PrecheckKeeps, RollKeeps, SaveDrawKeeps, SaveStateKeeps, DeliverKeeps,
     MarkDeliveredKeeps DEF Step
<1>3. CASE UNCHANGED drawVars
  BY <1>3 DEF drawVars, DrawInv, DrawShapes, RowsFit, JobFits, OnePool, Alone, NeverRerolled,
     PityHolds, NoneInReserve, Quiet, Only, Covered, CanPay, Price
<1> QED  BY <1>1, <1>2, <1>3, OthersKeep DEF DrawNext

\* Within the pity of a pool comes a rare prize, wherever the player looks.
LEMMA DrawsAreKept == DrawInv => DrawsHold
<1> SUFFICES ASSUME DrawInv PROVE DrawsHold
  OBVIOUS
<1>1. NoRollInReserve
  <2> SUFFICES ASSUME Only({"crosses"}), held = {}, NEW b \in Biz, draws[b] # None,
                      Deliverable(draws[b].pool), ~draws[b].delivered
               PROVE  FALSE
    BY DEF NoRollInReserve
  <2>1. PICK r \in Handlers : doing[r].at \in {"state", "deliver", "mark"} /\ doing[r].biz = b
    BY DEF DrawInv, NoneInReserve
  <2>2. Quiet /\ doing[r].at # "ready"
    BY <2>1 DEF Only, Quiet
  <2> QED  BY <2>2 DEF DrawInv, Alone
<1>2. RareWithinPity
  <2> SUFFICES ASSUME Only({"spends", "soldout", "crosses"}) PROVE RareWithinPity
    BY DEF RareWithinPity
  <2>1. Quiet
    BY DEF Only, Quiet
  <2> QED  BY <2>1 DEF DrawInv, PityHolds, RareWithinPity, Windows, Bounded
<1> QED  BY <1>1, <1>2 DEF DrawInv, DrawsHold

\* gacha.service.ts: whatever the pools, a roll is delivered once and as its row says,
\* nobody keeps one of a pool of coins that compensates to pay for later, and no more
\* draws go without a rare prize than the pity of the pool.
THEOREM RollsAreKept == DrawSpec => []DrawsHold
<1>1. DrawInit => DrawInv
  BY DrawInitHolds
<1>2. DrawInv /\ [DrawNext]_drawVars => DrawInv'
  BY DrawNextKeeps
<1>3. DrawInv => DrawsHold
  BY DrawsAreKept
<1> QED  BY <1>1, <1>2, <1>3, PTL DEF DrawSpec

-----------------------------------------------------------------------------
(* The tasks of an event (Campaign.tla). What a process remembers may be   *)
(* stale; the invariant says by how much.                                  *)

EventShapes ==
  /\ trouble \in Troubles /\ now \in 0 .. MaxTime /\ edits \in Nat
  /\ event \in Events \cup {NoRow} /\ cache \in Memories \cup {NoRow} /\ row \in Rows \cup {NoRow}
  /\ bump \in {0, NoRow} \cup Targets /\ claims \subseteq Nat
  /\ could \in Nat /\ should \in Nat /\ ran \in 0 .. TTL /\ same \in 0 .. TTL

\* Before there is an event.
Untouched ==
  edits = 0 =>
    /\ event = NoRow /\ row = NoRow /\ claims = {} /\ bump \notin Targets /\ should = 0
    /\ cache # NoRow => cache.target = NoRow

\* A target is remembered from a time when the event ran.
RemembersARun ==
  cache # NoRow =>
    /\ cache.at <= now
    /\ cache.target # NoRow => Active(event) \/ ran <= now - cache.at

\* What has been remembered since the event last changed is what it is.
RemembersRight ==
  cache # NoRow /\ now - cache.at < same =>
    cache.target = IF Active(event) THEN event.target ELSE NoRow

\* The act that was told its target and will be counted.
BeingCounted == IF bump \in Targets THEN 1 ELSE 0

NoMoreThanDone ==
  "remakes" \notin trouble =>
    Progress + BeingCounted <= could /\ (\A read \in claims : read + BeingCounted <= could)

\* Where nothing goes wrong there is one target.
OneTarget ==
  trouble = {} /\ event # NoRow =>
    /\ cache # NoRow => cache.target \in {NoRow, event.target}
    /\ bump \in Targets => bump = event.target
    /\ \A read \in claims : event.target # NoRow /\ read >= event.target

NoLessThanDone ==
  trouble = {} /\ event # NoRow /\ event.target # NoRow =>
    Progress + BeingCounted >= Smaller(should, event.target)

EventInv ==
  /\ EventShapes /\ Untouched /\ RemembersARun /\ RemembersRight
  /\ NoMoreThanDone /\ OneTarget /\ NoLessThanDone

\* An event that runs has a target.
LEMMA RunsHasTarget == ASSUME NEW e, NEW t, RunsAt(e, t) PROVE e # NoRow /\ e.target # NoRow
  BY DEF RunsAt

LEMMA SmallerIs ==
  ASSUME NEW a \in Nat, NEW b \in Nat
  PROVE  /\ Smaller(a, b) \in Nat /\ Smaller(a, b) <= a /\ Smaller(a, b) <= b
         /\ (a <= b => Smaller(a, b) = a) /\ (b <= a => Smaller(a, b) = b)
  BY DEF Smaller

\* The constants, and the fields of what is on file.
LEMMA OnFile ==
  /\ TTL \in Nat /\ TTL > 0 /\ MaxTime \in Nat /\ Targets \subseteq Nat \ {0} /\ NoRow \notin Nat
  /\ \A e \in Events : e # NoRow /\ e.target \in Targets \cup {NoRow}
  /\ \A m \in Memories : m # NoRow /\ m.target \in Targets \cup {NoRow} /\ m.at \in Nat
  /\ \A w \in Rows : w # NoRow /\ w.progress \in Nat
<1>1. TTL \in Nat /\ TTL > 0 /\ MaxTime \in Nat /\ Targets \subseteq Nat \ {0}
  BY CampaignAssumption
<1>2. NoRow \notin Nat /\ NoRow \notin Events /\ NoRow \notin Rows /\ NoRow \notin Memories
  BY CampaignAssumption
<1>3. \A e \in Events : e.target \in Targets \cup {NoRow}
  BY DEF Events
<1>4. \A m \in Memories : m.target \in Targets \cup {NoRow} /\ m.at \in Nat
  BY <1>1 DEF Memories
<1>5. \A w \in Rows : w.progress \in Nat
  BY DEF Rows
<1> QED  BY <1>1, <1>2, <1>3, <1>4, <1>5

LEMMA ProgressIs == EventInv => Progress \in Nat /\ BeingCounted \in {0, 1} /\ (row # NoRow => Progress = row.progress)
  BY OnFile DEF EventInv, EventShapes, Progress, BeingCounted

LEMMA EventInitHolds == EventInit => EventInv
  BY OnFile DEF EventInit, EventInv, EventShapes, Untouched, RemembersARun, RemembersRight,
     NoMoreThanDone, OneTarget, NoLessThanDone, Progress, BeingCounted

\* Time passes.
LEMMA TickKeeps == EventInv /\ Tick => EventInv'
<1> SUFFICES ASSUME EventInv, Tick PROVE EventInv'
  OBVIOUS
<1> USE OnFile DEF EventInv, EventShapes
<1>0. /\ now' = now + 1 /\ now' \in 0 .. MaxTime /\ bump = NoRow /\ claims = {}
      /\ UNCHANGED <<trouble, event, cache, row, bump, claims, edits, could, should>>
      /\ ran' = IF Active(event) THEN 1 ELSE Smaller(ran + 1, TTL)
      /\ same' = IF Active(event) = RunsAt(event, now + 1) THEN Smaller(same + 1, TTL) ELSE 0
  BY DEF Tick
<1>1. ran' \in 0 .. TTL /\ same' \in 0 .. TTL /\ (~Active(event) => ran' <= ran + 1) /\ same' <= same + 1
  <2>1. ran + 1 \in Nat /\ same + 1 \in Nat
    OBVIOUS
  <2>2. /\ Smaller(ran + 1, TTL) \in 0 .. TTL /\ Smaller(ran + 1, TTL) <= ran + 1
        /\ Smaller(same + 1, TTL) \in 0 .. TTL /\ Smaller(same + 1, TTL) <= same + 1
    BY <2>1, SmallerIs
  <2> HIDE DEF EventInv, EventShapes
  <2>3. ran' \in 0 .. TTL /\ (~Active(event) => ran' <= ran + 1)
    BY <1>0, <2>2
  <2>4. same' \in 0 .. TTL /\ same' <= same + 1
    <3>1. same' = Smaller(same + 1, TTL) \/ same' = 0
      BY <1>0
    <3> QED  BY <2>1, <2>2, <3>1
  <2> QED  BY <2>3, <2>4
<1>2. EventShapes'
  BY <1>0, <1>1
<1>3. Untouched'
  BY <1>0 DEF Untouched
<1>4. RemembersARun'
  <2> SUFFICES ASSUME cache # NoRow PROVE cache.at <= now' /\ (cache.target # NoRow => ran' <= now' - cache.at)
    BY <1>0 DEF RemembersARun
  <2>1. cache.at <= now /\ (cache.target # NoRow => Active(event) \/ ran <= now - cache.at)
    BY DEF RemembersARun
  <2>2. CASE Active(event)
    BY <1>0, <2>1, <2>2
  <2>3. CASE ~Active(event)
    BY <1>0, <1>1, <2>1, <2>3
  <2> QED  BY <2>2, <2>3
<1>5. RemembersRight'
  <2> SUFFICES ASSUME cache # NoRow, now' - cache.at < same'
               PROVE  cache.target = IF RunsAt(event, now + 1) THEN event.target ELSE NoRow
    BY <1>0 DEF RemembersRight, Active
  <2>1. cache.at <= now
    BY DEF RemembersARun
  <2>2. Active(event) = RunsAt(event, now + 1) /\ now - cache.at < same
    BY <1>0, <1>1, <2>1
  <2>3. cache.target = IF Active(event) THEN event.target ELSE NoRow
    BY <2>2 DEF RemembersRight
  <2> QED  BY <2>2, <2>3
<1>6. NoMoreThanDone' /\ OneTarget' /\ NoLessThanDone'
  BY <1>0 DEF NoMoreThanDone, OneTarget, NoLessThanDone, Progress, BeingCounted
<1> QED  BY <1>2, <1>3, <1>4, <1>5, <1>6

\* What an edit leaves: it makes every memory one from before.
LEMMA ChangedKeeps ==
  ASSUME EventInv, Changed, event' \in Events \cup {NoRow}, could' \in Nat
  PROVE  /\ EventShapes' /\ Untouched' /\ RemembersARun' /\ RemembersRight'
         /\ UNCHANGED <<trouble, now, cache, row, bump, claims, should>>
<1> USE OnFile DEF EventInv, EventShapes
<1>0. /\ edits' = edits + 1 /\ same' = 0 /\ ran' = IF Active(event) THEN 0 ELSE ran
      /\ UNCHANGED <<trouble, now, cache, row, bump, claims, should>>
  BY DEF Changed
<1>1. EventShapes' /\ Untouched'
  BY <1>0 DEF Untouched
<1>2. RemembersARun'
  BY <1>0 DEF RemembersARun
<1>3. RemembersRight'
  BY <1>0 DEF RemembersRight, RemembersARun
<1> QED  BY <1>0, <1>1, <1>2, <1>3

\* An event made, with what is there of its players.
LEMMA CreateKeeps == EventInv /\ Create => EventInv'
<1> SUFFICES ASSUME EventInv, Create PROVE EventInv'
  OBVIOUS
<1> USE OnFile
<1>1. PICK e \in Events : event' = Filled(e, NoRow)
  BY DEF Create
<1>2. event' \in Events /\ could' = 0 /\ Changed /\ event = NoRow
  BY <1>1 DEF Create, Filled, Events
<1>3. /\ EventShapes' /\ Untouched' /\ RemembersARun' /\ RemembersRight'
      /\ UNCHANGED <<trouble, now, cache, row, bump, claims, should>>
  BY <1>2, ChangedKeeps
<1>4. "remakes" \notin trouble => edits = 0
  BY DEF Create
<1>5. NoMoreThanDone' /\ OneTarget' /\ NoLessThanDone'
  <2>1. edits = 0 => Progress' = 0 /\ BeingCounted' = 0 /\ claims' = {} /\ bump' \notin Targets /\ should' = 0
                     /\ (cache' # NoRow => cache'.target = NoRow)
    BY <1>3 DEF EventInv, Untouched, Progress, BeingCounted
  <2>2. NoMoreThanDone' /\ OneTarget'
    BY <1>2, <1>3, <1>4, <2>1 DEF NoMoreThanDone, OneTarget
  <2>3. NoLessThanDone'
    <3> SUFFICES ASSUME trouble' = {}, event'.target # NoRow
                 PROVE  Progress' + BeingCounted' >= Smaller(should', event'.target)
      BY DEF NoLessThanDone
    <3>1. Progress' = 0 /\ BeingCounted' = 0 /\ should' = 0 /\ event'.target \in Nat
      BY <1>2, <1>3, <1>4, <2>1
    <3> QED  BY <3>1, SmallerIs
  <2> QED  BY <2>2, <2>3
<1> QED  BY <1>3, <1>5 DEF EventInv

LEMMA UpdateKeeps == EventInv /\ Update => EventInv'
<1> SUFFICES ASSUME EventInv, Update PROVE EventInv'
  OBVIOUS
<1> USE OnFile
<1>1. PICK e \in Events : /\ event' = Filled(e, event.target)
                          /\ "retargets" \in trouble \/ event'.target = event.target
  BY DEF Update
<1>2. event' \in Events /\ could' = could /\ Changed /\ event # NoRow
  BY <1>1 DEF Update, Filled, Events, EventInv, EventShapes
<1>3. /\ EventShapes' /\ Untouched' /\ RemembersARun' /\ RemembersRight'
      /\ UNCHANGED <<trouble, now, cache, row, bump, claims, should>>
  BY <1>2, ChangedKeeps DEF EventInv, EventShapes
<1>4. trouble = {} => event'.target = event.target
  BY <1>1
<1>5. NoMoreThanDone' /\ OneTarget' /\ NoLessThanDone'
  BY <1>2, <1>3, <1>4 DEF EventInv, NoMoreThanDone, OneTarget, NoLessThanDone, Progress, BeingCounted
<1> QED  BY <1>3, <1>5 DEF EventInv

LEMMA RemoveKeeps == EventInv /\ Remove => EventInv'
<1> SUFFICES ASSUME EventInv, Remove PROVE EventInv'
  OBVIOUS
<1> USE OnFile
<1>1. event' = NoRow /\ could' = could /\ Changed
  BY DEF Remove
<1>2. /\ EventShapes' /\ Untouched' /\ RemembersARun' /\ RemembersRight'
      /\ UNCHANGED <<trouble, now, cache, row, bump, claims, should>>
  BY <1>1, ChangedKeeps DEF EventInv, EventShapes
<1>3. NoMoreThanDone' /\ OneTarget' /\ NoLessThanDone'
  BY <1>1, <1>2 DEF EventInv, NoMoreThanDone, OneTarget, NoLessThanDone, Progress, BeingCounted
<1> QED  BY <1>2, <1>3 DEF EventInv

\* An act that was told target t: it counts for the ghosts as it does for the row.
LEMMA ToldKeeps ==
  ASSUME EventInv, bump \notin Targets, NEW t \in Targets \cup {NoRow}, Told(t),
         UNCHANGED <<trouble, now, event, row, claims, edits, ran, same>>,
         cache' = cache \/ cache' = [target |-> IF Active(event) THEN event.target ELSE NoRow, at |-> now],
         t # NoRow => Active(event) \/ ran < TTL, edits = 0 => t = NoRow,
         trouble = {} /\ event # NoRow => t \in {NoRow, event.target},
         Active(event) /\ same = TTL => t = event.target
  PROVE  EventInv'
<1> USE OnFile DEF EventInv, EventShapes
<1>1. bump' = t
  BY DEF Told
<1>2. could' = (IF Active(event) \/ ran < TTL THEN could + 1 ELSE could)
  BY DEF Told
<1>3. should' = (IF Active(event) /\ same = TTL THEN should + 1 ELSE should)
  BY DEF Told
<1>4. BeingCounted = 0 /\ BeingCounted' = IF t = NoRow THEN 0 ELSE 1
  BY <1>1 DEF BeingCounted
<1>5. Progress' = Progress /\ Progress \in Nat
  BY DEF Progress
<1>6. Active(event)' = Active(event)
  BY DEF Active
<1>7. cache' \in Memories \cup {NoRow}
  <2>1. CASE cache' = cache
    BY <2>1
  <2>2. CASE cache' = [target |-> IF Active(event) THEN event.target ELSE NoRow, at |-> now]
    <3>1. (IF Active(event) THEN event.target ELSE NoRow) \in Targets \cup {NoRow}
      BY RunsHasTarget DEF Active
    <3> QED  BY <2>2, <3>1 DEF Memories
  <2> QED  BY <2>1, <2>2
<1>8. EventShapes'
  <2>1. could' \in Nat /\ should' \in Nat
    BY <1>2, <1>3
  <2>2. bump' \in {0, NoRow} \cup Targets
    BY <1>1
  <2>3. UNCHANGED <<trouble, now, event, row, claims, edits, ran, same>>
    OBVIOUS
  <2> QED  BY <1>7, <2>1, <2>2, <2>3
<1>9. edits = 0 => ~Active(event) /\ t = NoRow
  BY RunsHasTarget DEF Untouched, Active
<1>10. Untouched'
  <2>1. edits' = edits /\ event' = event /\ row' = row /\ claims' = claims
    OBVIOUS
  <2>2. edits' = 0 => bump' \notin Targets /\ should' = should
    BY <1>1, <1>3, <1>9, <2>1
  <2>3. edits' = 0 => (cache' # NoRow => cache'.target = NoRow)
    BY <1>9, <2>1 DEF Untouched
  <2> QED  BY <2>1, <2>2, <2>3 DEF Untouched
<1>11. RemembersARun'
  BY <1>6 DEF RemembersARun
<1>12. RemembersRight'
  BY <1>6 DEF RemembersRight
<1>13. NoMoreThanDone'
  BY <1>2, <1>4, <1>5 DEF NoMoreThanDone
<1>14. OneTarget'
  BY <1>1 DEF OneTarget
<1>15. NoLessThanDone'
  <2> SUFFICES ASSUME trouble = {}, event # NoRow, event.target # NoRow
               PROVE  Progress' + BeingCounted' >= Smaller(should', event.target)
    BY DEF NoLessThanDone
  <2>1. Progress >= Smaller(should, event.target)
    BY <1>4, <1>5 DEF NoLessThanDone
  <2>2. CASE Active(event) /\ same = TTL
    <3>1. should' = should + 1 /\ t = event.target /\ BeingCounted' = 1
      BY <1>3, <1>4, <2>2
    <3>2. event.target \in Nat /\ should \in Nat
      OBVIOUS
    <3> HIDE DEF EventInv, EventShapes
    <3>3. Smaller(should + 1, event.target) <= Smaller(should, event.target) + 1
      BY <3>2 DEF Smaller
    <3>4. Smaller(should, event.target) \in Nat /\ Smaller(should + 1, event.target) \in Nat
      BY <3>2 DEF Smaller
    <3> QED  BY <1>5, <2>1, <3>1, <3>3, <3>4
  <2>3. CASE ~(Active(event) /\ same = TTL)
    <3>1. should' = should /\ BeingCounted' \in {0, 1}
      BY <1>3, <1>4, <2>3
    <3>2. Smaller(should, event.target) \in Nat
      BY SmallerIs
    <3> HIDE DEF EventInv, EventShapes
    <3> QED  BY <1>5, <2>1, <3>1, <3>2
  <2> QED  BY <2>2, <2>3
<1> QED  BY <1>8, <1>10, <1>11, <1>12, <1>13, <1>14, <1>15

\* An act, which may be told at once what is remembered.
LEMMA ActKeeps == EventInv /\ Act => EventInv'
<1> SUFFICES ASSUME EventInv, Act PROVE EventInv'
  OBVIOUS
<1> USE OnFile DEF EventInv, EventShapes
<1>0. bump = NoRow /\ UNCHANGED <<trouble, now, event, cache, row, claims, edits, ran, same>>
  BY DEF Act
<1>1. CASE Remembered
  <2>1. Told(cache.target) /\ cache # NoRow /\ now - cache.at < TTL
    BY <1>1 DEF Act, Remembered
  <2>2. cache.target # NoRow => Active(event) \/ ran < TTL
    BY <2>1 DEF RemembersARun
  <2>3. trouble = {} /\ event # NoRow => cache.target \in {NoRow, event.target}
    BY <2>1 DEF OneTarget
  <2>4. Active(event) /\ same = TTL => cache.target = event.target
    BY <2>1 DEF RemembersRight
  <2>5. edits = 0 => cache.target = NoRow
    BY <2>1 DEF Untouched
  <2>6. cache.target \in Targets \cup {NoRow} /\ bump \notin Targets
    BY <1>0, <2>1
  <2> QED  BY <1>0, <2>1, <2>2, <2>3, <2>4, <2>5, <2>6, ToldKeeps
<1>2. CASE ~Remembered
  <2>1. bump' = 0 /\ UNCHANGED <<could, should>>
    BY <1>2 DEF Act
  <2>2. BeingCounted' = BeingCounted /\ Progress' = Progress
    BY <1>0, <2>1 DEF BeingCounted, Progress
  <2> QED  BY <1>0, <2>1, <2>2 DEF Untouched, RemembersARun, RemembersRight, NoMoreThanDone, OneTarget,
           NoLessThanDone, Active
<1> QED  BY <1>1, <1>2

LEMMA AskKeeps == EventInv /\ Ask => EventInv'
<1> SUFFICES ASSUME EventInv, Ask PROVE EventInv'
  OBVIOUS
<1> USE OnFile DEF EventInv, EventShapes
<1> DEFINE t == IF Active(event) THEN event.target ELSE NoRow
<1>1. /\ bump = 0 /\ cache' = [target |-> t, at |-> now] /\ Told(t)
      /\ UNCHANGED <<trouble, now, event, row, claims, edits, ran, same>>
  BY DEF Ask
<1>2. t \in Targets \cup {NoRow} /\ (t # NoRow => Active(event)) /\ (Active(event) => event # NoRow /\ t = event.target)
  BY RunsHasTarget DEF Active
<1>3. edits = 0 => t = NoRow
  BY <1>2 DEF Untouched
<1>4. bump \notin Targets
  BY <1>1
<1> QED  BY <1>1, <1>2, <1>3, <1>4, ToldKeeps

\* Counted in the row, or lost.
LEMMA CountKeeps == EventInv /\ (Count \/ Fail \/ Boot) => EventInv'
<1> USE OnFile DEF EventInv, EventShapes
<1>1. ASSUME EventInv, Count PROVE EventInv'
  <2>0. /\ bump \in Targets /\ bump' = NoRow
        /\ UNCHANGED <<trouble, now, event, cache, claims, edits, Ghost>>
    BY <1>1 DEF Count
  <2>1. /\ row' \in Rows
        /\ row'.progress = Smaller(bump, Progress + 1)
    <3>1. Smaller(bump, Progress + 1) \in Nat
      <4>1. bump \in Nat
        BY <2>0
      <4> HIDE DEF EventInv, EventShapes
      <4>2. Progress \in Nat
        BY <1>1, ProgressIs
      <4> QED  BY <4>1, <4>2 DEF Smaller
    <3>2. CASE row = NoRow
      <4>1. row' = [progress |-> Smaller(1, bump), claimed |-> FALSE] /\ Progress = 0
        BY <1>1, <3>2 DEF Count, Progress
      <4>2. Smaller(1, bump) = Smaller(bump, Progress + 1)
        BY <2>0, <4>1 DEF Smaller
      <4> QED  BY <3>1, <4>1, <4>2 DEF Rows
    <3>3. CASE row # NoRow
      <4>1. row \in Rows /\ Progress = row.progress
        BY <1>1, <3>3, ProgressIs
      <4>2. row' = [row EXCEPT !.progress = Smaller(bump, Progress + 1)]
        BY <1>1, <3>3, <4>1 DEF Count
      <4> QED  BY <3>1, <4>1, <4>2 DEF Rows
    <3> QED  BY <3>2, <3>3
  <2>2. Progress' = Smaller(bump, Progress + 1) /\ BeingCounted' = 0 /\ BeingCounted = 1 /\ Progress \in Nat
    BY <1>1, <2>0, <2>1, ProgressIs DEF Progress, BeingCounted
  <2>3. EventShapes'
    BY <1>1, <2>0, <2>1 DEF Ghost
  <2>4. Untouched' /\ RemembersARun' /\ RemembersRight' /\ OneTarget'
    BY <1>1, <2>0 DEF Ghost, Untouched, RemembersARun, RemembersRight, OneTarget, Active
  <2>5. NoMoreThanDone'
    BY <1>1, <2>0, <2>2, SmallerIs DEF Ghost, NoMoreThanDone
  <2>6. NoLessThanDone'
    <3> SUFFICES ASSUME trouble = {}, event # NoRow, event.target # NoRow
                 PROVE  Progress' + BeingCounted' >= Smaller(should, event.target)
      BY <2>0 DEF Ghost, NoLessThanDone
    <3>1. bump = event.target /\ Progress + 1 >= Smaller(should, event.target)
      BY <1>1, <2>0, <2>2 DEF NoLessThanDone, OneTarget
    <3>2. event.target \in Nat /\ should \in Nat
      BY <1>1, <2>0, <3>1
    <3> HIDE DEF EventInv, EventShapes
    <3>3. /\ Smaller(should, event.target) \in Nat /\ Smaller(should, event.target) <= event.target
          /\ Smaller(bump, Progress + 1) \in Nat
          /\ Smaller(bump, Progress + 1) = bump \/ Smaller(bump, Progress + 1) = Progress + 1
      BY <2>2, <3>1, <3>2, SmallerIs
    <3> QED  BY <2>2, <3>1, <3>2, <3>3
  <2> QED  BY <2>3, <2>4, <2>5, <2>6
<1>2. ASSUME EventInv, Fail PROVE EventInv'
  <2>0. /\ trouble # {} /\ bump' = NoRow
        /\ UNCHANGED <<trouble, now, event, cache, row, claims, edits, Ghost>>
    BY <1>2 DEF Fail
  <2>1. Progress' = Progress /\ BeingCounted' = 0 /\ BeingCounted \in {0, 1} /\ Progress \in Nat
    BY <1>2, <2>0, ProgressIs DEF Progress, BeingCounted
  <2>3. trouble' # {} /\ EventShapes'
    BY <1>2, <2>0 DEF Ghost
  <2>4. NoMoreThanDone'
    BY <1>2, <2>0, <2>1 DEF Ghost, NoMoreThanDone
  <2>5. OneTarget' /\ NoLessThanDone'
    BY <2>3 DEF OneTarget, NoLessThanDone
  <2> QED  BY <1>2, <2>0, <2>1, <2>3, <2>4, <2>5 DEF Ghost, Untouched, RemembersARun, RemembersRight, OneTarget, Active,
           NoMoreThanDone, NoLessThanDone
<1>3. ASSUME EventInv, Boot PROVE EventInv'
  BY <1>3 DEF Boot, Ghost, Untouched, RemembersARun, RemembersRight, OneTarget, Active,
     NoMoreThanDone, NoLessThanDone, Progress, BeingCounted
<1> QED  BY <1>1, <1>2, <1>3

\* A claim writes back the progress that it found to be enough.
LEMMA ClaimKeeps == EventInv /\ (Find \/ \E read \in claims : Mark(read)) => EventInv'
<1> USE OnFile DEF EventInv, EventShapes
<1>1. ASSUME EventInv, Find PROVE EventInv'
  <2>0. /\ row # NoRow /\ row.progress >= event.target /\ claims' = claims \cup {row.progress} /\ Active(event)
        /\ UNCHANGED <<trouble, now, event, cache, row, bump, edits, Ghost>>
    BY <1>1 DEF Find
  <2>1. event # NoRow /\ event.target # NoRow
    BY <2>0, RunsHasTarget DEF Active
  <2>2. /\ Progress' = Progress /\ BeingCounted' = BeingCounted /\ Progress \in Nat
        /\ claims' = claims \cup {Progress} /\ Progress >= event.target
    BY <1>1, <2>0 DEF Progress, BeingCounted
  <2>3. EventShapes' /\ Untouched' /\ RemembersARun' /\ RemembersRight'
    BY <1>1, <2>0, <2>1, <2>2 DEF Ghost, Untouched, RemembersARun, RemembersRight, Active
  <2>4. NoMoreThanDone' /\ NoLessThanDone'
    BY <1>1, <2>0, <2>2 DEF Ghost, NoMoreThanDone, NoLessThanDone
  <2>5. OneTarget'
    BY <1>1, <2>0, <2>1, <2>2 DEF Ghost, OneTarget
  <2> QED  BY <2>3, <2>4, <2>5
<1>2. ASSUME EventInv, NEW read \in claims, Mark(read) PROVE EventInv'
  <2>0. /\ claims' \subseteq claims /\ row' = [progress |-> read, claimed |-> TRUE]
        /\ UNCHANGED <<trouble, now, event, cache, bump, edits, Ghost>>
    BY <1>2 DEF Mark
  <2>1. read \in Nat /\ row' \in Rows /\ Progress' = read /\ BeingCounted' = BeingCounted
    <3>1. read \in Nat /\ row' \in Rows /\ row'.progress = read
      BY <1>2, <2>0 DEF Rows
    <3> QED  BY <2>0, <3>1 DEF Progress, BeingCounted
  <2>2. NoLessThanDone'
    <3> SUFFICES ASSUME trouble = {}, event # NoRow, event.target # NoRow
                 PROVE  read + BeingCounted >= Smaller(should, event.target)
      BY <2>0, <2>1 DEF Ghost, NoLessThanDone
    <3>1. read \in Nat /\ read >= event.target /\ event.target \in Nat /\ should \in Nat
      BY <1>2, <2>0, <2>1 DEF OneTarget
    <3>2. BeingCounted \in {0, 1} /\ Smaller(should, event.target) \in Nat
          /\ Smaller(should, event.target) <= event.target
      BY <3>1, SmallerIs DEF BeingCounted
    <3> HIDE DEF EventInv, EventShapes
    <3> QED  BY <3>1, <3>2
  <2>3. NoMoreThanDone' /\ OneTarget'
    BY <1>2, <2>0, <2>1 DEF Ghost, NoMoreThanDone, OneTarget
  <2>4. EventShapes' /\ Untouched' /\ RemembersARun' /\ RemembersRight'
    BY <1>2, <2>0, <2>1 DEF Ghost, Untouched, RemembersARun, RemembersRight, Active
  <2> QED  BY <2>2, <2>3, <2>4
<1> QED  BY <1>1, <1>2

LEMMA EventNextKeeps == EventInv /\ [EventNext]_eventVars => EventInv'
<1> SUFFICES ASSUME EventInv, [EventNext]_eventVars PROVE EventInv'
  OBVIOUS
<1>1. CASE EventNext
  BY <1>1, TickKeeps, CreateKeeps, UpdateKeeps, RemoveKeeps, ActKeeps, AskKeeps, CountKeeps, ClaimKeeps DEF EventNext
<1>2. CASE UNCHANGED eventVars
  BY <1>2 DEF eventVars, EventInv, EventShapes, Untouched, RemembersARun, RemembersRight, NoMoreThanDone,
     OneTarget, NoLessThanDone, Progress, BeingCounted, Active
<1> QED  BY <1>1, <1>2

LEMMA EventCounts == EventInv => ActsCount
<1> SUFFICES ASSUME EventInv PROVE ActsCount
  OBVIOUS
<1> USE OnFile DEF EventInv, EventShapes
<1>1. BeingCounted \in {0, 1} /\ (bump = NoRow => BeingCounted = 0) /\ Progress \in Nat
  BY DEF BeingCounted, Progress
<1>2. OnlyActsCount
  BY <1>1 DEF OnlyActsCount, NoMoreThanDone, Progress
<1>3. EveryActCounts
  BY <1>1 DEF EveryActCounts, NoLessThanDone
<1> QED  BY <1>2, <1>3 DEF ActsCount

(* Of an event with any targets, however long a process remembers its      *)
(* tasks: only acts done while it ran, or so soon after, are counted, and  *)
(* where nothing goes wrong each of them is, up to the target              *)
(* (event-progress.service.ts:17-19, event.service.ts claim).              *)
THEOREM OnlyActsAndEveryOne == EventSpec => []ActsCount
<1>1. EventSpec => []EventInv
  BY EventInitHolds, EventNextKeeps, PTL DEF EventSpec
<1> QED  BY <1>1, EventCounts, PTL

-----------------------------------------------------------------------------
(* The live queue (Matchmaking.tla). Its property is inductive once it is  *)
(* known what is left of a queue when a player's entries are taken out.    *)

Filters(q, u, N, f) ==
  f = [n \in 0 .. N |->
         IF n = 0 THEN <<>> ELSE IF UserOf[q[n]] # u THEN Append(f[n - 1], q[n]) ELSE f[n - 1]]

\* The recursion has a solution, up to every length.
LEMMA FilterExists ==
  ASSUME NEW q, NEW u
  PROVE  \A N \in Nat : \E f : Filters(q, u, N, f)
<1> DEFINE G == {N \in Nat : \E f : Filters(q, u, N, f)}
<1>1. 0 \in G
  <2> DEFINE f == [n \in 0 .. 0 |-> <<>>]
  <2>1. Filters(q, u, 0, f)
    BY DEF Filters
  <2> QED  BY <2>1
<1>2. ASSUME NEW N \in Nat, N \in G PROVE N + 1 \in G
  <2>1. PICK f : Filters(q, u, N, f)
    BY <1>2
  <2> DEFINE g == [n \in 0 .. (N + 1) |->
                     IF n = N + 1 THEN IF UserOf[q[n]] # u THEN Append(f[n - 1], q[n]) ELSE f[n - 1]
                     ELSE f[n]]
  <2>2. ASSUME NEW n \in 0 .. (N + 1)
        PROVE  g[n] = IF n = 0 THEN <<>> ELSE IF UserOf[q[n]] # u THEN Append(g[n - 1], q[n]) ELSE g[n - 1]
    <3>1. CASE n = N + 1
      <4>1. n # 0 /\ n - 1 \in 0 .. (N + 1) /\ n - 1 # N + 1
        BY <3>1
      <4>2. g[n - 1] = f[n - 1]
        BY <4>1
      <4> QED  BY <3>1, <4>1, <4>2
    <3>2. CASE n = 0
      <4>1. f[0] = <<>>
        BY <2>1 DEF Filters
      <4> QED  BY <3>2, <4>1
    <3>3. CASE n # 0 /\ n # N + 1
      <4>1. n \in 0 .. N /\ n - 1 \in 0 .. (N + 1) /\ n - 1 # N + 1
        BY <3>3
      <4>2. f[n] = IF UserOf[q[n]] # u THEN Append(f[n - 1], q[n]) ELSE f[n - 1]
        BY <2>1, <3>3, <4>1 DEF Filters
      <4>3. g[n] = f[n] /\ g[n - 1] = f[n - 1]
        BY <3>3, <4>1
      <4> QED  BY <3>3, <4>2, <4>3
    <3> QED  BY <3>1, <3>2, <3>3
  <2>3. g = [n \in 0 .. (N + 1) |-> g[n]]
    OBVIOUS
  <2> HIDE DEF g
  <2>4. Filters(q, u, N + 1, g)
    BY <2>2, <2>3 DEF Filters
  <2> QED  BY <2>4
<1> HIDE DEF G
<1>3. \A N \in Nat : N \in G
  BY <1>1, <1>2, NatInductionOn
<1> QED  BY <1>3 DEF G

\* What is left are entries of the queue, none of them the player's.
LEMMA WithoutIs ==
  ASSUME NEW q \in Seq(Clients), NEW u
  PROVE  Without(q, u) \in Seq({c \in Clients : UserOf[c] # u /\ \E i \in DOMAIN q : c = q[i]})
<1> DEFINE S == {c \in Clients : UserOf[c] # u /\ \E i \in DOMAIN q : c = q[i]}
           kept == CHOOSE f : Filters(q, u, Len(q), f)
           G == {n \in Nat : n <= Len(q) => kept[n] \in Seq(S)}
<1>0. Len(q) \in Nat /\ DOMAIN q = 1 .. Len(q)
  OBVIOUS
<1>1. \E f : Filters(q, u, Len(q), f)
  BY <1>0, FilterExists
<1>2. Filters(q, u, Len(q), kept)
  BY <1>1
<1>3. Without(q, u) = kept[Len(q)]
  BY DEF Without, Filters
<1> HIDE DEF kept
<1>4. \A n \in 0 .. Len(q) :
        kept[n] = IF n = 0 THEN <<>> ELSE IF UserOf[q[n]] # u THEN Append(kept[n - 1], q[n]) ELSE kept[n - 1]
  BY <1>2 DEF Filters
<1>5. 0 \in G
  <2>1. kept[0] = <<>>
    BY <1>0, <1>4
  <2> HIDE DEF S
  <2>2. <<>> \in Seq(S)
    OBVIOUS
  <2> QED  BY <2>1, <2>2
<1>6. ASSUME NEW n \in Nat, n \in G PROVE n + 1 \in G
  <2> SUFFICES ASSUME n + 1 <= Len(q) PROVE kept[n + 1] \in Seq(S)
    OBVIOUS
  <2>1. n \in 0 .. Len(q) /\ n + 1 \in 0 .. Len(q) /\ n + 1 # 0 /\ (n + 1) - 1 = n /\ n + 1 \in DOMAIN q
    BY <1>0
  <2>2. kept[n + 1] = IF UserOf[q[n + 1]] # u THEN Append(kept[n], q[n + 1]) ELSE kept[n]
    BY <1>4, <2>1
  <2>3. kept[n] \in Seq(S)
    BY <1>0, <1>6, <2>1
  <2>4. UserOf[q[n + 1]] # u => q[n + 1] \in S
    BY <2>1
  <2>5. CASE UserOf[q[n + 1]] # u
    <3>1. q[n + 1] \in S
      BY <2>4, <2>5
    <3> HIDE DEF S
    <3>2. Append(kept[n], q[n + 1]) \in Seq(S)
      BY <2>3, <3>1, AppendProperties
    <3> QED  BY <2>2, <2>5, <3>2
  <2> HIDE DEF S
  <2>6. CASE UserOf[q[n + 1]] = u
    BY <2>2, <2>3, <2>6
  <2> QED  BY <2>5, <2>6
<1>7. \A n \in Nat : n \in G
  <2> HIDE DEF G
  <2> QED  BY <1>5, <1>6, NatInductionOn
<1> QED  BY <1>0, <1>3, <1>7

QueueInv == QueueTypeOK /\ NobodyWaitsInVain

\* Who waits, said of the entries.
Waits(c, t) == \E i \in DOMAIN queue[t] : c = queue[t][i]

LEMMA LeftAfter ==
  ASSUME QueueInv, NEW t \in Tracks, NEW u
  PROVE  /\ Without(queue[t], u) \in Seq(Clients)
         /\ \A i \in DOMAIN Without(queue[t], u) :
              /\ Without(queue[t], u)[i] \in Clients /\ UserOf[Without(queue[t], u)[i]] # u
              /\ Waits(Without(queue[t], u)[i], t)
<1> DEFINE q == queue[t]
           w == Without(q, u)
           S == {c \in Clients : UserOf[c] # u /\ \E i \in DOMAIN q : c = q[i]}
<1>1. q \in Seq(Clients)
  BY DEF QueueInv, QueueTypeOK
<1>2. w \in Seq(S)
  BY <1>1, WithoutIs
<1> HIDE DEF w, q
<1>3. S \subseteq Clients
  OBVIOUS
<1>4. w \in Seq(Clients) /\ \A i \in DOMAIN w : w[i] \in S
  BY <1>2, <1>3
<1>5. \A i \in DOMAIN w : w[i] \in Clients /\ UserOf[w[i]] # u /\ \E j \in DOMAIN q : w[i] = q[j]
  BY <1>4
<1> QED  BY <1>4, <1>5 DEF w, q, Waits

\* The property, of the entries.
LEMMA WaitersAre ==
  NobodyWaitsInVain <=>
    \A t \in Tracks :
      /\ \A i, j \in DOMAIN queue[t] : UserOf[queue[t][i]] = UserOf[queue[t][j]]
      /\ ~hops /\ t # NoTrack => \A i \in DOMAIN queue[t] : status[queue[t][i]] = "open" /\ track[queue[t][i]] = t
  BY DEF NobodyWaitsInVain, Range

\* A player's entries are taken off one track.
LEMMA TakenOff ==
  ASSUME QueueInv, NEW t \in Tracks, NEW u, queue' = [queue EXCEPT ![t] = Without(queue[t], u)]
  PROVE  /\ queue' \in [Tracks -> Seq(Clients)]
         /\ \A s \in Tracks : \A i \in DOMAIN queue'[s] :
              Waits(queue'[s][i], s) /\ (s = t => UserOf[queue'[s][i]] # u)
<1>1. queue \in [Tracks -> Seq(Clients)]
  BY DEF QueueInv, QueueTypeOK
<1>2. queue'[t] = Without(queue[t], u) /\ \A s \in Tracks : s # t => queue'[s] = queue[s]
  BY <1>1
<1>3. Without(queue[t], u) \in Seq(Clients)
  BY LeftAfter
<1>4. queue' \in [Tracks -> Seq(Clients)]
  BY <1>1, <1>3
<1>5. ASSUME NEW s \in Tracks, NEW i \in DOMAIN queue'[s]
      PROVE  Waits(queue'[s][i], s) /\ (s = t => UserOf[queue'[s][i]] # u)
  <2>1. CASE s = t
    <3>1. queue'[s] = Without(queue[t], u) /\ i \in DOMAIN Without(queue[t], u)
      BY <1>2, <1>5, <2>1
    <3>2. UserOf[Without(queue[t], u)[i]] # u /\ Waits(Without(queue[t], u)[i], t)
      BY <3>1, LeftAfter
    <3> QED  BY <2>1, <3>1, <3>2
  <2>2. CASE s # t
    BY <1>2, <2>2, <1>5 DEF Waits
  <2> QED  BY <2>1, <2>2
<1> QED  BY <1>4, <1>5

\* Fewer entries, and what they need unchanged.
LEMMA FewerWait ==
  ASSUME QueueInv, QueueTypeOK', hops' = hops,
         \A t \in Tracks : \A i \in DOMAIN queue'[t] : Waits(queue'[t][i], t),
         \A t \in Tracks : t # NoTrack /\ ~hops =>
           \A i \in DOMAIN queue'[t] :
             status[queue'[t][i]] = "open" /\ track[queue'[t][i]] = t
             => status'[queue'[t][i]] = "open" /\ track'[queue'[t][i]] = t
  PROVE  QueueInv'
<1>1. ASSUME NEW t \in Tracks, NEW i \in DOMAIN queue'[t], NEW j \in DOMAIN queue'[t]
      PROVE  UserOf[queue'[t][i]] = UserOf[queue'[t][j]]
  BY <1>1, WaitersAre DEF QueueInv, Waits
<1>2. ASSUME NEW t \in Tracks, ~hops, t # NoTrack, NEW i \in DOMAIN queue'[t]
      PROVE  status'[queue'[t][i]] = "open" /\ track'[queue'[t][i]] = t
  BY <1>2, WaitersAre DEF QueueInv, Waits
<1>3. NobodyWaitsInVain'
  BY <1>1, <1>2 DEF NobodyWaitsInVain, Range
<1> QED  BY <1>3 DEF QueueInv

LEMMA StandingStill == ASSUME NEW t \in Tracks, NEW i \in DOMAIN queue[t] PROVE Waits(queue[t][i], t)
  BY DEF Waits

LEMMA ConnectKeeps == ASSUME NEW c \in Clients, QueueInv, Connect(c) PROVE QueueInv'
<1>1. QueueTypeOK'
  BY DEF QueueInv, QueueTypeOK, Connect
<1>2. \A d \in Clients : status[d] = "open" => status'[d] = "open"
  BY DEF QueueInv, QueueTypeOK, Connect
<1>3. \A t \in Tracks : \A i \in DOMAIN queue[t] : queue[t][i] \in Clients
  BY DEF QueueInv, QueueTypeOK
<1> QED  BY <1>1, <1>2, <1>3, FewerWait, StandingStill DEF Connect

LEMMA JoinKeeps == ASSUME NEW c \in Clients, NEW t \in Tracks, QueueInv, onJoin(c, t) PROVE QueueInv'
<1> DEFINE q == queue[t]
           o == Others(q, UserOf[c])
<1>0. /\ status[c] = "open" /\ track' = [track EXCEPT ![c] = t] /\ UNCHANGED <<hops, status>>
      /\ track[c] \in {NoTrack, t} \/ hops
  BY DEF onJoin
<1>1. /\ q \in Seq(Clients) /\ queue \in [Tracks -> Seq(Clients)] /\ track \in [Clients -> Tracks \cup {NoTrack}]
      /\ room \in SUBSET (Clients \X Clients)
  BY DEF QueueInv, QueueTypeOK
<1>2. track'[c] = t /\ (\A d \in Clients : d # c => track'[d] = track[d]) /\ track' \in [Clients -> Tracks \cup {NoTrack}]
  BY <1>0, <1>1
\* Who waits on a track that has a name, and hops to none, waits where it joined last.
<1>3. ASSUME NEW s \in Tracks, s # NoTrack, ~hops, NEW d \in Clients, track[d] = s
      PROVE  track'[d] = s
  BY <1>0, <1>2, <1>3
<1>4. CASE o # {}
  <2>1. PICK u, d : queue' = [queue EXCEPT ![t] = Without(q, u)] /\ room' = room \cup {<<d, c>>} /\ d \in Clients
    <3>1. First(o) \in DOMAIN q
      <4>1. o \in SUBSET Nat /\ o \subseteq DOMAIN q
        BY <1>1 DEF Others
      <4>2. \E n \in o : \A m \in o : n <= m
        BY <1>4, <4>1, LeastNatural
      <4> HIDE DEF o
      <4>3. First(o) \in o
        BY <4>2 DEF First
      <4> QED  BY <4>1, <4>3
    <3>2. q[First(o)] \in Clients
      BY <1>1, <3>1
    <3> QED  BY <1>4, <3>2 DEF onJoin, startMatch
  <2>2. /\ queue' \in [Tracks -> Seq(Clients)]
        /\ \A s \in Tracks : \A i \in DOMAIN queue'[s] : Waits(queue'[s][i], s) /\ queue'[s][i] \in Clients
    <3>1. /\ queue' \in [Tracks -> Seq(Clients)]
          /\ \A s \in Tracks : \A i \in DOMAIN queue'[s] : Waits(queue'[s][i], s)
      BY <2>1, TakenOff
    <3> QED  BY <3>1
  <2>3. QueueTypeOK'
    <3>1. room' \subseteq Clients \X Clients
      BY <1>1, <2>1
    <3> QED  BY <1>0, <1>2, <2>2, <3>1 DEF QueueInv, QueueTypeOK
  <2> QED  BY <1>0, <1>3, <2>2, <2>3, FewerWait
<1>5. CASE o = {}
  <2>1. queue' = [queue EXCEPT ![t] = Append(q, c)] /\ UNCHANGED room
    BY <1>5 DEF onJoin
  <2>2. /\ Append(q, c) \in Seq(Clients) /\ DOMAIN Append(q, c) = 1 .. (Len(q) + 1)
        /\ \A i \in 1 .. Len(q) : Append(q, c)[i] = q[i] /\ i \in DOMAIN q
        /\ Append(q, c)[Len(q) + 1] = c /\ Len(q) \in Nat
    BY <1>1
  <2>3. queue'[t] = Append(q, c) /\ queue' \in [Tracks -> Seq(Clients)] /\ \A s \in Tracks : s # t => queue'[s] = queue[s]
    BY <1>1, <2>1, <2>2
  <2>4. QueueTypeOK'
    BY <1>0, <1>2, <2>1, <2>3 DEF QueueInv, QueueTypeOK
  <2>5. \A i \in DOMAIN q : UserOf[q[i]] = UserOf[c]
    BY <1>5 DEF Others
  <2>6. \A i \in DOMAIN queue'[t] : UserOf[queue'[t][i]] = UserOf[c]
    <3> SUFFICES ASSUME NEW i \in 1 .. (Len(q) + 1) PROVE UserOf[Append(q, c)[i]] = UserOf[c]
      BY <2>2, <2>3
    <3>1. i \in 1 .. Len(q) \/ i = Len(q) + 1
      BY <2>2
    <3> QED  BY <2>2, <2>5, <3>1
  <2>7. ASSUME NEW s \in Tracks, NEW i \in DOMAIN queue'[s], NEW j \in DOMAIN queue'[s]
        PROVE  UserOf[queue'[s][i]] = UserOf[queue'[s][j]]
    <3>1. CASE s = t
      BY <2>6, <2>7, <3>1
    <3>2. CASE s # t
      BY <2>3, <2>7, <3>2 DEF QueueInv, NobodyWaitsInVain
    <3> QED  BY <3>1, <3>2
  <2>8. ASSUME NEW s \in Tracks, ~hops, s # NoTrack, NEW i \in DOMAIN queue'[s]
        PROVE  status'[queue'[s][i]] = "open" /\ track'[queue'[s][i]] = s
    <3>1. ASSUME NEW k \in DOMAIN queue[s]
          PROVE  status'[queue[s][k]] = "open" /\ track'[queue[s][k]] = s
      <4>1. status[queue[s][k]] = "open" /\ track[queue[s][k]] = s
        BY <2>8, <3>1, WaitersAre DEF QueueInv
      <4>2. queue[s][k] \in Clients
        BY <1>1, <3>1
      <4> QED  BY <1>0, <1>3, <2>8, <4>1, <4>2
    <3>2. CASE s = t
      <4>1. i \in 1 .. Len(q) \/ i = Len(q) + 1
        BY <2>2, <2>3, <2>8, <3>2
      <4>2. CASE i \in 1 .. Len(q)
        BY <2>2, <2>3, <3>1, <3>2, <4>2
      <4>3. CASE i = Len(q) + 1
        BY <1>0, <1>2, <2>2, <2>3, <3>2, <4>3
      <4> QED  BY <4>1, <4>2, <4>3
    <3>3. CASE s # t
      BY <2>3, <2>8, <3>1, <3>3
    <3> QED  BY <3>2, <3>3
  <2>9. NobodyWaitsInVain'
    BY <1>0, <2>7, <2>8 DEF NobodyWaitsInVain, Range
  <2> QED  BY <2>4, <2>9 DEF QueueInv
<1> QED  BY <1>4, <1>5

\* Cancelling and closing take the player's entries off the track the connection joined last.
LEMMA DroppedIs ==
  ASSUME NEW c \in Clients, QueueInv, queue' = Dropped(c)
  PROVE  /\ queue' \in [Tracks -> Seq(Clients)]
         /\ \A s \in Tracks : \A i \in DOMAIN queue'[s] :
              /\ Waits(queue'[s][i], s) /\ queue'[s][i] \in Clients
              /\ s = track[c] /\ s # NoTrack => queue'[s][i] # c
<1>1. queue \in [Tracks -> Seq(Clients)] /\ track[c] \in Tracks \cup {NoTrack}
  BY DEF QueueInv, QueueTypeOK
<1>2. CASE track[c] = NoTrack
  BY <1>1, <1>2, StandingStill DEF Dropped
<1>3. CASE track[c] # NoTrack
  <2>1. track[c] \in Tracks /\ queue' = [queue EXCEPT ![track[c]] = Without(queue[track[c]], UserOf[c])]
    BY <1>1, <1>3 DEF Dropped
  <2>2. /\ queue' \in [Tracks -> Seq(Clients)]
        /\ \A s \in Tracks : \A i \in DOMAIN queue'[s] :
             Waits(queue'[s][i], s) /\ (s = track[c] => UserOf[queue'[s][i]] # UserOf[c])
    BY <2>1, TakenOff
  <2> QED  BY <2>2
<1> QED  BY <1>2, <1>3

LEMMA CancelKeeps == ASSUME NEW c \in Clients, QueueInv, onCancel(c) PROVE QueueInv'
<1>1. queue' = Dropped(c) /\ UNCHANGED <<hops, status, track, room>>
  BY DEF onCancel
<1>2. QueueTypeOK' /\ \A s \in Tracks : \A i \in DOMAIN queue'[s] : Waits(queue'[s][i], s)
  BY <1>1, DroppedIs DEF QueueInv, QueueTypeOK
<1> QED  BY <1>1, <1>2, FewerWait

LEMMA CloseKeeps == ASSUME NEW c \in Clients, QueueInv, handleDisconnect(c) PROVE QueueInv'
<1>1. queue' = Dropped(c) /\ status' = [status EXCEPT ![c] = "closed"] /\ UNCHANGED <<hops, track, room>>
  BY DEF handleDisconnect, Cleared
<1>2. /\ QueueTypeOK'
      /\ \A s \in Tracks : \A i \in DOMAIN queue'[s] :
           /\ Waits(queue'[s][i], s) /\ queue'[s][i] \in Clients
           /\ s = track[c] /\ s # NoTrack => queue'[s][i] # c
  BY <1>1, DroppedIs DEF QueueInv, QueueTypeOK
<1>3. \A d \in Clients : d # c => status'[d] = status[d]
  BY <1>1 DEF QueueInv, QueueTypeOK
<1>4. ASSUME NEW s \in Tracks, s # NoTrack, ~hops, NEW i \in DOMAIN queue'[s],
             status[queue'[s][i]] = "open", track[queue'[s][i]] = s
      PROVE  status'[queue'[s][i]] = "open" /\ track'[queue'[s][i]] = s
  <2>1. queue'[s][i] # c
    BY <1>2, <1>4
  <2> QED  BY <1>1, <1>2, <1>3, <1>4, <2>1
<1> QED  BY <1>1, <1>2, <1>4, FewerWait

LEMMA OverKeeps == ASSUME NEW m \in room, QueueInv, RaceOver(m) PROVE QueueInv'
<1>1. QueueTypeOK'
  BY DEF QueueInv, QueueTypeOK, RaceOver
<1> QED  BY <1>1, FewerWait, StandingStill DEF RaceOver

LEMMA QueueNextKeeps == QueueInv /\ [QueueNext]_queueVars => QueueInv'
<1> SUFFICES ASSUME QueueInv, [QueueNext]_queueVars PROVE QueueInv'
  OBVIOUS
<1>1. CASE QueueNext
  BY <1>1, ConnectKeeps, JoinKeeps, CancelKeeps, CloseKeeps, OverKeeps DEF QueueNext
<1>2. CASE UNCHANGED queueVars
  BY <1>2 DEF queueVars, QueueInv, QueueTypeOK, NobodyWaitsInVain
<1> QED  BY <1>1, <1>2

LEMMA QueueInitHolds == QueueInit => QueueInv
<1> SUFFICES ASSUME QueueInit PROVE QueueInv
  OBVIOUS
<1>1. \A t \in Tracks : queue[t] = <<>> /\ DOMAIN queue[t] = {}
  BY DEF QueueInit
<1>2. QueueTypeOK
  BY DEF QueueInit, QueueTypeOK
<1> QED  BY <1>1, <1>2 DEF QueueInv, NobodyWaitsInVain, Range

(* Of any players, with any number of connections each, on any tracks: two *)
(* players never both wait on one, and who waits where it is open is there *)
(* for a match (pvp.gateway.ts:61-71, 79-118).                             *)
THEOREM WaitingIsNotInVain == QueueSpec => []NobodyWaitsInVain
<1>1. QueueInv => NobodyWaitsInVain
  BY DEF QueueInv
<1> QED  BY <1>1, QueueInitHolds, QueueNextKeeps, PTL DEF QueueSpec

-----------------------------------------------------------------------------
(* Promo codes (Promo.tla). A redemption passes three numbers in three     *)
(* steps: the uses of its code, the redemptions, the player's count of the *)
(* day. The invariant says what is owed between the steps.                 *)

OnlyMade == \A x \in redeemed : x[1] \in Made

\* What a handler has in hand is a code there is, redeemed once it has been taken.
InHandIsKnown ==
  \A r \in Redeemers : redeeming[r] # NoCode =>
    /\ redeeming[r].code \in Made
    /\ redeeming[r].at # "take" => <<redeeming[r].code, redeeming[r].player>> \in redeemed

\* The handlers that have yet to count.
InHand(p) == {r \in Redeemers : redeeming[r] # NoCode /\ redeeming[r].player = p /\ redeeming[r].at # "credit"}

AllCount == course \cap {"dies", "nocount"} = {}

DayCounts == AllCount => \A p \in Players : Cardinality(CodesOf(p)) = oks[p] + Cardinality(Counting(p))

\* Who looked saw room for one more; no more than all of them did.
DayHasRoom ==
  AllCount => \A p \in Players : oks[p] + Cardinality(InHand(p)) < OkLimit + Cardinality(Redeemers)

SumsAgree == \A b \in Batches : UsedOf(b) = Cardinality(RedeemedOf(b))

ScreenIsBehind ==
  screen # NoCode => \A b \in Batches :
    /\ screen.used[b] <= Cardinality(RedeemedOf(b))
    /\ screen.redemptions # NoCode => screen.used[b] <= screen.redemptions[b]

PromoInv ==
  /\ PromoTypeOK /\ OnlyMade /\ UsesAreTaken /\ InHandIsKnown
  /\ DayCounts /\ DayHasRoom /\ SumsAgree /\ ScreenIsBehind

\* The codes and who has them; the handlers and the day; the screen.
CodesHold    == OnlyMade /\ UsesAreTaken /\ SumsAgree
HandlersHold == InHandIsKnown /\ DayCounts /\ DayHasRoom

-----------------------------------------------------------------------------
\* What there is of each kind is finite, and what is on file is not nothing.
LEMMA AllFinite ==
  /\ IsFiniteSet(Codes) /\ IsFiniteSet(Players) /\ IsFiniteSet(Redeemers)
  /\ OkLimit \in Nat /\ OkLimit > 0 /\ Uses \subseteq Nat /\ Sizes \subseteq Nat
  /\ NoCode \notin PromoCode /\ NoCode \notin Steps /\ NoCode \notin Forms
  /\ NoCode \notin Screens /\ NoCode \notin [Batches -> Nat]
<1>1. Sizes \cup Uses \cup {FailLimit, OkLimit} \subseteq Nat \ {0}
  BY PromoAssumption
<1>2. NoCode \notin PromoCode \cup Steps \cup Forms \cup Screens \cup [Batches -> Nat]
  BY PromoAssumption
<1>3. IsFiniteSet(Codes) /\ IsFiniteSet(Players) /\ IsFiniteSet(Redeemers)
  BY PromoAssumption
<1>4. OkLimit \in Nat /\ OkLimit > 0 /\ Uses \subseteq Nat /\ Sizes \subseteq Nat
  BY <1>1
<1> QED  BY <1>2, <1>3, <1>4

LEMMA RedeemedFinite ==
  ASSUME PromoTypeOK
  PROVE  /\ IsFiniteSet(redeemed) /\ IsFiniteSet(Made)
         /\ \A b : IsFiniteSet(RedeemedOf(b)) /\ Cardinality(RedeemedOf(b)) \in Nat /\ IsFiniteSet(Of(b))
         /\ \A p : IsFiniteSet(Counting(p)) /\ IsFiniteSet(InHand(p)) /\ IsFiniteSet(CodesOf(p))
         /\ \A p : Cardinality(InHand(p)) <= Cardinality(Redeemers)
         /\ \A p : Cardinality(InHand(p)) \in Nat /\ Cardinality(Counting(p)) \in Nat /\ Cardinality(CodesOf(p)) \in Nat
         /\ \A c : IsFiniteSet(HoldersOf(c)) /\ Cardinality(HoldersOf(c)) \in Nat
         /\ Cardinality(Redeemers) \in Nat
<1>1. IsFiniteSet(Codes \X Players)
  BY AllFinite, FS_Product
<1>2. IsFiniteSet(redeemed)
  BY <1>1, FS_Subset DEF PromoTypeOK
<1>3. IsFiniteSet(Made)
  <2>1. Made \in SUBSET Codes
    BY DEF Made
  <2> QED  BY <2>1, AllFinite, FS_Subset
<1>4. ASSUME NEW b PROVE IsFiniteSet(RedeemedOf(b)) /\ Cardinality(RedeemedOf(b)) \in Nat /\ IsFiniteSet(Of(b))
  <2>1. RedeemedOf(b) \in SUBSET redeemed /\ Of(b) \in SUBSET Made
    BY DEF RedeemedOf, Of
  <2> QED  BY <1>2, <1>3, <2>1, FS_Subset, FS_CardinalityType
<1>5. ASSUME NEW p
      PROVE  /\ IsFiniteSet(Counting(p)) /\ IsFiniteSet(InHand(p)) /\ IsFiniteSet(CodesOf(p))
             /\ Cardinality(InHand(p)) <= Cardinality(Redeemers)
  <2>1. Counting(p) \in SUBSET Redeemers /\ InHand(p) \in SUBSET Redeemers /\ CodesOf(p) \in SUBSET Codes
    BY DEF Counting, InHand, CodesOf
  <2> QED  BY <2>1, AllFinite, FS_Subset
<1>6. ASSUME NEW c PROVE IsFiniteSet(HoldersOf(c))
  <2>1. HoldersOf(c) \in SUBSET Players
    BY DEF HoldersOf
  <2> QED  BY <2>1, AllFinite, FS_Subset
<1> QED  BY <1>2, <1>3, <1>4, <1>5, <1>6, AllFinite, FS_CardinalityType

\* The same of the next state.
LEMMA RedeemedFiniteNext ==
  ASSUME PromoTypeOK'
  PROVE  /\ \A b : IsFiniteSet(RedeemedOf(b)') /\ Cardinality(RedeemedOf(b)') \in Nat
         /\ \A p : Cardinality(InHand(p)') <= Cardinality(Redeemers) /\ Cardinality(InHand(p)') \in Nat
<1>1. IsFiniteSet(Codes \X Players)
  BY AllFinite, FS_Product
<1>2. IsFiniteSet(redeemed')
  BY <1>1, FS_Subset DEF PromoTypeOK
<1>3. ASSUME NEW b PROVE IsFiniteSet(RedeemedOf(b)') /\ Cardinality(RedeemedOf(b)') \in Nat
  <2>1. RedeemedOf(b)' \in SUBSET redeemed'
    BY DEF RedeemedOf
  <2> QED  BY <1>2, <2>1, FS_Subset, FS_CardinalityType
<1>4. ASSUME NEW p PROVE Cardinality(InHand(p)') <= Cardinality(Redeemers) /\ Cardinality(InHand(p)') \in Nat
  <2>1. InHand(p)' \in SUBSET Redeemers
    BY DEF InHand
  <2> QED  BY <2>1, AllFinite, FS_Subset, FS_CardinalityType
<1> QED  BY <1>3, <1>4

LEMMA CodeIs ==
  ASSUME PromoTypeOK, NEW c \in Made
  PROVE  c \in Codes /\ code[c] \in PromoCode /\ code[c].used \in Nat /\ code[c].max \in Uses /\ code[c].max \in Nat
<1>1. c \in Codes /\ code[c] \in PromoCode
  BY DEF PromoTypeOK, Made
<1>2. code[c].used \in Nat /\ code[c].max \in Uses
  BY <1>1 DEF PromoCode
<1> QED  BY <1>1, <1>2, AllFinite

\* The uses of a batch, as a sum that can be reckoned with.
LEMMA UsedIs ==
  ASSUME PromoTypeOK, NEW b
  PROVE  /\ UsedOf(b) = Sum([c \in Of(b) |-> code[c].used], Of(b))
         /\ \A c \in Of(b) : [d \in Of(b) |-> code[d].used][c] = code[c].used /\ code[c].used \in Int
<1>1. \A c \in Of(b) : code[c].used \in Int
  BY CodeIs DEF Of
<1>2. DOMAIN [c \in Of(b) |-> code[c].used] = Of(b)
  OBVIOUS
<1> QED  BY <1>1, <1>2, SumOfFunction DEF UsedOf

-----------------------------------------------------------------------------
\* Codes that change in nothing but their switch and their date.
Alike(c) ==
  /\ code'[c].batch = code[c].batch /\ code'[c].max = code[c].max /\ code'[c].used = code[c].used
  /\ ~code'[c].on => code'[c].mark = code[c].used

LEMMA CodesAlike ==
  ASSUME PromoInv, PromoTypeOK', Made' = Made, \A c \in Made : Alike(c),
         redeemed' = redeemed, paid' \subseteq redeemed
  PROVE  CodesHold' /\ \A b \in Batches : RedeemedOf(b)' = RedeemedOf(b)
<1>1. ASSUME NEW b \in Batches PROVE Of(b)' = Of(b) /\ RedeemedOf(b)' = RedeemedOf(b)
  <2>1. Of(b)' = Of(b)
    BY DEF Of, Alike
  <2> QED  BY <2>1 DEF RedeemedOf
<1>2. OnlyMade'
  BY DEF PromoInv, OnlyMade
<1>3. UsesAreTaken'
  <2>1. ASSUME NEW c \in Made
        PROVE  /\ code'[c].used = Cardinality(HoldersOf(c)') /\ code'[c].used <= code'[c].max
               /\ ~code'[c].on => code'[c].used = code'[c].mark
    <3>1. HoldersOf(c)' = HoldersOf(c)
      BY DEF HoldersOf
    <3> QED  BY <3>1 DEF PromoInv, UsesAreTaken, Alike
  <2> QED  BY <2>1 DEF UsesAreTaken
<1>4. SumsAgree'
  <2>1. ASSUME NEW b \in Batches PROVE UsedOf(b)' = Cardinality(RedeemedOf(b)')
    <3>1. [c \in Of(b)' |-> code'[c].used] = [c \in Of(b) |-> code[c].used]
      BY <1>1 DEF Alike, Of
    <3>2. UsedOf(b)' = UsedOf(b)
      BY <3>1 DEF UsedOf
    <3> QED  BY <1>1, <3>2 DEF PromoInv, SumsAgree
  <2> QED  BY <2>1 DEF SumsAgree
<1> QED  BY <1>1, <1>2, <1>3, <1>4 DEF CodesHold

\* Nothing of the codes changes.
LEMMA CodesStay ==
  ASSUME PromoInv, PromoTypeOK', UNCHANGED <<code, redeemed>>, paid' \subseteq redeemed
  PROVE  CodesHold' /\ \A b \in Batches : RedeemedOf(b)' = RedeemedOf(b)
<1>1. Made' = Made /\ \A c \in Made : Alike(c)
  BY DEF Made, Alike, PromoInv, UsesAreTaken
<1> QED  BY <1>1, CodesAlike

\* The handlers where they were.
LEMMA HandlersStay ==
  ASSUME PromoInv, UNCHANGED <<course, redeemed, redeeming, oks>>, Made \subseteq Made'
  PROVE  HandlersHold'
  BY DEF PromoInv, HandlersHold, InHandIsKnown, DayCounts, DayHasRoom, AllCount, CodesOf, Counting, InHand

\* The screen as it was, and no redemption undone.
LEMMA ScreenStays ==
  ASSUME PromoInv, PromoTypeOK', screen' = screen, \A b \in Batches : RedeemedOf(b) \subseteq RedeemedOf(b)'
  PROVE  ScreenIsBehind'
<1> SUFFICES ASSUME screen # NoCode, NEW b \in Batches
             PROVE  /\ screen.used[b] <= Cardinality(RedeemedOf(b)')
                    /\ screen.redemptions # NoCode => screen.used[b] <= screen.redemptions[b]
  BY DEF ScreenIsBehind
<1>1. screen.used[b] <= Cardinality(RedeemedOf(b)) /\ (screen.redemptions # NoCode => screen.used[b] <= screen.redemptions[b])
  BY DEF PromoInv, ScreenIsBehind
<1>2. IsFiniteSet(RedeemedOf(b)') /\ Cardinality(RedeemedOf(b)') \in Nat
  BY RedeemedFiniteNext
<1>3. Cardinality(RedeemedOf(b)) <= Cardinality(RedeemedOf(b)')
  BY <1>2, FS_Subset
<1>4. screen.used[b] \in Nat
  <2>1. screen \in Screens
    BY DEF PromoInv, PromoTypeOK
  <2> QED  BY <2>1 DEF Screens
<1>5. Cardinality(RedeemedOf(b)) \in Nat
  BY RedeemedFinite DEF PromoInv
<1> QED  BY <1>1, <1>2, <1>3, <1>4, <1>5

LEMMA PartsMake ==
  ASSUME PromoTypeOK', CodesHold', HandlersHold', ScreenIsBehind'
  PROVE  PromoInv'
BY DEF PromoInv, CodesHold, HandlersHold

\* What stays with the codes, the day and the screen where a step touches none of them.
LEMMA AllStay ==
  ASSUME PromoInv, PromoTypeOK', UNCHANGED <<course, code, redeemed, paid, redeeming, oks, screen>>
  PROVE  PromoInv'
<1>1. CodesHold' /\ \A b \in Batches : RedeemedOf(b)' = RedeemedOf(b)
  BY CodesStay DEF PromoInv, UsesAreTaken
<1>2. HandlersHold'
  BY HandlersStay DEF Made
<1>3. ScreenIsBehind'
  BY <1>1, ScreenStays
<1> QED  BY <1>1, <1>2, <1>3, PartsMake

-----------------------------------------------------------------------------
(* The operators. *)

LEMMA SubmitKeeps == PromoInv /\ Submit => PromoInv'
<1> SUFFICES ASSUME PromoInv, Submit PROVE PromoInv'
  OBVIOUS
<1>1. PICK b \in Batches, n \in Sizes, m \in Uses : form' = [batch |-> b, max |-> m, togo |-> n, made |-> {}]
  BY DEF Submit
<1>2. form' \in Forms
  BY <1>1, AllFinite DEF Forms
<1>3. UNCHANGED <<course, code, redeemed, paid, fails, oks, redeeming, screen>>
  BY DEF Submit
<1>4. PromoTypeOK'
  BY <1>2, <1>3 DEF PromoInv, PromoTypeOK
<1> QED  BY <1>3, <1>4, AllStay

LEMMA AnswerKeeps == PromoInv /\ Answer => PromoInv'
<1> SUFFICES ASSUME PromoInv, Answer PROVE PromoInv'
  OBVIOUS
<1>1. form' = NoCode /\ UNCHANGED <<course, code, redeemed, paid, fails, oks, redeeming, screen>>
  BY DEF Answer
<1>2. PromoTypeOK'
  BY <1>1 DEF PromoInv, PromoTypeOK
<1> QED  BY <1>1, <1>2, AllStay

\* A new code has no uses and nobody has it.
LEMMA InsertKeeps == PromoInv /\ InsertCode => PromoInv'
<1> SUFFICES ASSUME PromoInv, InsertCode PROVE PromoInv'
  OBVIOUS
<1>0. /\ form \in Forms /\ form.togo > 0
      /\ UNCHANGED <<course, redeemed, paid, fails, oks, redeeming, screen>>
  BY DEF InsertCode, PromoInv, PromoTypeOK
<1>f. form.batch \in Batches /\ form.max \in Uses /\ form.togo \in Nat /\ form.made \subseteq Codes
  BY <1>0 DEF Forms
<1>1. CASE form' = [form EXCEPT !.togo = @ - 1] /\ UNCHANGED code
  <2>1. form' \in Forms
    BY <1>0, <1>1 DEF Forms
  <2>2. PromoTypeOK'
    BY <1>0, <1>1, <2>1 DEF PromoInv, PromoTypeOK
  <2> QED  BY <1>0, <1>1, <2>2, AllStay
<1>2. ASSUME NEW c \in Codes \ Made,
             code' = [code EXCEPT ![c] = [batch |-> form.batch, max |-> form.max, used |-> 0,
                                          on |-> TRUE, expired |-> FALSE, mark |-> 0]],
             form' = [form EXCEPT !.togo = @ - 1, !.made = @ \cup {c}]
      PROVE  PromoInv'
  <2> DEFINE new == [batch |-> form.batch, max |-> form.max, used |-> 0, on |-> TRUE, expired |-> FALSE, mark |-> 0]
  <2>1. new \in PromoCode
    BY <1>f DEF PromoCode
  <2>2. form' \in Forms
    <3>1. form' = [batch |-> form.batch, max |-> form.max, togo |-> form.togo - 1, made |-> form.made \cup {c}]
      BY <1>0, <1>2 DEF Forms
    <3> QED  BY <1>0, <1>f, <3>1 DEF Forms
  <2>3. code' \in [Codes -> PromoCode \cup {NoCode}] /\ code'[c] = new /\ (\A d \in Codes : d # c => code'[d] = code[d])
    BY <1>2, <2>1 DEF PromoInv, PromoTypeOK
  <2>4. PromoTypeOK'
    BY <1>0, <2>2, <2>3 DEF PromoInv, PromoTypeOK
  <2>5. Made' = Made \cup {c}
    BY <1>2, <2>1, <2>3, AllFinite DEF Made
  <2>6. HoldersOf(c) = {}
    BY <1>2 DEF PromoInv, OnlyMade, HoldersOf
  <2>7. OnlyMade'
    BY <1>0, <2>5 DEF PromoInv, OnlyMade
  <2>8. UsesAreTaken'
    <3>1. ASSUME NEW d \in Made'
          PROVE  /\ code'[d].used = Cardinality(HoldersOf(d)') /\ code'[d].used <= code'[d].max
                 /\ ~code'[d].on => code'[d].used = code'[d].mark
      <4>1. HoldersOf(d)' = HoldersOf(d)
        BY <1>0 DEF HoldersOf
      <4>2. CASE d = c
        <5>1. code'[d].used = 0 /\ code'[d].on = TRUE /\ code'[d].max = form.max
          BY <2>3, <4>2
        <5>2. form.max \in Nat
          BY <1>f, AllFinite
        <5>3. Cardinality(HoldersOf(d)') = 0
          BY <2>6, <4>1, <4>2, FS_EmptySet
        <5> QED  BY <5>1, <5>2, <5>3
      <4>3. CASE d # c
        <5>1. d \in Made /\ code'[d] = code[d]
          BY <2>3, <2>5, <4>3 DEF Made
        <5> QED  BY <4>1, <5>1 DEF PromoInv, UsesAreTaken
      <4> QED  BY <4>2, <4>3
    <3> QED  BY <1>0, <3>1 DEF PromoInv, UsesAreTaken
  <2>9. ASSUME NEW b \in Batches
        PROVE  RedeemedOf(b)' = RedeemedOf(b) /\ UsedOf(b)' = Cardinality(RedeemedOf(b)')
    <3>0. \A d \in Made : d # c /\ code'[d] = code[d]
      BY <1>2, <2>3 DEF Made
    <3>1. Of(b)' = IF form.batch = b THEN Of(b) \cup {c} ELSE Of(b)
      BY <2>3, <2>5, <3>0 DEF Of
    <3>2. c \notin Of(b) /\ \A x \in redeemed : x[1] # c
      BY <1>2 DEF Of, PromoInv, OnlyMade
    <3>3. RedeemedOf(b)' = RedeemedOf(b)
      BY <1>0, <3>1, <3>2 DEF RedeemedOf
    <3>4. UsedOf(b) = Cardinality(RedeemedOf(b)) /\ UsedOf(b) \in Nat
      BY RedeemedFinite DEF PromoInv, SumsAgree
    <3> DEFINE f == [d \in Of(b) |-> code[d].used]
               g == [d \in Of(b)' |-> code'[d].used]
    <3>5. \A d \in Of(b) : d \in Made /\ code'[d] = code[d] /\ code[d].used \in Int
      BY <3>0, CodeIs DEF Of, PromoInv
    <3>6. CASE form.batch = b
      <4>1. DOMAIN f = Of(b) /\ DOMAIN g = Of(b) \cup {c} /\ g[c] = 0 /\ \A d \in Of(b) : f[d] \in Int /\ g[d] = f[d]
        BY <2>3, <3>1, <3>5, <3>6
      <4>2. IsFiniteSet(Of(b))
        BY RedeemedFinite DEF PromoInv
      <4>3. SumFunction(g) = SumFunction(f) + 0 /\ SumFunction(f) \in Int
        <5> HIDE DEF f, g
        <5>1. g[c] \in Int /\ c \notin Of(b) /\ \A d \in Of(b) : f[d] \in Int /\ g[d] = f[d]
          BY <3>2, <4>1
        <5>2. DOMAIN f = Of(b) /\ DOMAIN g = Of(b) \cup {c}
          BY <4>1
        <5>3. SumFunction(g) = SumFunction(f) + g[c] /\ SumFunction(f) \in Int
          BY <4>2, <5>1, <5>2, OneMore
        <5> QED  BY <4>1, <5>3
      <4>4. UsedOf(b)' = UsedOf(b)
        BY <4>3 DEF UsedOf
      <4> QED  BY <3>3, <3>4, <4>4
    <3>7. CASE form.batch # b
      <4>1. g = f
        BY <3>1, <3>5, <3>7
      <4>2. UsedOf(b)' = UsedOf(b)
        BY <4>1 DEF UsedOf
      <4> QED  BY <3>3, <3>4, <4>2
    <3> QED  BY <3>6, <3>7
  <2>10. CodesHold'
    BY <2>7, <2>8, <2>9 DEF CodesHold, SumsAgree
  <2>11. HandlersHold'
    BY <1>0, <2>5, HandlersStay
  <2>12. ScreenIsBehind'
    BY <1>0, <2>4, <2>9, ScreenStays
  <2> QED  BY <2>4, <2>10, <2>11, <2>12, PartsMake
<1> QED  BY <1>1, <1>2 DEF InsertCode

\* Switched or expired: alike in all else.
LEMMA SwitchKeeps ==
  ASSUME PromoInv, code' \in [Codes -> PromoCode \cup {NoCode}], Made' = Made, \A c \in Made : Alike(c),
         UNCHANGED <<course, redeemed, paid, fails, oks, redeeming, form, screen>>
  PROVE  PromoInv'
<1>1. PromoTypeOK'
  BY DEF PromoInv, PromoTypeOK
<1>2. CodesHold' /\ \A b \in Batches : RedeemedOf(b)' = RedeemedOf(b)
  BY <1>1, CodesAlike DEF PromoInv, UsesAreTaken
<1>3. HandlersHold'
  BY HandlersStay
<1>4. ScreenIsBehind'
  BY <1>1, <1>2, ScreenStays
<1> QED  BY <1>1, <1>2, <1>3, <1>4, PartsMake

LEMMA ToggleKeeps == PromoInv /\ (ToggleCode \/ ToggleBatch \/ Expires) => PromoInv'
<1> SUFFICES ASSUME PromoInv, ToggleCode \/ ToggleBatch \/ Expires PROVE PromoInv'
  OBVIOUS
<1>0. \A c \in Made : code[c] \in PromoCode /\ (~code[c].on => code[c].mark = code[c].used) /\ c \in Codes
  BY CodeIs DEF PromoInv, UsesAreTaken
<1>1. ASSUME NEW C \in SUBSET Made, NEW on \in BOOLEAN, Switch(C, on) PROVE PromoInv'
  <2>1. /\ code' = [c \in Codes |-> IF c \in C THEN Switched(c, on) ELSE code[c]]
        /\ UNCHANGED <<course, redeemed, paid, fails, oks, redeeming, form, screen>>
    BY <1>1 DEF Switch
  <2>2. ASSUME NEW c \in Made
        PROVE  Switched(c, on) \in PromoCode /\ Switched(c, on).batch = code[c].batch
               /\ Switched(c, on).max = code[c].max /\ Switched(c, on).used = code[c].used
               /\ (~Switched(c, on).on => Switched(c, on).mark = code[c].used)
    BY <1>0 DEF Switched, PromoCode
  <2>3. \A c \in Made : code'[c] \in PromoCode /\ Alike(c)
    BY <1>0, <2>1, <2>2 DEF Alike
  <2>4. \A c \in Codes : c \notin Made => code'[c] = NoCode
    BY <2>1 DEF Made
  <2>5. code' \in [Codes -> PromoCode \cup {NoCode}]
    BY <2>1, <2>3, <2>4
  <2>6. Made' = Made
    BY <1>0, <2>3, <2>4, AllFinite DEF Made
  <2> QED  BY <2>1, <2>3, <2>5, <2>6, SwitchKeeps
<1>2. ASSUME NEW c \in Made, code' = [code EXCEPT ![c].expired = TRUE],
             UNCHANGED <<course, redeemed, paid, fails, oks, redeeming, Office>>
      PROVE  PromoInv'
  <2>0. code \in [Codes -> PromoCode \cup {NoCode}] /\ code[c] \in PromoCode /\ c \in Codes
    BY <1>0 DEF PromoInv, PromoTypeOK
  <2>1. /\ code'[c] = [code[c] EXCEPT !.expired = TRUE] /\ code'[c] \in PromoCode
        /\ \A d \in Codes : d # c => code'[d] = code[d]
    BY <1>2, <2>0 DEF PromoCode
  <2>2. code' \in [Codes -> PromoCode \cup {NoCode}]
    BY <1>2, <2>0, <2>1
  <2>3. Alike(c)
    BY <1>0, <2>0, <2>1 DEF Alike, PromoCode
  <2>4. \A d \in Made : Alike(d)
    BY <1>0, <2>1, <2>3 DEF Alike
  <2>5. Made' = Made
    BY <2>0, <2>1, AllFinite DEF Made
  <2> QED  BY <1>2, <2>2, <2>4, <2>5, SwitchKeeps DEF Office
<1>3. CASE ToggleCode
  <2>1. PICK c \in Made, on \in BOOLEAN : Switch({c}, on)
    BY <1>3 DEF ToggleCode
  <2> QED  BY <1>1, <2>1
<1>4. CASE ToggleBatch
  <2>1. PICK b \in Batches, on \in BOOLEAN : Switch(Of(b), on)
    BY <1>4 DEF ToggleBatch
  <2>2. Of(b) \in SUBSET Made
    BY DEF Of
  <2> QED  BY <1>1, <2>1, <2>2
<1>5. CASE Expires
  BY <1>2, <1>5 DEF Expires
<1> QED  BY <1>3, <1>4, <1>5

\* The first query finds as many uses as there are redemptions, the second no fewer of these.
LEMMA ScreenKeeps == PromoInv /\ (OpenScreen \/ FillScreen) => PromoInv'
<1> SUFFICES ASSUME PromoInv, OpenScreen \/ FillScreen PROVE PromoInv'
  OBVIOUS
<1>0. UNCHANGED <<course, code, redeemed, paid, fails, oks, redeeming, form>>
  BY DEF OpenScreen, FillScreen
<1>1. \A b \in Batches : /\ UsedOf(b) = Cardinality(RedeemedOf(b)) /\ UsedOf(b) \in Nat
                         /\ RedeemedOf(b)' = RedeemedOf(b)
  BY <1>0, RedeemedFinite DEF PromoInv, SumsAgree, RedeemedOf, Of, Made
<1>2. screen' \in Screens \cup {NoCode} /\ ScreenIsBehind'
  <2>1. CASE OpenScreen
    <3>1. screen' = [used |-> [b \in Batches |-> UsedOf(b)], redemptions |-> NoCode]
      BY <2>1 DEF OpenScreen
    <3>2. screen' \in Screens
      BY <1>1, <3>1 DEF Screens
    <3>3. \A b \in Batches : screen'.used[b] <= Cardinality(RedeemedOf(b)')
      BY <1>1, <3>1
    <3>4. screen'.redemptions = NoCode
      BY <3>1
    <3> QED  BY <3>2, <3>3, <3>4 DEF ScreenIsBehind
  <2>2. CASE FillScreen /\ screen.redemptions = NoCode
    <3> DEFINE counts == [b \in Batches |-> Cardinality(RedeemedOf(b))]
    <3>1. screen' = [screen EXCEPT !.redemptions = counts] /\ screen \in Screens
      BY <2>2 DEF FillScreen, PromoInv, PromoTypeOK
    <3>2. counts \in [Batches -> Nat]
      BY <1>1
    <3>3. screen' \in Screens /\ screen'.used = screen.used /\ screen'.redemptions = counts
      BY <3>1, <3>2 DEF Screens
    <3>4. \A b \in Batches : screen.used[b] <= Cardinality(RedeemedOf(b))
      BY <2>2 DEF FillScreen, PromoInv, ScreenIsBehind
    <3> QED  BY <1>1, <3>3, <3>4 DEF ScreenIsBehind
  <2>3. CASE FillScreen /\ screen.redemptions # NoCode
    BY <2>3 DEF FillScreen, ScreenIsBehind
  <2> QED  BY <2>1, <2>2, <2>3
<1>3. PromoTypeOK'
  BY <1>0, <1>2 DEF PromoInv, PromoTypeOK
<1>4. CodesHold'
  BY <1>0, <1>3, CodesStay DEF PromoInv, UsesAreTaken
<1>5. HandlersHold'
  BY <1>0, HandlersStay DEF Made
<1> QED  BY <1>2, <1>3, <1>4, <1>5, PartsMake

-----------------------------------------------------------------------------
(* The players. *)

LEMMA StepIs ==
  ASSUME PromoInv, NEW r \in Redeemers, redeeming[r] # NoCode
  PROVE  /\ redeeming[r] \in Steps /\ redeeming[r].player \in Players /\ redeeming[r].code \in Codes
         /\ redeeming[r].at \in {"take", "count", "credit"} /\ redeeming[r].code \in Made
         /\ redeeming[r].at # "take" => <<redeeming[r].code, redeeming[r].player>> \in redeemed
<1>1. redeeming[r] \in Steps
  BY DEF PromoInv, PromoTypeOK
<1> QED  BY <1>1 DEF Steps, PromoInv, InHandIsKnown

\* One handler ends, from a step where it has nothing to count, or is one that died.
LEMMA EndKeeps ==
  ASSUME PromoInv, NEW r \in Redeemers, redeeming[r] # NoCode, Ended(r),
         redeeming[r].at # "count" \/ ~AllCount, UNCHANGED <<course, code, redeemed, oks, form, screen>>,
         fails' \in [Players -> Nat], paid' \subseteq redeemed
  PROVE  PromoInv'
<1>1. /\ redeeming' = [redeeming EXCEPT ![r] = NoCode] /\ redeeming'[r] = NoCode
      /\ \A s \in Redeemers : s # r => redeeming'[s] = redeeming[s]
  BY DEF Ended, PromoInv, PromoTypeOK
<1>2. PromoTypeOK'
  BY <1>1 DEF PromoInv, PromoTypeOK
<1>3. CodesHold' /\ \A b \in Batches : RedeemedOf(b)' = RedeemedOf(b)
  BY <1>2, CodesStay
<1>4. ScreenIsBehind'
  BY <1>2, <1>3, ScreenStays
<1>5. InHandIsKnown'
  BY <1>1 DEF PromoInv, InHandIsKnown, Made
<1>6. ASSUME AllCount, NEW p \in Players
      PROVE  /\ Cardinality(CodesOf(p)') = oks'[p] + Cardinality(Counting(p)')
             /\ oks'[p] + Cardinality(InHand(p)') < OkLimit + Cardinality(Redeemers)
  <2>1. CodesOf(p)' = CodesOf(p) /\ Counting(p)' = Counting(p) /\ InHand(p)' \subseteq InHand(p)
    BY <1>1, <1>6 DEF CodesOf, Counting, InHand
  <2>2. Cardinality(InHand(p)') <= Cardinality(InHand(p)) /\ Cardinality(InHand(p)') \in Nat /\ Cardinality(InHand(p)) \in Nat
    <3>1. IsFiniteSet(InHand(p))
      BY RedeemedFinite DEF PromoInv
    <3> QED  BY <2>1, <3>1, FS_Subset, FS_CardinalityType
  <2>3. oks[p] \in Nat /\ oks'[p] = oks[p] /\ OkLimit \in Nat /\ Cardinality(Redeemers) \in Nat
    BY RedeemedFinite, AllFinite DEF PromoInv, PromoTypeOK
  <2>4. /\ Cardinality(CodesOf(p)) = oks[p] + Cardinality(Counting(p))
        /\ oks[p] + Cardinality(InHand(p)) < OkLimit + Cardinality(Redeemers)
    BY <1>6 DEF PromoInv, DayCounts, DayHasRoom
  <2> QED  BY <2>1, <2>2, <2>3, <2>4
<1>7. HandlersHold'
  BY <1>5, <1>6 DEF HandlersHold, DayCounts, DayHasRoom, AllCount
<1> QED  BY <1>2, <1>3, <1>4, <1>7, PartsMake

\* Where a handler goes on, and everything else stays.
LEMMA GoesOn ==
  ASSUME PromoInv, NEW r \in Redeemers, NEW p \in Players, NEW c \in Codes, NEW step \in {"take", "count", "credit"},
         Goes(r, p, c, step)
  PROVE  /\ redeeming' \in [Redeemers -> Steps \cup {NoCode}] /\ redeeming'[r] # NoCode
         /\ redeeming'[r].player = p /\ redeeming'[r].code = c /\ redeeming'[r].at = step
         /\ \A s \in Redeemers : s # r => redeeming'[s] = redeeming[s]
<1>1. [player |-> p, code |-> c, at |-> step] \in Steps
  BY DEF Steps
<1>2. /\ redeeming' \in [Redeemers -> Steps \cup {NoCode}] /\ redeeming'[r] = [player |-> p, code |-> c, at |-> step]
      /\ \A s \in Redeemers : s # r => redeeming'[s] = redeeming[s]
  BY <1>1 DEF Goes, PromoInv, PromoTypeOK
<1> QED  BY <1>1, <1>2, AllFinite

\* A handler that looked: on to take a use, where the day had room, or to credit again.
LEMMA StartKeeps ==
  ASSUME PromoInv, NEW r \in Redeemers, NEW p \in Players, NEW c \in Made, NEW step \in {"take", "credit"},
         redeeming[r] = NoCode, Goes(r, p, c, step), step = "take" => oks[p] < OkLimit,
         step = "credit" => <<c, p>> \in redeemed,
         UNCHANGED <<course, code, redeemed, paid, fails, oks, form, screen>>
  PROVE  PromoInv'
<1>1. /\ redeeming' \in [Redeemers -> Steps \cup {NoCode}] /\ redeeming'[r] # NoCode
      /\ redeeming'[r].player = p /\ redeeming'[r].code = c /\ redeeming'[r].at = step
      /\ \A s \in Redeemers : s # r => redeeming'[s] = redeeming[s]
  BY GoesOn DEF Made
<1>2. PromoTypeOK'
  BY <1>1 DEF PromoInv, PromoTypeOK
<1>3. CodesHold' /\ \A b \in Batches : RedeemedOf(b)' = RedeemedOf(b)
  BY <1>2, CodesStay DEF PromoInv, UsesAreTaken
<1>4. ScreenIsBehind'
  BY <1>2, <1>3, ScreenStays
<1>5. InHandIsKnown'
  BY <1>1 DEF PromoInv, InHandIsKnown, Made
<1>6. ASSUME AllCount, NEW q \in Players
      PROVE  /\ Cardinality(CodesOf(q)') = oks'[q] + Cardinality(Counting(q)')
             /\ oks'[q] + Cardinality(InHand(q)') < OkLimit + Cardinality(Redeemers)
  <2>1. CodesOf(q)' = CodesOf(q) /\ Counting(q)' = Counting(q)
    BY <1>1 DEF CodesOf, Counting
  <2>2. oks[q] \in Nat /\ oks'[q] = oks[q] /\ OkLimit \in Nat /\ Cardinality(Redeemers) \in Nat
    BY RedeemedFinite, AllFinite DEF PromoInv, PromoTypeOK
  <2>3. /\ Cardinality(CodesOf(q)) = oks[q] + Cardinality(Counting(q))
        /\ oks[q] + Cardinality(InHand(q)) < OkLimit + Cardinality(Redeemers)
    BY <1>6 DEF PromoInv, DayCounts, DayHasRoom
  <2>4. CASE q = p /\ step = "take"
    <3>1. Cardinality(InHand(q)') <= Cardinality(Redeemers) /\ Cardinality(InHand(q)') \in Nat
      BY <1>2, RedeemedFiniteNext
    <3> QED  BY <2>1, <2>2, <2>3, <2>4, <3>1
  <2>5. CASE ~(q = p /\ step = "take")
    <3>1. InHand(q)' = InHand(q)
      BY <1>1, <2>5 DEF InHand
    <3> QED  BY <2>1, <2>2, <2>3, <3>1
  <2> QED  BY <2>4, <2>5
<1>7. HandlersHold'
  BY <1>5, <1>6 DEF HandlersHold, DayCounts, DayHasRoom, AllCount
<1> QED  BY <1>2, <1>3, <1>4, <1>7, PartsMake

LEMMA FailsAreNumbers ==
  ASSUME PromoInv, NEW p, Failed(p)
  PROVE  fails' \in [Players -> Nat]
<1>1. fails \in [Players -> Nat]
  BY DEF PromoInv, PromoTypeOK
<1>2. ASSUME NEW n \in Nat PROVE Bumped(n) \in Nat
  BY DEF Bumped
<1> QED  BY <1>1, <1>2 DEF Failed

LEMMA LookUpKeeps == ASSUME PromoInv, NEW r \in Redeemers, LookUp(r) PROVE PromoInv'
<1>0. redeeming[r] = NoCode /\ UNCHANGED <<course, code, redeemed, paid, oks, form, screen>>
  BY DEF LookUp, Office
<1>1. PICK p \in Players, c \in Codes :
        \/ Failed(p) /\ UNCHANGED redeeming
        \/ <<c, p>> \in redeemed /\ Goes(r, p, c, "credit") /\ UNCHANGED fails
        \/ c \in Made /\ oks[p] < OkLimit /\ Goes(r, p, c, "take") /\ UNCHANGED fails
  BY DEF LookUp
<1>2. CASE Failed(p) /\ UNCHANGED redeeming
  <2>1. PromoTypeOK'
    BY <1>0, <1>2, FailsAreNumbers DEF PromoInv, PromoTypeOK
  <2> QED  BY <1>0, <1>2, <2>1, AllStay
<1>3. CASE <<c, p>> \in redeemed /\ Goes(r, p, c, "credit") /\ UNCHANGED fails
  <2>1. c \in Made
    <3>1. <<c, p>>[1] \in Made
      BY <1>3 DEF PromoInv, OnlyMade
    <3> QED  BY <3>1
  <2> QED  BY <1>0, <1>3, <2>1, StartKeeps
<1>4. CASE c \in Made /\ oks[p] < OkLimit /\ Goes(r, p, c, "take") /\ UNCHANGED fails
  BY <1>0, <1>4, StartKeeps
<1> QED  BY <1>1, <1>2, <1>3, <1>4

\* A use taken, and the redemption with it.
LEMMA UseKeeps ==
  ASSUME PromoInv, NEW r \in Redeemers, redeeming[r] # NoCode, redeeming[r].at = "take",
         NEW c \in Made, NEW p \in Players, c = redeeming[r].code, p = redeeming[r].player,
         UseLeft(c), <<c, p>> \notin redeemed,
         code' = [code EXCEPT ![c].used = @ + 1], redeemed' = redeemed \cup {<<c, p>>}, Goes(r, p, c, "count"),
         UNCHANGED <<course, paid, fails, oks, form, screen>>
  PROVE  PromoInv'
<1>0. code[c] \in PromoCode /\ c \in Codes /\ code \in [Codes -> PromoCode \cup {NoCode}]
  BY CodeIs DEF PromoInv, PromoTypeOK
<1>1. /\ redeeming' \in [Redeemers -> Steps \cup {NoCode}] /\ redeeming'[r] # NoCode
      /\ redeeming'[r].player = p /\ redeeming'[r].code = c /\ redeeming'[r].at = "count"
      /\ \A s \in Redeemers : s # r => redeeming'[s] = redeeming[s]
  BY <1>0, GoesOn
<1>2. /\ code'[c] = [code[c] EXCEPT !.used = @ + 1] /\ code'[c] \in PromoCode
      /\ (\A d \in Codes : d # c => code'[d] = code[d]) /\ code' \in [Codes -> PromoCode \cup {NoCode}]
  BY <1>0 DEF PromoCode
<1>3. /\ code'[c].used = code[c].used + 1 /\ code'[c].batch = code[c].batch /\ code'[c].max = code[c].max
      /\ code'[c].on = code[c].on /\ code[c].used \in Nat /\ code[c].max \in Nat
  BY <1>0, <1>2, CodeIs DEF PromoCode, PromoInv
<1>4. Made' = Made
  BY <1>0, <1>2, AllFinite DEF Made
<1>5. PromoTypeOK'
  <2>1. redeemed' \subseteq Codes \X Players /\ paid' \subseteq redeemed'
    BY <1>0 DEF PromoInv, PromoTypeOK
  <2> QED  BY <1>1, <1>2, <2>1 DEF PromoInv, PromoTypeOK
<1>6. OnlyMade'
  BY <1>4 DEF PromoInv, OnlyMade
<1>7. UsesAreTaken'
  <2>1. HoldersOf(c)' = HoldersOf(c) \cup {p} /\ p \notin HoldersOf(c)
    BY DEF HoldersOf
  <2>2. Cardinality(HoldersOf(c)') = Cardinality(HoldersOf(c)) + 1
    <3>1. IsFiniteSet(HoldersOf(c))
      BY RedeemedFinite DEF PromoInv
    <3> QED  BY <2>1, <3>1, FS_AddElement
  <2>3. ASSUME NEW d \in Made
        PROVE  /\ code'[d].used = Cardinality(HoldersOf(d)') /\ code'[d].used <= code'[d].max
               /\ ~code'[d].on => code'[d].used = code'[d].mark
    <3>1. CASE d = c
      <4>1. code[c].on /\ code[c].used < code[c].max /\ code[c].used = Cardinality(HoldersOf(c))
        BY DEF UseLeft, PromoInv, UsesAreTaken
      <4> QED  BY <1>3, <2>2, <3>1, <4>1
    <3>2. CASE d # c
      <4>1. HoldersOf(d)' = HoldersOf(d) /\ code'[d] = code[d]
        BY <1>2, <3>2 DEF HoldersOf, Made
      <4> QED  BY <4>1 DEF PromoInv, UsesAreTaken
    <3> QED  BY <3>1, <3>2
  <2> QED  BY <1>4, <2>3 DEF PromoInv, UsesAreTaken
<1>8. ASSUME NEW b \in Batches
      PROVE  RedeemedOf(b) \subseteq RedeemedOf(b)' /\ UsedOf(b)' = Cardinality(RedeemedOf(b)')
  <2>0. \A d \in Made : d \in Codes
    BY DEF Made
  <2>1. Of(b)' = Of(b)
    BY <1>2, <1>3, <1>4, <2>0 DEF Of
  <2>2. RedeemedOf(b)' = IF c \in Of(b) THEN RedeemedOf(b) \cup {<<c, p>>} ELSE RedeemedOf(b)
    BY <2>1 DEF RedeemedOf
  <2>3. <<c, p>> \notin RedeemedOf(b) /\ IsFiniteSet(RedeemedOf(b)) /\ UsedOf(b) = Cardinality(RedeemedOf(b))
    BY RedeemedFinite DEF RedeemedOf, PromoInv, SumsAgree
  <2> DEFINE f == [d \in Of(b) |-> code[d].used]
             g == [d \in Of(b) |-> code'[d].used]
  <2>4. UsedOf(b) = SumFunction(f) /\ UsedOf(b)' = SumFunction(g)
    BY <2>1 DEF UsedOf
  <2>5. ASSUME NEW d \in Of(b)
        PROVE  f[d] \in Int /\ g[d] \in Int /\ (d # c => g[d] = f[d]) /\ (d = c => g[d] = f[d] + 1)
    <3>1. d \in Made /\ d \in Codes /\ code[d].used \in Nat
      <4>1. d \in Made
        BY <2>5 DEF Of
      <4> QED  BY <4>1, CodeIs DEF PromoInv
    <3>2. f[d] = code[d].used /\ g[d] = code'[d].used
      BY <2>5
    <3> HIDE DEF f, g
    <3> QED  BY <1>2, <1>3, <3>1, <3>2
  <2>6. CASE c \in Of(b)
    <3>1. IsFiniteSet(Of(b)) /\ DOMAIN f = Of(b) /\ DOMAIN g = Of(b)
      BY RedeemedFinite DEF PromoInv
    <3>2. SumFunction(g) = SumFunction(f) + (g[c] - f[c]) /\ SumFunction(f) \in Int
      <4> HIDE DEF f, g
      <4> QED  BY <2>5, <2>6, <3>1, OneChanged
    <3>3. SumFunction(g) = SumFunction(f) + 1
      <4> HIDE DEF f, g
      <4>1. f[c] \in Int /\ g[c] = f[c] + 1
        BY <2>5, <2>6
      <4> QED  BY <3>2, <4>1
    <3>4. Cardinality(RedeemedOf(b)') = Cardinality(RedeemedOf(b)) + 1
      BY <2>2, <2>3, <2>6, FS_AddElement
    <3> QED  BY <2>2, <2>3, <2>4, <2>6, <3>3, <3>4
  <2>7. CASE c \notin Of(b)
    <3>1. g = f
      BY <2>5, <2>7
    <3> QED  BY <2>2, <2>3, <2>4, <2>7, <3>1
  <2> QED  BY <2>6, <2>7
<1>9. CodesHold'
  BY <1>6, <1>7, <1>8 DEF CodesHold, SumsAgree
<1>10. ScreenIsBehind'
  BY <1>5, <1>8, ScreenStays
<1>11. InHandIsKnown'
  BY <1>1, <1>4 DEF PromoInv, InHandIsKnown
<1>12. ASSUME AllCount, NEW q \in Players
       PROVE  /\ Cardinality(CodesOf(q)') = oks'[q] + Cardinality(Counting(q)')
              /\ oks'[q] + Cardinality(InHand(q)') < OkLimit + Cardinality(Redeemers)
  <2>1. InHand(q)' = InHand(q)
    BY <1>1 DEF InHand
  <2>2. /\ Cardinality(CodesOf(q)) = oks[q] + Cardinality(Counting(q))
        /\ oks[q] + Cardinality(InHand(q)) < OkLimit + Cardinality(Redeemers)
    BY <1>12 DEF PromoInv, DayCounts, DayHasRoom
  <2>3. oks[q] \in Nat /\ IsFiniteSet(CodesOf(q)) /\ IsFiniteSet(Counting(q)) /\ Cardinality(Counting(q)) \in Nat
    BY RedeemedFinite DEF PromoInv, PromoTypeOK
  <2>4. CASE q = p
    <3>1. CodesOf(q)' = CodesOf(q) \cup {c} /\ c \notin CodesOf(q)
      BY <1>0, <2>4 DEF CodesOf
    <3>2. Counting(q)' = Counting(q) \cup {r} /\ r \notin Counting(q)
      BY <1>1, <2>4 DEF Counting
    <3>3. Cardinality(CodesOf(q)') = Cardinality(CodesOf(q)) + 1 /\ Cardinality(Counting(q)') = Cardinality(Counting(q)) + 1
      BY <2>3, <3>1, <3>2, FS_AddElement
    <3> QED  BY <2>1, <2>2, <2>3, <3>3
  <2>5. CASE q # p
    <3>1. CodesOf(q)' = CodesOf(q) /\ Counting(q)' = Counting(q)
      BY <1>1, <2>5 DEF CodesOf, Counting
    <3> QED  BY <2>1, <2>2, <3>1
  <2> QED  BY <2>4, <2>5
<1>13. HandlersHold'
  BY <1>11, <1>12 DEF HandlersHold, DayCounts, DayHasRoom, AllCount
<1> QED  BY <1>5, <1>9, <1>10, <1>13, PartsMake

LEMMA TakeKeeps == ASSUME PromoInv, NEW r \in Redeemers, Take(r) PROVE PromoInv'
<1> DEFINE c == redeeming[r].code
           p == redeeming[r].player
<1>0. redeeming[r] # NoCode /\ redeeming[r].at = "take" /\ UNCHANGED <<course, paid, oks, form, screen>>
  BY DEF Take, Office
<1>1. c \in Made /\ p \in Players
  BY <1>0, StepIs
<1>2. \/ Failed(p) /\ Ended(r) /\ UNCHANGED <<code, redeemed>>
      \/ Ended(r) /\ UNCHANGED <<code, redeemed, fails>>
      \/ /\ UseLeft(c) /\ <<c, p>> \notin redeemed
         /\ code' = [code EXCEPT ![c].used = @ + 1] /\ redeemed' = redeemed \cup {<<c, p>>}
         /\ Goes(r, p, c, "count") /\ UNCHANGED fails
  BY DEF Take
<1>3. paid \subseteq redeemed /\ fails \in [Players -> Nat]
  BY DEF PromoInv, UsesAreTaken, PromoTypeOK
<1>4. CASE Ended(r) /\ UNCHANGED <<code, redeemed>> /\ (Failed(p) \/ UNCHANGED fails)
  <2>1. fails' \in [Players -> Nat]
    BY <1>3, <1>4, FailsAreNumbers
  <2> QED  BY <1>0, <1>3, <1>4, <2>1, EndKeeps
<1>5. CASE /\ UseLeft(c) /\ <<c, p>> \notin redeemed
           /\ code' = [code EXCEPT ![c].used = @ + 1] /\ redeemed' = redeemed \cup {<<c, p>>}
           /\ Goes(r, p, c, "count") /\ UNCHANGED fails
  <2> HIDE DEF c, p
  <2>1. c = redeeming[r].code /\ p = redeeming[r].player
    BY DEF c, p
  <2> QED  BY <1>0, <1>1, <1>5, <2>1, UseKeeps
<1> QED  BY <1>2, <1>4, <1>5

\* One more of the day, and one fewer yet to count.
LEMMA CountUseKeeps == ASSUME PromoInv, NEW r \in Redeemers, CountUse(r) PROVE PromoInv'
<1> DEFINE c == redeeming[r].code
           p == redeeming[r].player
<1>0. /\ redeeming[r] # NoCode /\ redeeming[r].at = "count" /\ oks' = [oks EXCEPT ![p] = Bumped(@)]
      /\ Goes(r, p, c, "credit") /\ UNCHANGED <<course, code, redeemed, paid, fails, form, screen>>
  BY DEF CountUse, Office
<1>1. c \in Made /\ c \in Codes /\ p \in Players /\ <<c, p>> \in redeemed
  BY <1>0, StepIs
<1> HIDE DEF c, p
<1>2. /\ redeeming' \in [Redeemers -> Steps \cup {NoCode}] /\ redeeming'[r] # NoCode
      /\ redeeming'[r].player = p /\ redeeming'[r].code = c /\ redeeming'[r].at = "credit"
      /\ \A s \in Redeemers : s # r => redeeming'[s] = redeeming[s]
  BY <1>0, <1>1, GoesOn
<1>3. oks' \in [Players -> Nat] /\ \A q \in Players : q # p => oks'[q] = oks[q]
  <2>1. oks \in [Players -> Nat]
    BY DEF PromoInv, PromoTypeOK
  <2>2. Bumped(oks[p]) \in Nat
    BY <1>1, <2>1 DEF Bumped
  <2> QED  BY <1>0, <1>1, <2>1, <2>2
<1>4. PromoTypeOK'
  BY <1>0, <1>2, <1>3 DEF PromoInv, PromoTypeOK
<1>5. CodesHold' /\ \A b \in Batches : RedeemedOf(b)' = RedeemedOf(b)
  BY <1>0, <1>4, CodesStay DEF PromoInv, UsesAreTaken
<1>6. ScreenIsBehind'
  BY <1>0, <1>4, <1>5, ScreenStays
<1>7. InHandIsKnown'
  BY <1>0, <1>1, <1>2 DEF PromoInv, InHandIsKnown, Made
<1>8. ASSUME AllCount, NEW q \in Players
      PROVE  /\ Cardinality(CodesOf(q)') = oks'[q] + Cardinality(Counting(q)')
             /\ oks'[q] + Cardinality(InHand(q)') < OkLimit + Cardinality(Redeemers)
  <2>1. CodesOf(q)' = CodesOf(q)
    BY <1>0 DEF CodesOf
  <2>2. /\ Cardinality(CodesOf(q)) = oks[q] + Cardinality(Counting(q))
        /\ oks[q] + Cardinality(InHand(q)) < OkLimit + Cardinality(Redeemers)
    BY <1>8 DEF PromoInv, DayCounts, DayHasRoom
  <2>3. /\ oks[q] \in Nat /\ IsFiniteSet(InHand(q)) /\ IsFiniteSet(Counting(q))
        /\ Cardinality(Counting(q)) \in Nat /\ Cardinality(InHand(q)) \in Nat
    BY RedeemedFinite DEF PromoInv, PromoTypeOK
  <2>4. CASE q = p
    <3>1. oks'[q] = oks[q] + 1
      BY <1>0, <1>8, <2>4 DEF Bumped, AllCount, PromoInv, PromoTypeOK
    <3>2. /\ Counting(q)' = Counting(q) \ {r} /\ r \in Counting(q)
          /\ InHand(q)' = InHand(q) \ {r} /\ r \in InHand(q)
      <4>1. redeeming[r] # NoCode /\ redeeming[r].at = "count" /\ redeeming[r].player = p
        BY <1>0 DEF p
      <4>2. Counting(q)' = Counting(q) \ {r} /\ r \in Counting(q)
        BY <1>2, <2>4, <4>1 DEF Counting
      <4>3. InHand(q)' = InHand(q) \ {r} /\ r \in InHand(q)
        BY <1>2, <2>4, <4>1 DEF InHand
      <4> QED  BY <4>2, <4>3
    <3>3. Cardinality(Counting(q)') = Cardinality(Counting(q)) - 1 /\ Cardinality(InHand(q)') = Cardinality(InHand(q)) - 1
      <4>1. ASSUME NEW S, IsFiniteSet(S), r \in S PROVE Cardinality(S \ {r}) = Cardinality(S) - 1
        BY <4>1, FS_RemoveElement
      <4>2. Cardinality(Counting(q)') = Cardinality(Counting(q)) - 1
        BY <2>3, <3>2, <4>1
      <4>3. Cardinality(InHand(q)') = Cardinality(InHand(q)) - 1
        BY <2>3, <3>2, <4>1
      <4> QED  BY <4>2, <4>3
    <3> QED  BY <2>1, <2>2, <2>3, <3>1, <3>3
  <2>5. CASE q # p
    <3>1. Counting(q)' = Counting(q) /\ InHand(q)' = InHand(q)
      <4>1. redeeming[r].player = p
        BY DEF p
      <4> QED  BY <1>2, <2>5, <4>1 DEF Counting, InHand
    <3> QED  BY <1>3, <2>1, <2>2, <2>5, <3>1
  <2> QED  BY <2>4, <2>5
<1>9. HandlersHold'
  BY <1>0, <1>7, <1>8 DEF HandlersHold, DayCounts, DayHasRoom, AllCount
<1> QED  BY <1>4, <1>5, <1>6, <1>9, PartsMake

LEMMA CreditKeeps == ASSUME PromoInv, NEW r \in Redeemers, CreditCode(r) PROVE PromoInv'
<1>1. /\ redeeming[r] # NoCode /\ redeeming[r].at = "credit" /\ Ended(r)
      /\ paid' = paid \cup {<<redeeming[r].code, redeeming[r].player>>}
      /\ UNCHANGED <<course, code, redeemed, fails, oks, form, screen>>
  BY DEF CreditCode, Office
<1>2. <<redeeming[r].code, redeeming[r].player>> \in redeemed
  BY <1>1, StepIs
<1>3. paid' \subseteq redeemed /\ fails' \in [Players -> Nat]
  BY <1>1, <1>2 DEF PromoInv, UsesAreTaken, PromoTypeOK
<1> QED  BY <1>1, <1>3, EndKeeps

LEMMA DeathKeeps == ASSUME PromoInv, NEW r \in Redeemers, RedeemDies(r) PROVE PromoInv'
<1>1. /\ redeeming[r] # NoCode /\ ~AllCount /\ Ended(r)
      /\ UNCHANGED <<course, code, redeemed, paid, fails, oks, form, screen>>
  BY DEF RedeemDies, Office, AllCount
<1>2. paid' \subseteq redeemed /\ fails' \in [Players -> Nat]
  BY <1>1 DEF PromoInv, UsesAreTaken, PromoTypeOK
<1> QED  BY <1>1, <1>2, EndKeeps

-----------------------------------------------------------------------------
LEMMA PromoInitHolds == PromoInit => PromoInv
<1> SUFFICES ASSUME PromoInit PROVE PromoInv
  OBVIOUS
<1>1. PromoTypeOK
  BY DEF PromoInit, PromoTypeOK
<1>2. Made = {} /\ redeemed = {} /\ paid = {} /\ screen = NoCode
  BY DEF PromoInit, Made
<1>3. OnlyMade /\ UsesAreTaken /\ ScreenIsBehind
  BY <1>2 DEF OnlyMade, UsesAreTaken, ScreenIsBehind
<1>4. SumsAgree
  <2> SUFFICES ASSUME NEW b \in Batches PROVE UsedOf(b) = Cardinality(RedeemedOf(b))
    BY DEF SumsAgree
  <2>1. Of(b) = {} /\ RedeemedOf(b) = {}
    BY <1>2 DEF Of, RedeemedOf
  <2>2. UsedOf(b) = 0
    <3>1. UsedOf(b) = Sum([c \in Of(b) |-> code[c].used], Of(b))
      BY <1>1, UsedIs
    <3> DEFINE f == [c \in Of(b) |-> code[c].used]
    <3> HIDE DEF f
    <3>2. Sum(f, {}) = 0
      BY SumEmpty
    <3> QED  BY <2>1, <3>1, <3>2 DEF f
  <2> QED  BY <2>1, <2>2, FS_EmptySet
<1>5. InHandIsKnown
  BY DEF PromoInit, InHandIsKnown
<1>6. ASSUME NEW p \in Players
      PROVE  /\ Cardinality(CodesOf(p)) = oks[p] + Cardinality(Counting(p))
             /\ oks[p] + Cardinality(InHand(p)) < OkLimit + Cardinality(Redeemers)
  <2>1. CodesOf(p) = {} /\ Counting(p) = {} /\ InHand(p) = {} /\ oks[p] = 0
    BY DEF PromoInit, CodesOf, Counting, InHand
  <2>2. Cardinality(Redeemers) \in Nat /\ OkLimit \in Nat /\ OkLimit > 0
    BY AllFinite, FS_CardinalityType
  <2> QED  BY <2>1, <2>2, FS_EmptySet
<1> QED  BY <1>1, <1>3, <1>4, <1>5, <1>6 DEF PromoInv, DayCounts, DayHasRoom

LEMMA PromoNextKeeps == PromoInv /\ [PromoNext]_promoVars => PromoInv'
<1> SUFFICES ASSUME PromoInv, [PromoNext]_promoVars PROVE PromoInv'
  OBVIOUS
<1>1. CASE PromoNext
  BY <1>1, SubmitKeeps, InsertKeeps, AnswerKeeps, ToggleKeeps, ScreenKeeps, LookUpKeeps, TakeKeeps, CountUseKeeps,
     CreditKeeps, DeathKeeps DEF PromoNext
<1>2. CASE UNCHANGED promoVars
  <2>1. UNCHANGED <<course, code, redeemed, paid, redeeming, oks, screen, fails, form>>
    BY <1>2 DEF promoVars
  <2>2. PromoTypeOK'
    BY <2>1 DEF PromoInv, PromoTypeOK
  <2> QED  BY <2>1, <2>2, AllStay
<1> QED  BY <1>1, <1>2

LEMMA PromoKept == PromoInv => PromoHolds
<1> SUFFICES ASSUME PromoInv PROVE PromoHolds
  OBVIOUS
<1>1. UsesAreTaken
  BY DEF PromoInv
<1>2. DayLimit
  <2> SUFFICES ASSUME AllCount, NEW p \in Players
               PROVE  /\ Cardinality(CodesOf(p)) = oks[p] + Cardinality(Counting(p))
                      /\ Cardinality(CodesOf(p)) < OkLimit + Cardinality(Redeemers)
    BY DEF DayLimit, AllCount
  <2>1. /\ Cardinality(CodesOf(p)) = oks[p] + Cardinality(Counting(p))
        /\ oks[p] + Cardinality(InHand(p)) < OkLimit + Cardinality(Redeemers)
    BY DEF PromoInv, DayCounts, DayHasRoom
  <2>2. Cardinality(Counting(p)) <= Cardinality(InHand(p))
    <3>1. Counting(p) \subseteq InHand(p) /\ IsFiniteSet(InHand(p))
      BY RedeemedFinite DEF Counting, InHand, PromoInv
    <3> QED  BY <3>1, FS_Subset
  <2>3. /\ Cardinality(Counting(p)) \in Nat /\ Cardinality(InHand(p)) \in Nat /\ oks[p] \in Nat
        /\ OkLimit \in Nat /\ Cardinality(Redeemers) \in Nat
    BY RedeemedFinite, AllFinite DEF PromoInv, PromoTypeOK
  <2> QED  BY <2>1, <2>2, <2>3
<1>3. ScreenNeverLags
  <2> SUFFICES ASSUME screen # NoCode, screen.redemptions # NoCode, NEW b \in Batches, Warns(b)
               PROVE  screen.used[b] < screen.redemptions[b]
    BY DEF ScreenNeverLags
  <2>1. screen.used[b] <= screen.redemptions[b] /\ screen.used[b] # screen.redemptions[b]
    BY DEF PromoInv, ScreenIsBehind, Warns
  <2>2. screen \in Screens
    BY DEF PromoInv, PromoTypeOK
  <2>3. screen.used[b] \in Nat /\ screen.redemptions[b] \in Nat
    BY <2>2 DEF Screens
  <2> QED  BY <2>1, <2>3
<1> QED  BY <1>1, <1>2, <1>3 DEF PromoHolds

(* Of any codes, batches, players and handlers: the uses of a code are its *)
(* holders, within what the batch and its switch allow; a day's limit is   *)
(* passed by at most the handlers at a time; the screen warns only of what *)
(* was redeemed while it was being filled (promo.service.ts:90-178,        *)
(* admin-promo.service.ts:137-187).                                        *)
THEOREM CodesGoToPlayers == PromoSpec => []PromoHolds
<1> QED  BY PromoInitHolds, PromoNextKeeps, PromoKept, PTL DEF PromoSpec
=============================================================================
