-------------------------------- MODULE Race --------------------------------
(***************************************************************************)
(* One race from its entry to its reward (race.service.ts): start spends   *)
(* stamina and the fee and saves the result as pending; settle pays it;    *)
(* an advertisement's token re-rolls a pending result (revive) or pays a   *)
(* settled one a second time (double). None of them holds a lock over what *)
(* it does: each reads the row, does its calls and ends in an UPDATE that  *)
(* names the state it expects.                                             *)
(***************************************************************************)
EXTENDS Integers, FiniteSets

CONSTANTS
  Runs,        \* handlers at work at one time
  Rewards,     \* what a rank can be worth
  Entry, Cost, \* the track's fee, 0 on the free one, and stamina
  Money, Full, \* coins at most, and stamina, at the start
  MaxPerRace,  \* revives of one race
  AdCap        \* tokens a player may be issued per scene and day

ASSUME RaceAssumption ==
  /\ Rewards \subseteq Nat /\ {Entry, Cost} \subseteq Nat
  /\ {Money, Full, MaxPerRace, AdCap} \subseteq Nat

VARIABLES
  race,      \* the race_record row
  run,       \* what each handler is about to do, and the row it has read
  coins, stamina,
  posted,    \* vouchers: <<key, amount>>
  issued, tokens,  \* ad tokens of each scene: issued today, not yet consumed
  tasks,     \* the "finish a race" counter of the daily task
  missed,    \* ghost: the one count of this race failed or was cut off
  rolls      \* re-rolls written to the row

vars == <<race, run, coins, stamina, posted, issued, tokens, tasks, missed, rolls>>

NoRace == [status |-> "none"]
Race   == [status : {"pending", "settled"}, reward : Rewards, revives : 0..MaxPerRace,
           doubled : BOOLEAN]
Scenes == {"revive", "double"}
Ready  == [at |-> "ready"]
Phases == {"look", "spend", "enter", "save", "pay", "mark", "count", "token", "reroll",
           "token2", "pay2", "mark2"}

TypeOK ==
  /\ race \in Race \cup {NoRace}
  /\ run \in [Runs -> [at : Phases, row : Race \cup {NoRace}] \cup {Ready}]
  /\ coins \in Nat /\ stamina \in 0..Full
  /\ posted \subseteq {"entry", "race", "double"} \X ((Rewards \cup {Entry}) \ {0})
  /\ issued \in [Scenes -> 0..AdCap] /\ tokens \in [Scenes -> 0..AdCap]
  /\ tasks \in Nat /\ missed \in BOOLEAN /\ rolls \in Nat

Init ==
  /\ race = NoRace /\ run = [r \in Runs |-> Ready]
  /\ coins \in 0..Money /\ stamina = Full /\ posted = {}
  /\ issued = [s \in Scenes |-> 0] /\ tokens = [s \in Scenes |-> 0]
  /\ tasks = 0 /\ missed = FALSE /\ rolls = 0

-----------------------------------------------------------------------------
Go(r, at) == run' = [run EXCEPT ![r] = [at |-> at, row |-> race]]
On(r, at) == run' = [run EXCEPT ![r].at = at]
End(r)    == run' = [run EXCEPT ![r] = Ready]
At(r, at) == run[r].at = at
Free(r)   == At(r, "ready")
Posted(k) == \E v \in posted : v[1] = k

\* A voucher of `amount` under key k; one that is there already is replayed.
Credit(k, amount) ==
  IF amount = 0 \/ Posted(k) THEN UNCHANGED <<coins, posted>>
  ELSE posted' = posted \cup {<<k, amount>>} /\ coins' = coins + amount

Affords == coins >= Entry

Start(r) ==
  /\ Free(r) /\ Go(r, "look")
  /\ UNCHANGED <<race, coins, stamina, posted, issued, tokens, tasks, missed, rolls>>

Look(r) ==
  /\ At(r, "look")
  /\ IF race = NoRace /\ Affords THEN On(r, "spend") ELSE End(r)
  /\ UNCHANGED <<race, coins, stamina, posted, issued, tokens, tasks, missed, rolls>>

SpendStamina(r) ==
  /\ At(r, "spend")
  /\ IF stamina >= Cost THEN stamina' = stamina - Cost /\ On(r, "enter")
     ELSE UNCHANGED stamina /\ End(r)
  /\ UNCHANGED <<race, coins, posted, issued, tokens, tasks, missed, rolls>>

\* A free track posts nothing.
PayEntry(r) ==
  /\ At(r, "enter")
  /\ IF Entry = 0 \/ Posted("entry") THEN UNCHANGED <<coins, posted>> /\ On(r, "save")
     ELSE IF coins < Entry THEN UNCHANGED <<coins, posted>> /\ End(r)
     ELSE coins' = coins - Entry /\ posted' = posted \cup {<<"entry", Entry>>} /\ On(r, "save")
  /\ UNCHANGED <<race, stamina, issued, tokens, tasks, missed, rolls>>

\* uq_race_record_user_biz refuses the second row of a request.
SaveRace(r) ==
  /\ At(r, "save") /\ End(r)
  /\ \E w \in Rewards :
       race' = IF race # NoRace THEN race
               ELSE [status |-> "pending", reward |-> w, revives |-> 0, doubled |-> FALSE]
  /\ UNCHANGED <<coins, stamina, posted, issued, tokens, tasks, missed, rolls>>

-----------------------------------------------------------------------------
Settle(r) ==
  /\ Free(r) /\ race.status = "pending" /\ Go(r, "pay")
  /\ UNCHANGED <<race, coins, stamina, posted, issued, tokens, tasks, missed, rolls>>

\* The amount is that of the row as it was read.
PayRace(r) ==
  /\ At(r, "pay")
  /\ Credit("race", run[r].row.reward) /\ On(r, "mark")
  /\ UNCHANGED <<race, stamina, issued, tokens, tasks, missed, rolls>>

\* Faulty: the UPDATE hits the row whatever its status.
Anyway == TRUE

\* UPDATE ... WHERE status = 'pending'; only who has hit a row goes on to count.
Unsettled == race.status = "pending"

MarkSettled(r) ==
  /\ At(r, "mark")
  /\ IF Unsettled THEN race' = [race EXCEPT !.status = "settled"] /\ On(r, "count")
     ELSE UNCHANGED race /\ End(r)
  /\ UNCHANGED <<coins, stamina, posted, issued, tokens, tasks, missed, rolls>>

\* bumpRaceTask, in Redis: an error is logged and the count left as it is.
CountRace(r) ==
  /\ At(r, "count") /\ End(r)
  /\ \/ tasks' = tasks + 1 /\ UNCHANGED missed
     \/ missed' = TRUE /\ UNCHANGED tasks
  /\ UNCHANGED <<race, coins, stamina, posted, issued, tokens, rolls>>

-----------------------------------------------------------------------------

UnderCap(s) == issued[s] < AdCap

\* The Lua script of issue: the count is read and raised in one step.
Issue(s) ==
  /\ UnderCap(s)
  /\ issued' = [issued EXCEPT ![s] = @ + 1] /\ tokens' = [tokens EXCEPT ![s] = @ + 1]
  /\ UNCHANGED <<race, run, coins, stamina, posted, tasks, missed, rolls>>

Consume(r, at, s, next) ==
  /\ At(r, at)
  /\ IF tokens[s] > 0 THEN tokens' = [tokens EXCEPT ![s] = @ - 1] /\ On(r, next)
     ELSE UNCHANGED tokens /\ End(r)
  /\ UNCHANGED <<race, coins, stamina, posted, issued, tasks, missed, rolls>>

Pending == race.status = "pending"

Revive(r) ==
  /\ Free(r) /\ Pending /\ race.revives < MaxPerRace /\ Go(r, "token")
  /\ UNCHANGED <<race, coins, stamina, posted, issued, tokens, tasks, missed, rolls>>

ReviveToken(r) == Consume(r, "token", "revive", "reroll")

SameCount(r) == race.revives = run[r].row.revives

Reroll(r) ==
  /\ At(r, "reroll") /\ End(r)
  /\ IF Pending /\ SameCount(r)
     THEN \E w \in Rewards :
            /\ race' = [race EXCEPT !.reward = w, !.revives = run[r].row.revives + 1]
            /\ rolls' = rolls + 1
     ELSE UNCHANGED <<race, rolls>>
  /\ UNCHANGED <<coins, stamina, posted, issued, tokens, tasks, missed>>

NotDoubled == race.status = "settled" /\ race.reward > 0 /\ ~race.doubled

Double(r) ==
  /\ Free(r) /\ NotDoubled /\ Go(r, "token2")
  /\ UNCHANGED <<race, coins, stamina, posted, issued, tokens, tasks, missed, rolls>>

DoubleToken(r) == Consume(r, "token2", "double", "pay2")

PayDouble(r) ==
  /\ At(r, "pay2")
  /\ Credit("double", run[r].row.reward) /\ On(r, "mark2")
  /\ UNCHANGED <<race, stamina, issued, tokens, tasks, missed, rolls>>

MarkDoubled(r) ==
  /\ At(r, "mark2") /\ End(r)
  /\ race' = [race EXCEPT !.doubled = TRUE]
  /\ UNCHANGED <<coins, stamina, posted, issued, tokens, tasks, missed, rolls>>

\* The process dies, or a call of the handler fails.
Die(r) ==
  /\ ~At(r, "ready") /\ End(r)
  /\ missed' = (missed \/ At(r, "count"))
  /\ UNCHANGED <<race, coins, stamina, posted, issued, tokens, tasks, rolls>>

Enter(r) == Look(r) \/ SpendStamina(r) \/ PayEntry(r) \/ SaveRace(r)
Finish(r) == PayRace(r) \/ MarkSettled(r) \/ CountRace(r)
Watch(r) == ReviveToken(r) \/ Reroll(r) \/ DoubleToken(r) \/ PayDouble(r) \/ MarkDoubled(r)

Next ==
  \/ \E r \in Runs : Start(r) \/ Settle(r) \/ Revive(r) \/ Double(r)
  \/ \E r \in Runs : Enter(r) \/ Finish(r) \/ Watch(r) \/ Die(r)
  \/ \E s \in Scenes : Issue(s)

Spec == Init /\ [][Next]_vars

-----------------------------------------------------------------------------
(* Properties. None of them needs a lock, and all survive deaths. That the  *)
(* settled row records what was paid is not among them: a revive between   *)
(* settle's read and its UPDATE changes the row and not the voucher.       *)

\* The daily task counts a race once, when it is settled, however many requests settle
\* it at the same time: the one whose UPDATE hit the row counts it, is about to, or has
\* failed to, and then nobody does.
TaskCountsTheRace ==
  \/ /\ race.status # "settled" /\ tasks = 0 /\ ~missed
     /\ \A r \in Runs : ~At(r, "count")
  \/ /\ race.status = "settled" /\ tasks = 0 /\ ~missed
     /\ \E r \in Runs : At(r, "count") /\ \A q \in Runs \ {r} : ~At(q, "count")
  \/ /\ race.status = "settled" /\ tasks = IF missed THEN 0 ELSE 1
     /\ \A r \in Runs : ~At(r, "count")

\* The second reward is the settled row's, whatever was re-rolled meanwhile:
\* a row that has been paid twice no longer changes.
DoubleIsRecorded ==
  \A v \in posted : v[1] = "double" => race.status = "settled" /\ race.reward = v[2]

\* Re-rolls that raced each other count for as many as were written.
RollsCounted == race # NoRace => race.revives = rolls /\ rolls <= MaxPerRace

\* The row, the vouchers and the task tell one story of the race.
RaceOnRecord == TaskCountsTheRace /\ DoubleIsRecorded /\ RollsCounted
=============================================================================
