------------------------------ MODULE PetCare ------------------------------
(***************************************************************************)
(* One pet and what is done to it (pet.service.ts, pet-math.ts,            *)
(* training.service.ts, boost.service.ts). The row keeps the stats of      *)
(* last_seen_at; every handler settles them up to now, changes them and    *)
(* saves the row, under the player's lock for as long as that lasts. An    *)
(* interaction takes from the day's caps in Redis before it saves, sets    *)
(* its cooldown after, and is paid last.                                   *)
(***************************************************************************)
EXTENDS Integers, FiniteSets, FiniteSetsExt

CONSTANTS
  Handlers, Biz,
  StatMax, StaminaMax,
  Rates,     \* per hour: hunger, cleanliness, moodBase, moodStarving, stamina
  Effects,   \* action -> what it adds to each stat, and the exp and coin it gives
  TrickCost, TrickExp, TrickCoin, \* a performance: stamina, intimacy, coins
  Cap,       \* pet.daily_cap of "exp" and "coin"
  MaxHour, DayHours, MaxSaves,    \* bounds: the clock, hours of a day, writes of the row
  Regimes    \* which of "dies", "traits", "furnishes", "lapses" (the lock runs out
             \* under a handler) happen

\* What the parameters are; MC modules assume it of theirs.
PetCareAssumption ==
  /\ {StatMax, StaminaMax, TrickCost, TrickExp, TrickCoin, MaxHour, MaxSaves} \subseteq Nat
  /\ Rates \in [{"hunger", "clean", "mood", "starving", "stamina"} -> 0..1]
  /\ DayHours \in Nat \ {0} /\ Cap \in [{"exp", "coin"} -> Nat]

VARIABLES
  regime,
  hour,
  comfort,   \* 1 when the furniture takes off the whole mood decay, else 0
  pet,       \* the row
  felt,      \* the stats of a pet that is fed and decays hour by hour
  cooling,   \* cd:{pet}:{action} of what is cooling down
  used,      \* cap:{user}:{day}:{resource}
  gained,    \* exp saved and coins paid by interactions, of each day
  posted,    \* vouchers {bizId}:coin and {bizId}:perform
  run,       \* per handler: its step, and what it has read
  saves

vars == <<regime, hour, comfort, pet, felt, cooling, used, gained, posted, run, saves>>

Actions   == DOMAIN Effects
Resources == {"exp", "coin"}
Day(h)    == h \div DayHours
Days      == 0..Day(MaxHour)
Stats     == [hunger : 0..StatMax, clean : 0..StatMax, mood : 0..StatMax, stamina : 0..StaminaMax]
Pet       == [stats : Stats, exp : Nat, seen : 0..MaxHour]
Ready     == [at |-> "ready"]

TypeOK ==
  /\ regime \in Regimes /\ hour \in 0..MaxHour /\ comfort \in {0, 1}
  /\ pet \in Pet /\ felt \in Stats
  /\ cooling \subseteq Actions \cup {"trick"}
  /\ used \in [Days -> [Resources -> Nat]] /\ gained \in [Days -> [Resources -> Nat]]

\* As it is born: 80 of 100, and its stamina full.
Born == [hunger |-> StatMax - 1, clean |-> StatMax - 1, mood |-> StatMax - 1, stamina |-> StaminaMax]

Init ==
  /\ regime \in Regimes /\ hour = 0 /\ comfort = 0
  /\ pet = [stats |-> Born, exp |-> 0, seen |-> 0] /\ felt = Born
  /\ cooling = {} /\ posted = {}
  /\ used = [d \in Days |-> [x \in Resources |-> 0]] /\ gained = used
  /\ run = [h \in Handlers |-> Ready] /\ saves = 0

-----------------------------------------------------------------------------
(* pet-math.ts *)

clamp(v, max) == Max({0, Min({max, v})})
clampStat(v)  == clamp(v, StatMax)

\* A trait of this pet doubles its hunger; some writers settle without it.
decayedRates(traits) ==
  IF traits /\ "traits" \in regime THEN [Rates EXCEPT !.hunger = 2 * @] ELSE Rates

\* Hours until a stat is at its end, the clock's end standing for never.
ZeroAfter(v, rate) == IF rate = 0 THEN MaxHour ELSE v \div rate

\* Faulty: the mood suffers from when both hunger and dirt are at their end.
StarvingBoth(s, h, rates) ==
  Max({0, h - Max({ZeroAfter(s.hunger, rates.hunger), ZeroAfter(s.clean, rates.clean)})})

StarvingHours(s, h, rates) ==
  Max({0, h - Min({ZeroAfter(s.hunger, rates.hunger), ZeroAfter(s.clean, rates.clean)})})

settle(row, traits) ==
  LET rates == decayedRates(traits)
      h     == hour - row.seen
      s     == row.stats
  IN [hunger  |-> clampStat(s.hunger - rates.hunger * h),
      clean   |-> clampStat(s.clean - rates.clean * h),
      mood    |-> clampStat(s.mood - (rates.mood * h + rates.starving * StarvingHours(s, h, rates))
                                     * (1 - comfort)),
      stamina |-> clamp(s.stamina + rates.stamina * h, StaminaMax)]

Fed(s, e) ==
  [hunger |-> clampStat(s.hunger + e.hunger), clean |-> clampStat(s.clean + e.clean),
   mood |-> clampStat(s.mood + e.mood), stamina |-> clamp(s.stamina + e.stamina, StaminaMax)]

\* What an hour does to a pet that is looked at every hour.
AnHour(s) ==
  LET rates   == decayedRates(TRUE)
      starves == (rates.hunger > 0 /\ s.hunger = 0) \/ (rates.clean > 0 /\ s.clean = 0)
  IN [hunger  |-> clampStat(s.hunger - rates.hunger),
      clean   |-> clampStat(s.clean - rates.clean),
      mood    |-> clampStat(s.mood - (rates.mood + IF starves THEN rates.starving ELSE 0) * (1 - comfort)),
      stamina |-> clamp(s.stamina + rates.stamina, StaminaMax)]

-----------------------------------------------------------------------------
At(h, at)   == run[h].at = at
Goto(h, at) == run' = [run EXCEPT ![h].at = at]
Quit(h)     == run' = [run EXCEPT ![h] = Ready]
Exhausts(s, cost) == s.stamina < cost

\* The lock is had when no other has it, or when what the other had has run out.
Enter(h, r) ==
  /\ At(h, "ready") /\ ("lapses" \in regime \/ \A g \in Handlers : At(g, "ready"))
  /\ run' = [run EXCEPT ![h] = r]

\* Faulty: last_seen_at stays what it was.
NotSeen(row, stats, exp) == [row EXCEPT !.stats = stats, !.exp = exp]

\* The row with its stats as of now.
Seen(row, stats, exp) == [row EXCEPT !.stats = stats, !.exp = exp, !.seen = hour]

\* save: the row as the handler knows it; a real pet feels the same effect.
Save(stats, exp, effect) ==
  /\ saves < MaxSaves /\ saves' = saves + 1
  /\ pet' = Seen(pet, stats, exp) /\ felt' = Fed(felt, effect)

NoEffect == [hunger |-> 0, clean |-> 0, mood |-> 0, stamina |-> 0]

\* act: the cooldown and the stamina are looked at before anything is taken.
Act(h, a, b) ==
  /\ a \notin cooling
  /\ ~Exhausts(settle(pet, TRUE), -Effects[a].stamina)
  /\ Enter(h, [at |-> "readexp", does |-> a, biz |-> b, day |-> Day(hour),
               stats |-> Fed(settle(pet, TRUE), Effects[a]), exp |-> pet.exp,
               grant |-> [x \in Resources |-> 0]])
  /\ UNCHANGED <<regime, hour, comfort, pet, felt, cooling, used, gained, posted, saves>>

Allowed(want, d, x) == Min({want, Max({0, Cap[x] - used[d][x]})})

\* consumeDailyCap reads the counter, and in a second call adds to it.
ReadCap(h, x, add, next) ==
  LET grant == Allowed(Effects[run[h].does][x], run[h].day, x)
  IN /\ run' = [run EXCEPT ![h].grant[x] = grant, ![h].at = IF grant > 0 THEN add ELSE next]
     /\ UNCHANGED <<regime, hour, comfort, pet, felt, cooling, used, gained, posted, saves>>

consumeDailyCap(h, x, next) ==
  /\ used' = [used EXCEPT ![run[h].day][x] = @ + run[h].grant[x]]
  /\ Goto(h, next)
  /\ UNCHANGED <<regime, hour, comfort, pet, felt, cooling, gained, posted, saves>>

CapExp(h) ==
  \/ At(h, "readexp") /\ ReadCap(h, "exp", "addexp", "readcoin")
  \/ At(h, "addexp")  /\ consumeDailyCap(h, "exp", "readcoin")

CapCoin(h) ==
  \/ At(h, "readcoin") /\ ReadCap(h, "coin", "addcoin", "save")
  \/ At(h, "addcoin")  /\ consumeDailyCap(h, "coin", "save")

SavePet(h) ==
  /\ At(h, "save") /\ Goto(h, "cool")
  /\ LET n == run[h].grant["exp"]
     IN /\ Save(run[h].stats, run[h].exp + n, Effects[run[h].does])
        /\ gained' = [gained EXCEPT ![run[h].day]["exp"] = @ + n]
  /\ UNCHANGED <<regime, hour, comfort, cooling, used, posted>>

Cool(h) ==
  /\ At(h, "cool") /\ Goto(h, "coin")
  /\ cooling' = cooling \cup {run[h].does}
  /\ UNCHANGED <<regime, hour, comfort, pet, felt, used, gained, posted, saves>>

PayCoins(h) ==
  /\ At(h, "coin") /\ Quit(h)
  /\ LET n == run[h].grant["coin"]  v == <<"act", run[h].biz>>
     IN IF n = 0 \/ v \in posted THEN UNCHANGED <<posted, gained>>
        ELSE /\ posted' = posted \cup {v}
             /\ gained' = [gained EXCEPT ![run[h].day]["coin"] = @ + n]
  /\ UNCHANGED <<regime, hour, comfort, pet, felt, cooling, used, saves>>

-----------------------------------------------------------------------------
(* training.service.ts: practice and perform; outside the caps. *)

Perform(h, b) ==
  /\ "trick" \notin cooling
  /\ ~Exhausts(settle(pet, FALSE), TrickCost)
  /\ Enter(h, [at |-> "spend", does |-> "trick", biz |-> b, exp |-> pet.exp,
               stats |-> Fed(settle(pet, FALSE), [NoEffect EXCEPT !.stamina = -TrickCost])])
  /\ UNCHANGED <<regime, hour, comfort, pet, felt, cooling, used, gained, posted, saves>>

Spend(h) ==
  /\ At(h, "spend") /\ Goto(h, "perform")
  /\ Save(run[h].stats, run[h].exp + TrickExp, [NoEffect EXCEPT !.stamina = -TrickCost])
  /\ UNCHANGED <<regime, hour, comfort, cooling, used, gained, posted>>

PayTrick(h) ==
  /\ At(h, "perform") /\ Goto(h, "cooltrick")
  /\ posted' = posted \cup {<<"perform", run[h].biz>>}
  /\ UNCHANGED <<regime, hour, comfort, pet, felt, cooling, used, gained, saves>>

CoolTrick(h) ==
  /\ At(h, "cooltrick") /\ Quit(h)
  /\ cooling' = cooling \cup {"trick"}
  /\ UNCHANGED <<regime, hour, comfort, pet, felt, used, gained, posted, saves>>

-----------------------------------------------------------------------------
(* Handlers that settle, change and save. *)

\* raceSpendStamina, recoverStamina, applyConsumable, adminAdjust
Adjust(h, effect) ==
  /\ ~Exhausts(settle(pet, FALSE), -effect.stamina)
  /\ Enter(h, [at |-> "adjust", does |-> effect, exp |-> pet.exp, stats |-> Fed(settle(pet, FALSE), effect)])
  /\ UNCHANGED <<regime, hour, comfort, pet, felt, cooling, used, gained, posted, saves>>

Adjusted(h) ==
  /\ At(h, "adjust") /\ Quit(h)
  /\ Save(run[h].stats, run[h].exp, run[h].does)
  /\ UNCHANGED <<regime, hour, comfort, cooling, used, gained, posted>>

\* clearCooldowns, which takes no lock.
ClearCooldowns ==
  /\ cooling # {} /\ cooling' = cooling \cap {"trick"}
  /\ UNCHANGED <<regime, hour, comfort, pet, felt, used, gained, posted, run, saves>>

Cooled(a) ==
  /\ a \in cooling /\ cooling' = cooling \ {a}
  /\ UNCHANGED <<regime, hour, comfort, pet, felt, used, gained, posted, run, saves>>

\* Bound: no request takes an hour between its look at the clock and its save.
Saved == {"ready", "cool", "coin", "perform", "cooltrick"}

Tick ==
  /\ hour < MaxHour /\ \A h \in Handlers : run[h].at \in Saved
  /\ hour' = hour + 1 /\ felt' = AnHour(felt)
  /\ UNCHANGED <<regime, comfort, pet, cooling, used, gained, posted, run, saves>>

\* Furniture is placed or put away.
Furnish ==
  /\ "furnishes" \in regime /\ comfort' = 1 - comfort
  /\ UNCHANGED <<regime, hour, pet, felt, cooling, used, gained, posted, run, saves>>

Die(h) ==
  /\ "dies" \in regime /\ ~At(h, "ready") /\ Quit(h)
  /\ UNCHANGED <<regime, hour, comfort, pet, felt, cooling, used, gained, posted, saves>>

Step(h) ==
  \/ CapExp(h) \/ CapCoin(h) \/ SavePet(h) \/ Cool(h) \/ PayCoins(h)
  \/ Spend(h) \/ PayTrick(h) \/ CoolTrick(h) \/ Adjusted(h)

Next ==
  \/ \E h \in Handlers :
       \/ \E b \in Biz : Perform(h, b) \/ \E a \in Actions : Act(h, a, b)
       \/ \E x \in {-1, 1} : Adjust(h, [NoEffect EXCEPT !.stamina = x])
       \/ Step(h) \/ Die(h)
  \/ ClearCooldowns \/ Tick \/ Furnish
  \/ \E a \in Actions \cup {"trick"} : Cooled(a)

Spec == Init /\ [][Next]_vars

-----------------------------------------------------------------------------
\* While locks hold nobody notices that the stats are settled lazily: at every moment
\* the row, settled, is what a pet is that decays hour by hour and was treated the same.
\* Not so where two handlers save what both have read, nor for a pet with a trait, which
\* some writers settle without, nor when the furniture has changed since the last save,
\* whose comfort then counts for the time before too.
LazyIsEager ==
  regime \subseteq {"dies"} => settle(pet, TRUE) = felt

\* No day's interactions give more than they have taken from its caps, whatever dies
\* between taking, saving the row and paying, however often it is sent again, and also
\* where locks run out. While locks hold nothing more than the caps is taken; two
\* interactions at once both read the counter before either has added to it.
CapHolds ==
  \A d \in Days, x \in Resources :
    gained[d][x] <= used[d][x] /\ ("lapses" \in regime \/ used[d][x] <= Cap[x])

\* Care for a pet: while locks hold, neither looking more often nor dying halfway changes
\* what it is worth.
CareHolds == LazyIsEager /\ CapHolds

=============================================================================
