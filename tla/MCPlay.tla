------------------------------- MODULE MCPlay -------------------------------
(***************************************************************************)
(* What a player does with the pet, seven systems that share no state:     *)
(* a race (Race), draws from the pools (Gacha), the tasks of an event      *)
(* (Campaign), the live queue (Matchmaking), promo codes (Promo), and care *)
(* for one pet (PetCare, once more with locks that run out) and its        *)
(* illness (Condition), whose variables are x1, x2, .... `which` picks one *)
(* of them at the start, and the others stay as they begin.                *)
(***************************************************************************)
EXTENDS Race, Gacha, Campaign, Matchmaking, Promo, TLC

CONSTANTS r1, r2, b1, b2, u1, u2, c1, c2, c3, d1, d2, e1, e2

VARIABLES which, x1, x2, x3, x4, x5, x6, x7, x8, x9, x10, x11

care     == <<x1, x2, x3, x4, x5, x6, x7, x8, x9, x10, x11>>
playVars == <<which, vars, drawVars, eventVars, queueVars, promoVars, care>>

\* Two handlers at a time; a fee that can be paid once, stamina for two races, a token
\* to spare in each scene.
TwoRuns    == {r1, r2}
Worths     == {0, 1, 2}
Alike      == Permutations(TwoRuns) \cup Permutations({d1, d2}) \cup Permutations({e1, e2})

\* A pool of coins with a pity of two, and one of points without, which does not
\* compensate, so that the unique prize, rare in the first and the only one of the second,
\* may come twice; and one of points that gives what is not unique.
TwoBiz     == {b1, b2}
Entries(c, w, r) == [code |-> c, weight |-> w, rare |-> r]
ThreePools ==
  "std" :> [asset |-> "coin", cost |-> 1, costTen |-> 2, pity |-> 2, dupe |-> "snack",
            entries |-> <<Entries("toy", 2, FALSE), Entries("skin", 1, TRUE)>>] @@
  "mkt" :> [asset |-> "point", cost |-> 1, costTen |-> 2, pity |-> 0, dupe |-> "null",
            entries |-> <<Entries("skin", 1, FALSE)>>] @@
  "pts" :> [asset |-> "point", cost |-> 1, costTen |-> 2, pity |-> 0, dupe |-> "snack",
            entries |-> <<Entries("toy", 1, FALSE)>>]
OneTrouble == {{"dies"}, {"slow"}, {"spends"}, {"soldout"}, {"crosses"}}

\* One handler and one hour after the other, for a pet that is hungry in two, dirty in
\* two and glum when it starves.
Hourly == [hunger |-> 1, clean |-> 1, mood |-> 0, starving |-> 1, stamina |-> 1]
FeedAndPlay ==
  [feed |-> [hunger |-> 2, clean |-> 0, mood |-> 0, stamina |-> 0, exp |-> 2, coin |-> 0],
   play |-> [hunger |-> -1, clean |-> -1, mood |-> 1, stamina |-> -1, exp |-> 1, coin |-> 2]]
Three == [exp |-> 3, coin |-> 3]
OnlyPlay == [play |-> [hunger |-> -1, clean |-> -1, mood |-> 1, stamina |-> -1, exp |-> 2, coin |-> 2]]

P == INSTANCE PetCare WITH
  Handlers <- {"one"}, Biz <- {b1}, StatMax <- 3, StaminaMax <- 2, Rates <- Hourly, Effects <- FeedAndPlay,
  TrickCost <- 1, TrickExp <- 1, TrickCoin <- 1, Cap <- Three,
  MaxHour <- 2, DayHours <- 2, MaxSaves <- 2, Regimes <- {{"dies"}},
  regime <- x1, hour <- x2, comfort <- x3, pet <- x4, felt <- x5, cooling <- x6, used <- x7,
  gained <- x8, posted <- x9, run <- x10, saves <- x11

\* Two handlers at once, each of which has outlasted the other's lock, or one after the
\* other, also for a pet with a trait in a house that changes, on one day and on the
\* next; together they ask for more than the cap.
L == INSTANCE PetCare WITH
  Handlers <- TwoRuns, Biz <- {b1}, StatMax <- 3, StaminaMax <- 2, Rates <- Hourly, Effects <- OnlyPlay,
  TrickCost <- 1, TrickExp <- 1, TrickCoin <- 1, Cap <- Three,
  MaxHour <- 1, DayHours <- 1, MaxSaves <- 2, Regimes <- {{}, {"lapses"}, {"traits", "furnishes"}},
  regime <- x1, hour <- x2, comfort <- x3, pet <- x4, felt <- x5, cooling <- x6, used <- x7,
  gained <- x8, posted <- x9, run <- x10, saves <- x11

\* Two stats that fall by one an hour, one of which an interaction leaves alone.
H == INSTANCE Condition WITH
  Keys <- {"hungry", "glum"}, Rate <- [k \in {"hungry", "glum"} |-> 1],
  Threshold <- [k \in {"hungry", "glum"} |-> IF k = "glum" THEN 2 ELSE 1],
  Full <- 2, HealStat <- 1, HealHours <- 1, MaxHour <- 4, MaxRows <- 3, MaxCures <- 2,
  Gains <- {[k \in {"hungry", "glum"} |-> IF k = "glum" THEN 1 ELSE 2],
            [k \in {"hungry", "glum"} |-> 0]},
  Regimes <- {{"dies", "lapses"}, {"overlap"}},
  regime <- x1, now <- x2, pet <- x3, rows <- x4, scan <- x5, cures <- x6, scanned <- x7,
  empty <- x8, starved <- x9, bought <- x10

\* A player with two connections and one with one, on two tracks, one without a name.
TwoRacers  == {u1, u2}
TwoDevices == c1 :> u1 @@ c2 :> u1 @@ c3 :> u2
Devices    == {c1, c2, c3}
TwoTracks  == {"meadow", NoTrack}

\* An event made, changed once, and an act before, between and after.
TwoTargets  == {1, 2}
EventTrouble == {{}, {"remakes", "fails"}, {"retargets"}}

\* Two players and two codes of one batch, which is switched once.
TwoCodes   == {d1, d2}
Redeeming  == {e1, e2}
OneBatch   == {"b"}
OneOrTwo   == {1, 2}
OneCourse  == {{"expires"}, {"watches"}, {"dies", "nocount"}}

ASSUME PlayAssumption == P!PetCareAssumption /\ L!PetCareAssumption /\ H!ConditionAssumption

NoRacing == Init /\ coins = 0
NoDraws  == DrawInit /\ regime = {"dies"}
NoEvent  == EventInit /\ trouble = {}
NoQueue  == QueueInit /\ ~hops
NoPromo  == PromoInit /\ course = {"expires"}
Blank    == "blank"
NoCare   ==
  /\ x1 = Blank /\ x2 = Blank /\ x3 = Blank /\ x4 = Blank /\ x5 = Blank /\ x6 = Blank
  /\ x7 = Blank /\ x8 = Blank /\ x9 = Blank /\ x10 = Blank /\ x11 = Blank

PlayInit ==
  /\ which \in {"race", "gacha", "event", "queue", "promo", "pet", "outlasted", "illness"}
  /\ IF which = "race"  THEN Init      ELSE NoRacing
  /\ IF which = "gacha" THEN DrawInit  ELSE NoDraws
  /\ IF which = "event" THEN EventInit ELSE NoEvent
  /\ IF which = "queue" THEN QueueInit ELSE NoQueue
  /\ IF which = "promo" THEN PromoInit ELSE NoPromo
  /\ CASE which = "pet"       -> P!Init
       [] which = "outlasted" -> L!Init
       [] which = "illness"   -> H!Init /\ x11 = Blank
       [] OTHER               -> NoCare

PlayNext ==
  \/ which = "race"  /\ Next      /\ UNCHANGED <<which, drawVars, eventVars, queueVars, promoVars, care>>
  \/ which = "gacha" /\ DrawNext  /\ UNCHANGED <<which, vars, eventVars, queueVars, promoVars, care>>
  \/ which = "event" /\ EventNext /\ UNCHANGED <<which, vars, drawVars, queueVars, promoVars, care>>
  \/ which = "queue" /\ QueueNext /\ UNCHANGED <<which, vars, drawVars, eventVars, promoVars, care>>
  \/ which = "promo" /\ PromoNext /\ UNCHANGED <<which, vars, drawVars, eventVars, queueVars, care>>
  \/ which = "pet"   /\ P!Next    /\ UNCHANGED <<which, vars, drawVars, eventVars, queueVars, promoVars>>
  \/ which = "outlasted" /\ L!Next /\ UNCHANGED <<which, vars, drawVars, eventVars, queueVars, promoVars>>
  \/ which = "illness" /\ H!Next  /\ UNCHANGED <<which, vars, drawVars, eventVars, queueVars, promoVars, x11>>

PlaySpec == PlayInit /\ [][PlayNext]_playVars

-----------------------------------------------------------------------------
(* The properties of the others are theirs. *)

\* pet-math.ts, pet.service.ts: while locks hold, settling lazily is settling hour by hour,
\* and a day's interactions give no more than its caps. condition.service.ts: ill when neglected for
\* long enough, and well when paid for.
CareHolds ==
  /\ which = "pet" => P!CareHolds
  /\ which = "outlasted" => L!CareHolds
  /\ which = "illness" => H!ConditionsHold
=============================================================================
