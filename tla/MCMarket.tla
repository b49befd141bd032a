------------------------------ MODULE MCMarket ------------------------------
(***************************************************************************)
(* The market: a seller and two buyers; an auction and, where there is     *)
(* room, a listing at a fixed price. Half the price is the fee, so that it *)
(* is never zero for every price and never all of it.                      *)
(*                                                                         *)
(* `which` picks at the start whether it is looked at or a module that     *)
(* shares no state with it: the bounds of trading (Risk), how a race is    *)
(* run (Track), the pets of a player (Roster), and the same where handlers *)
(* outlast their locks. x1, x2, ... stand for the variables of the last    *)
(* three.                                                                  *)
(***************************************************************************)
EXTENDS Market, Risk, TLC

CONSTANTS s, a, b, i1, i2, r1, r2, NoRow

VARIABLES which, x1, x2, x3, x4, x5, x6, x7

shared     == <<x1, x2, x3, x4, x5, x6, x7>>
marketVars == <<which, vars, riskVars, shared>>

MCUsers   == {s, a, b}
AuctionAndFixed == {1, 2}
OneAuction == {1}
SellS     == [l \in Listings |-> s]
AskOne    == [l \in Listings |-> 1]
MCRegimes == {{"bans"}, {"lapses"}}

\* Two players and two items of different worth; what is got stays for two hours of
\* days of two.
TwoTraders  == {a, b}
TwoGoods    == {i1, i2}
TwoHandlers == {r1, r2}
OneEach     == i1 :> a @@ i2 :> b
OneAndTwo   == i1 :> 1 @@ i2 :> 2
MCOpenings  == {{"gift"}, {"gift", "market"}, {"gift", "barter"}, {"gift", "slow"}}

\* Two races of one player and one of another, and one or two shadows.
T == INSTANCE Track WITH
  Ids <- 1 .. 3, OwnerOf <- <<a, b, a>>, LevelOf <- <<1, 2, 3>>, Bases <- {10}, Scores <- {0},
  Jitter <- 5, Bonus <- 105, Difficulty <- 110, Target <- 10, S <- 90, A <- 100, B <- 115,
  ClampMin <- 70, ClampMax <- 160, Band <- 1, Counts <- {1, 2}, Samples <- {1},
  MaxPerRace <- 1, MaxChanges <- 1,
  cfg <- x1, race <- x2, field <- x3, changes <- x4, resized <- x5

\* Three pets of one player, two of which make one of a higher form; two first looks.
R == INSTANCE Roster WITH
  Handlers <- {r1, r2}, Lookers <- {r1, r2}, MaxPets <- 3, Count <- 2, MaxForm <- 2, MaxRows <- 6, MaxEggs <- 2,
  Regimes <- {{"dies"}, {"shows"}, {"slow"}},
  regime <- x1, pet <- x2, eggs <- x3, run <- x4, look <- x5, born <- x6, cut <- x7

\* The same with handlers that outlast their lock: two at once, and one first look.
L == INSTANCE Roster WITH
  Handlers <- {r1, r2}, Lookers <- {r1}, MaxPets <- 3, Count <- 2, MaxForm <- 1, MaxRows <- 4, MaxEggs <- 1,
  Regimes <- {{"lapses"}},
  regime <- x1, pet <- x2, eggs <- x3, run <- x4, look <- x5, born <- x6, cut <- x7

ASSUME AroundAssumption ==
  T!TrackAssumption /\ R!RosterAssumption /\ L!RosterAssumption

\* Variables nobody needs.
Blank    == "blank"
From6    == x6 = Blank /\ x7 = Blank
From1    == x1 = Blank /\ x2 = Blank /\ x3 = Blank /\ x4 = Blank /\ x5 = Blank /\ From6
NoMarket == Init /\ regime = {"bans"}
NoTrade  == RiskInit /\ open = {"gift"}

AroundInit ==
  \/ which = "market"  /\ Init     /\ NoTrade  /\ From1
  \/ which = "risk"    /\ RiskInit /\ NoMarket /\ From1
  \/ which = "track"   /\ T!Init   /\ NoMarket /\ NoTrade /\ From6
  \/ which = "roster"  /\ R!Init   /\ NoMarket /\ NoTrade
  \/ which = "lapses"  /\ L!Init   /\ NoMarket /\ NoTrade

AroundNext ==
  \/ which = "market"  /\ Next     /\ UNCHANGED <<which, riskVars, shared>>
  \/ which = "risk"    /\ RiskNext /\ UNCHANGED <<which, vars, shared>>
  \/ which = "track"   /\ T!Next   /\ UNCHANGED <<which, vars, riskVars, x6, x7>>
  \/ which = "roster"  /\ R!Next   /\ UNCHANGED <<which, vars, riskVars>>
  \/ which = "lapses"  /\ L!Next   /\ UNCHANGED <<which, vars, riskVars>>

AroundSpec == AroundInit /\ [][AroundNext]_marketVars /\ Fairness

-----------------------------------------------------------------------------
(* The properties of the instances above. *)

\* race.service.ts, race.config.ts: the place is one in the field, and shadows are results
\* that stay. pet.service.ts, fusion.service.ts: one pet is out, and none is lost while
\* locks hold; no two are out, whatever the locks do.
PetsHold ==
  /\ which = "track" => T!TrackHolds
  /\ which = "roster" => R!RosterHolds
  /\ which = "lapses" => L!RosterHolds
=============================================================================
