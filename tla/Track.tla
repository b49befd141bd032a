------------------------------- MODULE Track --------------------------------
(***************************************************************************)
(* How a race is run (RaceService.runRace, race.config.ts): the time of    *)
(* the pet against shadows, taken from the settled races of other players  *)
(* when there are enough of them, made up otherwise. A race that is not    *)
(* settled may be run once more, by then perhaps against a field of        *)
(* another size. (What is paid, Race says.)                                *)
(*                                                                         *)
(* Times are whole numbers; ratios are in hundredths.                      *)
(***************************************************************************)
EXTENDS Integers, Sequences, FiniteSets, FiniteSetsExt

CONSTANTS
  Ids, OwnerOf, LevelOf,       \* races, their players and the levels of the pets
  NoRow,
  Bases,                       \* baseFinishTime of a pet on the track
  Scores,                      \* raceScore of what it carries
  Jitter, Bonus,               \* race.formula.jitter, race.revive.scoreBonus
  Difficulty, Target,          \* of the track
  S, A, B,                     \* race.grade_thresholds
  ClampMin, ClampMax, Band,    \* race.ghost
  Counts, Samples,             \* race.opponent_count, race.ghost.minSamples
  MaxPerRace, MaxChanges

TrackAssumption ==
  /\ Bases \cup {Target, Difficulty} \subseteq Nat \ {0} /\ Scores \subseteq Nat
  /\ Jitter \in 0 .. 90 /\ Bonus \in 100 .. 1000
  /\ S < A /\ A < B /\ ClampMin < ClampMax
  /\ Counts \subseteq 1 .. 50 /\ Samples \subseteq 0 .. 50 /\ MaxPerRace \in 0 .. 10
  /\ Band \in Nat /\ MaxChanges \in Nat

VARIABLES
  cfg,       \* the size of the field and the samples it takes
  race,      \* race_record
  field,     \* ghost: the shadows of its last run
  changes,   \* bound: changes of cfg
  resized    \* ghost: races run again against a field of another size

vars == <<cfg, race, field, changes, resized>>

Init ==
  /\ cfg \in [count : Counts, min : Samples]
  /\ race = [i \in Ids |-> NoRow] /\ field = [i \in Ids |-> <<>>]
  /\ changes = 0 /\ resized = {}

-----------------------------------------------------------------------------
(* race.config.ts. *)

\* Whole numbers about the range from lo to hi, both in hundredths.
Within(lo, hi) == {t \in lo \div 100 .. hi \div 100 + 1 : t * 100 >= lo /\ t * 100 <= hi}

playerBase(base, score, bonus) == (base * 10000) \div (bonus * (100 + score))

jitterTime(base) == {Max({1, t}) : t \in Within(base * (100 - Jitter), base * (100 + Jitter)) \cup {base}}

\* base / (difficulty * (0.8 .. 1.05))
npcFinishTime(base) == {Max({1, (base * 10000) \div (Difficulty * f)}) : f \in {80, 105}}

gradeOf(t) ==
  IF t * 100 <= S * Target THEN "S" ELSE IF t * 100 <= A * Target THEN "A"
  ELSE IF t * 100 <= B * Target THEN "B" ELSE "C"

rankOf(t, shadows) == 1 + Cardinality({k \in DOMAIN shadows : shadows[k].time < t})

-----------------------------------------------------------------------------
(* The field. *)

\* Faulty: races that may still be run again are samples too.
AnyRace(me) == {i \in Ids : race[i] # NoRow /\ OwnerOf[i] # OwnerOf[me]}

Eligible(me) ==
  {i \in Ids : /\ race[i] # NoRow /\ race[i].status = "settled" /\ OwnerOf[i] # OwnerOf[me]
               /\ LevelOf[i] \in LevelOf[me] - Band .. LevelOf[me] + Band}

\* ORDER BY RANDOM() LIMIT count; or the query has failed.
sampleGhosts(me) ==
  {{}} \cup kSubset(Min({cfg.count, Cardinality(Eligible(me))}), Eligible(me))

Clamp(base, t) ==
  Min({(base * ClampMax) \div 100, Max({(base * ClampMin) \div 100, t})})

npcTimes(base, n) == [1 .. n -> {[of |-> NoRow, seen |-> 0, time |-> t] : t \in npcFinishTime(base)}]

\* All shadows are made up when there are too few samples.
ghostTimes(base, sampled) ==
  IF Cardinality(sampled) < cfg.min THEN {[src |-> "npc", at |-> f] : f \in npcTimes(base, cfg.count)}
  ELSE LET order == CHOOSE s \in [1 .. Cardinality(sampled) -> sampled] :
                      \A j, k \in DOMAIN s : s[j] = s[k] => j = k
           real  == [k \in DOMAIN order |-> [of |-> order[k], seen |-> race[order[k]].time,
                                             time |-> Clamp(base, race[order[k]].time)]]
           short == cfg.count - Cardinality(sampled)
       IN {[src |-> IF short > 0 THEN "mixed" ELSE "player", at |-> real \o f] :
             f \in npcTimes(base, short)}

runRace(i, bonus, row) ==
  \E base \in Bases, score \in Scores, sampled \in sampleGhosts(i) :
  \E t \in jitterTime(playerBase(base, score, bonus)), g \in ghostTimes(base, sampled) :
    /\ race' = [race EXCEPT ![i] = [row EXCEPT !.time = t, !.grade = gradeOf(t), !.source = g.src,
                                               !.rank = rankOf(t, g.at)]]
    /\ field' = [field EXCEPT ![i] = g.at]

-----------------------------------------------------------------------------
start(i) ==
  /\ race[i] = NoRow
  /\ runRace(i, 100, [time |-> 0, grade |-> "C", source |-> "npc", rank |-> 0,
                      total |-> cfg.count + 1, status |-> "pending", revived |-> 0])
  /\ UNCHANGED <<cfg, changes, resized>>

\* totalRacers stays what it was.
revive(i) ==
  /\ race[i] # NoRow /\ race[i].status = "pending" /\ race[i].revived < MaxPerRace
  /\ runRace(i, Bonus, [race[i] EXCEPT !.revived = @ + 1])
  /\ resized' = IF race[i].total = cfg.count + 1 THEN resized \ {i} ELSE resized \cup {i}
  /\ UNCHANGED <<cfg, changes>>

settle(i) ==
  /\ race[i] # NoRow /\ race[i].status = "pending"
  /\ race' = [race EXCEPT ![i].status = "settled"]
  /\ UNCHANGED <<cfg, field, changes, resized>>

\* The operator changes the numbers.
Configure ==
  /\ changes < MaxChanges /\ changes' = changes + 1
  /\ cfg' \in [count : Counts, min : Samples]
  /\ UNCHANGED <<race, field, resized>>

Next == (\E i \in Ids : start(i) \/ revive(i) \/ settle(i)) \/ Configure

-----------------------------------------------------------------------------
(* Properties. *)

Run == {i \in Ids : race[i] # NoRow}

(* race.service.ts:82-98: the place is one in the field it is shown with,  *)
(* unless the size of fields has changed in between.                       *)
RankInField == \A i \in Run : i \notin resized => race[i].rank \in 1 .. race[i].total

(* race.service.ts:581: a shadow is a result that stays on record as it    *)
(* was seen, brought to the player's own pace.                             *)
ShadowsStay ==
  \A i \in Run : \A k \in DOMAIN field[i] :
    LET shadow == field[i][k] IN
    shadow.of # NoRow =>
      /\ race[shadow.of].status = "settled" /\ race[shadow.of].time = shadow.seen
      /\ OwnerOf[shadow.of] # OwnerOf[i]

(* race.service.ts:511-517: what the record says of the shadows is so, if  *)
(* at least one is asked for. (With none, made up ones go by "mixed".)     *)
SourceIsTrue ==
  0 \notin Samples =>
  \A i \in Run :
    LET real == {k \in DOMAIN field[i] : field[i][k].of # NoRow}
    IN race[i].source = IF real = {} THEN "npc"
                        ELSE IF real = DOMAIN field[i] THEN "player" ELSE "mixed"

TrackHolds == RankInField /\ ShadowsStay /\ SourceIsTrue
=============================================================================
