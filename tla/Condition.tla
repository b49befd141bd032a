----------------------------- MODULE Condition ------------------------------
(***************************************************************************)
(* How a pet falls ill and gets well (condition.service.ts): an hourly job *)
(* judges from the row of a pet that nobody has looked after, and lets     *)
(* what is ill heal once its stat has stayed high; a player cures with a   *)
(* medicine or at the clinic. The job takes no lock and saves whole rows   *)
(* it has read before.                                                     *)
(*                                                                         *)
(* One pet. A stat falls by its rate in an hour.                           *)
(***************************************************************************)
EXTENDS Integers, FiniteSets, FiniteSetsExt, TLC

CONSTANTS
  NoRow,
  Keys,                  \* conditions, each of a stat of its own
  Rate, Threshold,       \* by condition: pet.rates, thresholdHours
  Full, HealStat, HealHours,
  Gains,                 \* what an interaction does to the stats
  MaxHour, MaxRows, MaxCures,   \* bounds
  Regimes                \* which of "overlap", "dies", "lapses" happen

ConditionAssumption ==
  /\ Rate \in [Keys -> {0, 1}] /\ Threshold \in [Keys -> Nat \ {0}]
  /\ {Full, HealStat, HealHours, MaxHour, MaxRows, MaxCures} \subseteq Nat /\ HealHours > 0
  /\ Gains \subseteq [Keys -> Nat]
  /\ \A R \in Regimes : R \subseteq {"overlap", "dies", "lapses"}

VARIABLES
  regime, now,
  pet,       \* the row: its stats when it was last seen
  rows,      \* pet_condition by id; those with no `by` are active
  scan,      \* the job
  cures,     \* requests that have paid: what they read
  scanned,   \* the job of this hour has run
  empty,     \* ghost: since when a stat has been zero
  starved,   \* ghost: the hours at which it had been so for the threshold
  bought     \* ghost: ids that a player's cure was saved for

vars == <<regime, now, pet, rows, scan, cures, scanned, empty, starved, bought>>
Ghosts == <<empty, starved, bought>>

Ids == 1 .. MaxRows

Init ==
  /\ regime \in Regimes /\ now = 0
  /\ pet = [stored |-> [k \in Keys |-> Full], seen |-> 0]
  /\ rows = [i \in Ids |-> NoRow] /\ scan = NoRow /\ cures = {} /\ scanned = TRUE
  /\ empty = [k \in Keys |-> NoRow] /\ starved = [k \in Keys |-> {}] /\ bought = {}

Active == {i \in Ids : rows[i] # NoRow /\ rows[i].by = NoRow}
ActiveOf(k) == {i \in Active : rows[i].key = k}

currentStatOf(p, k) == Max({0, p.stored[k] - Rate[k] * (now - p.seen)})

-----------------------------------------------------------------------------
(* The pet and its player.                                                 *)

\* Every hour the job runs once.
Tick ==
  /\ now < MaxHour /\ scanned /\ scan = NoRow /\ cures = {}
  /\ now' = now + 1 /\ scanned' = FALSE
  /\ LET Zero(k) == pet.stored[k] <= Rate[k] * (now + 1 - pet.seen)
     IN empty' = [k \in Keys |-> IF Zero(k) /\ empty[k] = NoRow THEN now + 1 ELSE empty[k]]
  /\ starved' = [k \in Keys |->
       IF empty'[k] # NoRow /\ now + 1 - empty'[k] >= Threshold[k]
         THEN starved[k] \cup {now + 1} ELSE starved[k]]
  /\ UNCHANGED <<regime, pet, rows, scan, cures, bought>>

\* act() and the others that settle, change and save: the zero of a stat that gains
\* nothing starts anew.
Treat(gain) ==
  /\ scan = NoRow \/ "overlap" \in regime
  /\ pet' = [stored |-> [k \in Keys |-> Min({Full, currentStatOf(pet, k) + gain[k]})], seen |-> now]
  /\ empty' = [k \in Keys |-> IF gain[k] > 0 THEN NoRow ELSE empty[k]]
  /\ UNCHANGED <<regime, now, rows, scan, cures, scanned, starved, bought>>

\* cure(): it reads what is active and charges, under the player's lock: which runs out,
\* where it does, while others are under way.
Pay(method) ==
  /\ cures = {} \/ ("lapses" \in regime /\ Cardinality(cures) < MaxCures)
  /\ Active # {} /\ (scan = NoRow \/ "overlap" \in regime)
  /\ LET first == CHOOSE i \in Active : \A j \in Active : rows[i].since <= rows[j].since
     IN cures' = cures \cup
          {[by |-> method, copy |-> [i \in IF method = "item" THEN {first} ELSE Active |-> rows[i]]]}
  /\ UNCHANGED <<regime, now, pet, rows, scan, scanned, Ghosts>>

\* A request is through; another may have read the same.
Leaves(c) == c \in cures /\ cures' \in {cures, cures \ {c}}

Cured(c) ==
  /\ Leaves(c)
  /\ rows' = [i \in DOMAIN c.copy |-> [c.copy[i] EXCEPT !.by = c.by]] @@ rows
  /\ bought' = bought \cup DOMAIN c.copy
  /\ UNCHANGED <<regime, now, pet, scan, scanned, empty, starved>>

\* Sent again under its bizId, it is not charged for what is still there.
DiePaid(c) ==
  /\ "dies" \in regime /\ Leaves(c)
  /\ UNCHANGED <<regime, now, pet, rows, scan, scanned, Ghosts>>

-----------------------------------------------------------------------------
(* scan(), at a quarter past every hour.                                   *)

ZeroAt(p, k) == p.seen + p.stored[k]      \* stored / rate hours later

\* Faulty: ill as soon as it is at zero.
AtOnce(p, k) == ZeroAt(p, k)

SickAt(p, k) == ZeroAt(p, k) + Threshold[k]

judge(p) == {k \in Keys : Rate[k] > 0 /\ SickAt(p, k) <= now}

MinThreshold == Min({Threshold[k] : k \in Keys})

\* The pets last seen before the shortest threshold ago.
Start ==
  /\ scan = NoRow /\ ~scanned /\ (cures = {} \/ "overlap" \in regime)
  /\ scan' = [at |-> "judge", pet |-> pet,
              todo |-> IF pet.seen < now - MinThreshold THEN judge(pet) ELSE {}]
  /\ UNCHANGED <<regime, now, pet, rows, cures, scanned, Ghosts>>

\* ensureCondition(): the partial unique index lets no second one in.
Ensure(k) ==
  /\ scan # NoRow /\ scan.at = "judge" /\ k \in scan.todo
  /\ scan' = [scan EXCEPT !.todo = @ \ {k}]
  /\ \/ ActiveOf(k) # {} /\ UNCHANGED rows
     \/ /\ ActiveOf(k) = {}
        /\ \E i \in Ids : rows[i] = NoRow /\ (\A j \in 1 .. i - 1 : rows[j] # NoRow)
             /\ rows' = [rows EXCEPT ![i] = [key |-> k, since |-> SickAt(scan.pet, k),
                                             healthy |-> NoRow, by |-> NoRow]]
  /\ UNCHANGED <<regime, now, pet, cures, scanned, Ghosts>>

\* selfHeal(): the rows, and then their pets.
FindActive ==
  /\ scan # NoRow /\ scan.at = "judge" /\ scan.todo = {}
  /\ scan' = [at |-> "pets", copy |-> [i \in Active |-> rows[i]]]
  /\ UNCHANGED <<regime, now, pet, rows, cures, scanned, Ghosts>>

FindPet ==
  /\ scan # NoRow /\ scan.at = "pets"
  /\ scan' = [at |-> "heal", copy |-> scan.copy, pet |-> pet, todo |-> DOMAIN scan.copy]
  /\ UNCHANGED <<regime, now, pet, rows, cures, scanned, Ghosts>>

\* What the copy becomes: the time starts again, starts, runs out, or goes on.
Judged(row, stat) ==
  CASE stat < HealStat -> [row EXCEPT !.healthy = NoRow]
    [] stat >= HealStat /\ row.healthy = NoRow -> [row EXCEPT !.healthy = now]
    [] stat >= HealStat /\ row.healthy # NoRow /\ now - row.healthy >= HealHours ->
         [row EXCEPT !.by = "self", !.healthy = NoRow]
    [] OTHER -> row

\* save() writes every column in which the copy differs from the table, `by` included.
\* When that makes a second one active the index refuses it, and the job ends.
HealRow(i) ==
  /\ scan # NoRow /\ scan.at = "heal" /\ i \in scan.todo
  /\ LET copy == scan.copy[i]
         new  == Judged(copy, currentStatOf(scan.pet, copy.key))
     IN IF new = copy THEN UNCHANGED rows /\ scan' = [scan EXCEPT !.todo = @ \ {i}]
        ELSE IF new.by = NoRow /\ ActiveOf(copy.key) \ {i} # {}
          THEN UNCHANGED rows /\ scan' = [scan EXCEPT !.todo = {}]
        ELSE rows' = [rows EXCEPT ![i] = new] /\ scan' = [scan EXCEPT !.todo = @ \ {i}]
  /\ UNCHANGED <<regime, now, pet, cures, scanned, Ghosts>>

Finish ==
  /\ scan # NoRow /\ scan.at = "heal" /\ scan.todo = {}
  /\ scan' = NoRow /\ scanned' = TRUE
  /\ UNCHANGED <<regime, now, pet, rows, cures, Ghosts>>

Next ==
  \/ Tick \/ \E gain \in Gains : Treat(gain)
  \/ \E method \in {"item", "clinic"} : Pay(method)
  \/ \E c \in cures : Cured(c) \/ DiePaid(c)
  \/ Start \/ FindActive \/ FindPet \/ Finish
  \/ \E k \in Keys : Ensure(k)
  \/ \E i \in Ids : HealRow(i)

-----------------------------------------------------------------------------
(* Properties. *)

(* condition.service.ts:128-131: a pet is ill from a time on at which its  *)
(* stat had in truth been at zero for the hours of the threshold, however  *)
(* it was looked after before and while the job ran.                       *)
SinceIsTrue == \A i \in Ids : rows[i] # NoRow => rows[i].since \in starved[rows[i].key]

(* A pet that was left alone at zero for longer than the threshold is ill  *)
(* when the job has been. Whatever touches it, without feeding it, starts  *)
(* the hours anew.                                                         *)
NeglectIsNoticed ==
  scan # NoRow /\ scan.at = "pets" /\ "overlap" \notin regime =>
    \A k \in Keys :
      empty[k] # NoRow /\ now - Max({empty[k], pet.seen}) > Threshold[k] => ActiveOf(k) # {}

(* What a player has paid for stays cured, unless the job had read the row *)
(* before and saves it afterwards. (A new row may be made by the next job  *)
(* if the pet is still not fed.)                                           *)
PaidStaysCured == "overlap" \notin regime => bought \cap Active = {}

ConditionsHold == SinceIsTrue /\ NeglectIsNoticed /\ PaidStaysCured
=============================================================================
