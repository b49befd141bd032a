------------------------------- MODULE Roster -------------------------------
(***************************************************************************)
(* The pets of one player (pet.service.ts, fusion.service.ts,              *)
(* breed.service.ts): they are born, one of them is out, some are fused    *)
(* into one of a higher form. Handlers that write hold the player's lock,  *)
(* for as long as it lasts; a look at the pet holds none, and makes the    *)
(* first pet if there is none. A unique index allows one live pet that is  *)
(* out.                                                                    *)
(***************************************************************************)
EXTENDS Integers, Sequences, FiniteSets, FiniteSetsExt

CONSTANTS
  Handlers,     \* requests under the player's lock
  Lookers,      \* requests without it
  MaxPets,      \* pet.max_pets_per_user
  Count,        \* materials of a recipe
  MaxForm,      \* 0 normal, 1 glow, 2 rainbow
  MaxRows, MaxEggs,   \* bounds
  Regimes       \* which of "dies", "shows" (a fused pet is put out), "slow" (a look
                \* lasts), "lapses" (the lock runs out under a handler) happen

RosterAssumption ==
  /\ {MaxPets, MaxRows, MaxForm} \subseteq Nat \ {0} /\ MaxEggs \in Nat
  /\ Count \in 2 .. 100
  /\ \A R \in Regimes : R \subseteq {"dies", "shows", "slow", "lapses"}

VARIABLES
  regime,
  pet,       \* rows: form, out (is_active), fused
  eggs,      \* by id: none, incubating and due, or hatched
  run,       \* per handler, what it has read
  look,      \* per looker
  born,      \* ghost: pets made
  cut        \* ghost: a handler died after it had called the pets in

vars == <<regime, pet, eggs, run, look, born, cut>>

Idle == [at |-> "idle"]
Ids  == DOMAIN pet
Live == {i \in Ids : ~pet[i].fused}
Out  == {i \in Ids : pet[i].out}

Init ==
  /\ regime \in Regimes /\ pet = <<>> /\ eggs = [e \in 1 .. MaxEggs |-> "none"]
  /\ run = [h \in Handlers |-> Idle] /\ look = [l \in Lookers |-> "idle"]
  /\ born = 0 /\ cut = FALSE

At(h, s)   == run[h].at = s
Goes(h, r) == run' = [run EXCEPT ![h] = r]
Rest       == UNCHANGED <<regime, look, cut>>

\* The lock is had when no other has it, or when what the other had has run out.
Locked(h) == At(h, "idle") /\ ("lapses" \in regime \/ \A g \in Handlers : At(g, "idle"))

-----------------------------------------------------------------------------
\* Faulty: no index.
NoIndex(rows) == TRUE

uq_pet_active_per_user(rows) == Cardinality({i \in DOMAIN rows : rows[i].out /\ ~rows[i].fused}) <= 1

\* A row is inserted, or the index refuses it.
Born(out) ==
  LET rows == Append(pet, [form |-> 0, out |-> out, fused |-> FALSE]) IN
  /\ Len(pet) < MaxRows
  /\ IF uq_pet_active_per_user(rows) THEN pet' = rows /\ born' = born + 1
     ELSE UNCHANGED <<pet, born>>

\* getState and the others that resolve: the one out, or the first, or a new one.
Resolved == IF Out # {} THEN Out ELSE IF Live # {} THEN {Min(Live)} ELSE {}

Look(l) ==
  /\ look[l] = "idle" /\ Resolved = {}
  /\ look' = [look EXCEPT ![l] = "none"]
  /\ UNCHANGED <<regime, pet, eggs, run, born, cut>>

Make(l) ==
  /\ look[l] = "none" /\ look' = [look EXCEPT ![l] = "idle"]
  /\ Born(TRUE)
  /\ UNCHANGED <<regime, eggs, run, cut>>

-----------------------------------------------------------------------------
(* Under the player's lock. *)

create(h) ==
  \/ /\ Locked(h) /\ Cardinality(Live) < MaxPets
     /\ Goes(h, [at |-> "insert", first |-> Live = {}])
     /\ UNCHANGED <<pet, eggs, born>> /\ Rest
  \/ /\ At(h, "insert") /\ Goes(h, Idle) /\ Born(run[h].first)
     /\ UNCHANGED eggs /\ Rest

\* A first look is soon over, unless it is slow.
NoneLooks == "slow" \in regime \/ \A l \in Lookers : look[l] = "idle"

setActive(h) ==
  \/ \E i \in Ids :
       /\ Locked(h) /\ NoneLooks /\ (pet[i].fused => "shows" \in regime)
       /\ Goes(h, [at |-> "clear", id |-> i])
       /\ UNCHANGED <<pet, eggs, born>> /\ Rest
  \/ /\ At(h, "clear") /\ Goes(h, [run[h] EXCEPT !.at = "put"])
     /\ pet' = [i \in Ids |-> [pet[i] EXCEPT !.out = FALSE]]
     /\ UNCHANGED <<eggs, born>> /\ Rest
  \/ LET rows == [pet EXCEPT ![run[h].id].out = TRUE] IN
     /\ At(h, "put") /\ Goes(h, Idle)
     /\ pet' = IF uq_pet_active_per_user(rows) THEN rows ELSE pet
     /\ cut' = FALSE
     /\ UNCHANGED <<regime, look, eggs, born>>

\* Faulty: the one that is out may be used up.
AnyOf == {S \in kSubset(Count, Live) : \A i, j \in S : pet[i].form = pet[j].form}

Materials ==
  {S \in kSubset(Count, Live) : \A i, j \in S : ~pet[i].out /\ pet[i].form = pet[j].form}

\* The first is the carrier; one transaction saves the rows as they were read.
execute(h) ==
  \/ \E S \in Materials :
       /\ Locked(h) /\ \A i \in S : pet[i].form < MaxForm
       /\ Goes(h, [at |-> "fuse", rows |-> [i \in S |-> pet[i]]])
       /\ UNCHANGED <<pet, eggs, born>> /\ Rest
  \/ LET S == DOMAIN run[h].rows  carrier == Min(S) IN
     /\ At(h, "fuse") /\ Goes(h, Idle)
     /\ pet' = [i \in Ids |->
                  IF i \notin S THEN pet[i]
                  ELSE IF i = carrier THEN [run[h].rows[i] EXCEPT !.form = @ + 1]
                  ELSE [run[h].rows[i] EXCEPT !.fused = TRUE, !.out = FALSE]]
     /\ UNCHANGED <<eggs, born>> /\ Rest

\* Two live pets lay an egg, which in time is due (Claim tells what it costs).
Lay(h) ==
  /\ Locked(h) /\ Cardinality(Live) >= 2
  /\ \E e \in DOMAIN eggs : eggs[e] = "none" /\ eggs' = [eggs EXCEPT ![e] = "incubating"]
  /\ UNCHANGED <<pet, run, born>> /\ Rest

hatch(h) ==
  \/ /\ Locked(h) /\ Cardinality(Live) < MaxPets
     /\ \E e \in DOMAIN eggs : eggs[e] = "incubating" /\ Goes(h, [at |-> "birth", egg |-> e])
     /\ UNCHANGED <<pet, eggs, born>> /\ Rest
  \/ /\ At(h, "birth") /\ Goes(h, [run[h] EXCEPT !.at = "egg"]) /\ Born(FALSE)
     /\ UNCHANGED eggs /\ Rest
  \/ /\ At(h, "egg") /\ Goes(h, Idle) /\ eggs' = [eggs EXCEPT ![run[h].egg] = "hatched"]
     /\ UNCHANGED <<pet, born>> /\ Rest

Die(h) ==
  /\ "dies" \in regime /\ ~At(h, "idle") /\ Goes(h, Idle)
  /\ cut' = (cut \/ At(h, "put"))
  /\ UNCHANGED <<regime, pet, eggs, look, born>>

Next ==
  \/ \E h \in Handlers : create(h) \/ setActive(h) \/ execute(h) \/ Lay(h) \/ hatch(h) \/ Die(h)
  \/ \E l \in Lookers : Look(l) \/ Make(l)

-----------------------------------------------------------------------------
(* Properties. *)

LocksHold == "lapses" \notin regime

(* pet.entity.ts:20: of the live pets at most one is out, though first     *)
(* looks and a first creation come at once and locks run out; and while    *)
(* locks hold one is, unless a handler is about to put it out, has died    *)
(* there, or has put out a fused one.                                      *)
OneIsOut ==
  /\ Cardinality(Out \cap Live) <= 1
  /\ LocksHold /\ "shows" \notin regime /\ ~cut /\ Live # {} /\ (\A h \in Handlers : ~At(h, "put"))
     => Out \cap Live # {}

(* pet.service.ts:823: while locks hold, who is looked after is alive, if  *)
(* no fused pet has been put out.                                          *)
ALivePetAnswers == LocksHold /\ "shows" \notin regime => Resolved \subseteq Live

(* pet.service.ts:240: while locks hold, births, hatchings and first looks *)
(* together keep to the number of pets, unless a first look lasts until    *)
(* the player has that many and changes the one that is out.               *)
WithinMaxPets == LocksHold /\ "slow" \notin regime => Cardinality(Live) <= MaxPets

(* fusion.config.ts:4: while locks hold, a pet of a form is worth the pets *)
(* it was made of, and none is lost or comes back. Two fusions at once     *)
(* save what both have read: a pet used up by one is brought back by the   *)
(* other.                                                                  *)
FormsAddUp == LocksHold => MapThenSumSet(LAMBDA i : Count ^ pet[i].form, Live) = born

RosterHolds == OneIsOut /\ ALivePetAnswers /\ WithinMaxPets /\ FormsAddUp
=============================================================================
