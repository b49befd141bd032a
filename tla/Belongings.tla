----------------------------- MODULE Belongings -----------------------------
(***************************************************************************)
(* What a player has, wears and has in the house (inventory.service.ts,    *)
(* items.service.ts, wardrobe.service.ts, home.service.ts): pet_equip and  *)
(* home_layout name assets by code, so that whatever takes a thing from    *)
(* the player has to take it off the pet and out of the house as well      *)
(* (holding-cleanup.service.ts), in writes of its own after its own        *)
(* transaction. Gifts, recycling and listings do so under the lock of the  *)
(* player, under which things are worn and placed; barter does not. The    *)
(* lock has five seconds to live (lock.service.ts), whoever holds it.      *)
(*                                                                         *)
(* One player. A thing is a skin of the only slot or a piece of furniture. *)
(***************************************************************************)
EXTENDS Integers, FiniteSets, FiniteSetsExt

CONSTANTS
  NoRow,
  Runs,          \* requests at a time
  Pets, Skins, Furniture,
  Free,          \* skins of price 0, which everybody has
  Size,          \* of furniture, in cells: <<width, height>>
  Grid,          \* of the room
  MaxOwned,      \* bound: things in all
  Regimes        \* which of "barters", "takes", "dies", "lapses" happen

BelongingsAssumption ==
  /\ Free \subseteq Skins /\ Skins \cap Furniture = {} /\ MaxOwned \in Nat
  /\ Size \in [Furniture -> (Nat \ {0}) \X (Nat \ {0})] /\ Grid \in (Nat \ {0}) \X (Nat \ {0})
  /\ \A R \in Regimes : R \subseteq {"barters", "takes", "dies", "lapses"}

VARIABLES
  regime,
  owned,         \* ownedMap: items held, or available
  away,          \* listed, offered or frozen: they may come back
  worn,          \* pet_equip by pet
  layout,        \* home_layout: rows [id, asset, x, y]
  lock,          \* the request that holds pet:{userId}, or NoRow
  run            \* by request: where it stands

vars == <<regime, owned, away, worn, layout, lock, run>>

Assets == Skins \cup Furniture
Idle   == [at |-> "idle"]

Init ==
  /\ regime \in Regimes
  /\ owned = [a \in Assets |-> 0] /\ away = [a \in Assets |-> 0]
  /\ worn = [p \in Pets |-> NoRow] /\ layout = {} /\ lock = NoRow
  /\ run = [r \in Runs |-> Idle]

\* wardrobe: what is free needs no item.
Has(a) == a \in Free \/ owned[a] > 0

Steps(r, next) == run' = [run EXCEPT ![r] = next]
At(r, s)       == run[r].at = s

\* The lock is given back, if it is still the request's (RELEASE_LUA).
Ends(r) == Steps(r, Idle) /\ lock' = IF lock = r THEN NoRow ELSE lock

\* Its time is up, and the request goes on without it.
Lapse ==
  /\ "lapses" \in regime /\ lock # NoRow /\ lock' = NoRow
  /\ UNCHANGED <<regime, owned, away, worn, layout, run>>

-----------------------------------------------------------------------------
(* Things come and go.                                                     *)

Total == MapThenSumSet(LAMBDA a : owned[a] + away[a], Assets)

\* A purchase or a grant: one voucher, with no lock of the player's.
Gain(a) ==
  /\ a \notin Free /\ Total < MaxOwned
  /\ owned' = [owned EXCEPT ![a] = @ + 1]
  /\ UNCHANGED <<regime, away, worn, layout, lock, run>>

\* A listing or an offer ends with nothing sold.
Return(a) ==
  /\ away[a] > 0
  /\ away' = [away EXCEPT ![a] = @ - 1] /\ owned' = [owned EXCEPT ![a] = @ + 1]
  /\ UNCHANGED <<regime, worn, layout, lock, run>>

\* A listing or an offer ends with the thing sold.
Sold(a) ==
  /\ away[a] > 0 /\ away' = [away EXCEPT ![a] = @ - 1]
  /\ UNCHANGED <<regime, owned, worn, layout, lock, run>>

\* By the back office: a grant is reversed, or a number of furniture set right.
Taken(a) ==
  /\ "takes" \in regime /\ owned[a] > 0 /\ owned' = [owned EXCEPT ![a] = @ - 1]
  /\ UNCHANGED <<regime, away, worn, layout, lock, run>>

\* Away for good, or until it is sold or comes back.
Leaves(a) ==
  /\ owned[a] > 0 /\ owned' = [owned EXCEPT ![a] = @ - 1]
  /\ \/ UNCHANGED away
     \/ away' = [away EXCEPT ![a] = @ + 1]

\* gift(), recycle(), list(): under pet:{userId}.
HandOver(r, a) ==
  /\ At(r, "idle") /\ lock = NoRow /\ lock' = r
  /\ Leaves(a) /\ Steps(r, [at |-> "count", asset |-> a])
  /\ UNCHANGED <<regime, worn, layout>>

\* offer() and settle() of the barter, under trade:{userId}.
Barter(r, a) ==
  /\ "barters" \in regime /\ At(r, "idle")
  /\ Leaves(a) /\ Steps(r, [at |-> "count", asset |-> a])
  /\ UNCHANGED <<regime, worn, layout, lock>>

-----------------------------------------------------------------------------
(* cleanupAfterOutflow(), settle(): four statements.                       *)

\* Faulty: what was there before it left.
Before(a) == owned[a] + 1

Remaining(a) == owned[a]

Count(r) ==
  /\ At(r, "count")
  /\ Steps(r, [at |-> "strip", asset |-> run[r].asset, left |-> Remaining(run[r].asset)])
  /\ UNCHANGED <<regime, owned, away, worn, layout, lock>>

TakeOff(r) ==
  /\ At(r, "strip") /\ Steps(r, [run[r] EXCEPT !.at = "look"])
  /\ worn' = IF run[r].left > 0 THEN worn
             ELSE [p \in Pets |-> IF worn[p] = run[r].asset THEN NoRow ELSE worn[p]]
  /\ UNCHANGED <<regime, owned, away, layout, lock>>

PlacedOf(a) == {row \in layout : row.asset = a}

\* The newest rows go first, which are any of them here.
Look(r) ==
  /\ At(r, "look")
  /\ LET rows == PlacedOf(run[r].asset)
         over == Max({0, Cardinality(rows) - run[r].left})
     IN \E excess \in kSubset(over, rows) : Steps(r, [at |-> "clear", asset |-> run[r].asset, excess |-> excess])
  /\ UNCHANGED <<regime, owned, away, worn, layout, lock>>

Clear(r) ==
  /\ At(r, "clear") /\ layout' = layout \ run[r].excess /\ Ends(r)
  /\ UNCHANGED <<regime, owned, away, worn>>

-----------------------------------------------------------------------------
(* The wardrobe, under pet:{userId}.                                       *)

Equip(r, a, p) ==
  /\ At(r, "idle") /\ lock = NoRow /\ lock' = r
  /\ Has(a)
  /\ Steps(r, [at |-> "wear", asset |-> a, pet |-> p])
  /\ UNCHANGED <<regime, owned, away, worn, layout>>

Wear(r) ==
  /\ At(r, "wear") /\ worn' = [worn EXCEPT ![run[r].pet] = run[r].asset] /\ Ends(r)
  /\ UNCHANGED <<regime, owned, away, layout>>

Unequip(p) ==
  /\ lock = NoRow /\ worn' = [worn EXCEPT ![p] = NoRow]
  /\ UNCHANGED <<regime, owned, away, layout, lock, run>>

-----------------------------------------------------------------------------
(* The house, under pet:{userId}.                                          *)

Cells(row) ==
  (row.x .. row.x + Size[row.asset][1] - 1) \X (row.y .. row.y + Size[row.asset][2] - 1)

insideGrid(row)  == Cells(row) \subseteq (0 .. Grid[1] - 1) \X (0 .. Grid[2] - 1)
overlaps(r1, r2) == Cells(r1) \cap Cells(r2) # {}

\* Where the player wants it, or the first free spot of all, if there is one.
Spots(a) ==
  {spot \in [asset : {a}, x : 0 .. Grid[1] - 1, y : 0 .. Grid[2] - 1] :
     insideGrid(spot) /\ \A row \in layout : ~overlaps(spot, row)}

Place(r, a) ==
  /\ At(r, "idle") /\ lock = NoRow /\ lock' = r
  /\ Cardinality(PlacedOf(a)) < owned[a]
  /\ \E spot \in Spots(a) : Steps(r, [at |-> "put", spot |-> spot])
  /\ UNCHANGED <<regime, owned, away, worn, layout>>

\* A row that is not there, and is not about to be deleted; the id tells two rows of
\* one spot apart.
Rows   == layout \cup UNION {run[r].excess : r \in {q \in Runs : At(q, "clear")}}
New(s) ==
  LET row(n) == [id |-> n, asset |-> s.asset, x |-> s.x, y |-> s.y]
  IN  row(Min({n \in 1 .. Cardinality(Rows) + 1 : row(n) \notin Rows}))

Put(r) ==
  /\ At(r, "put") /\ layout' = layout \cup {New(run[r].spot)} /\ Ends(r)
  /\ UNCHANGED <<regime, owned, away, worn>>

PutAway(row) ==
  /\ lock = NoRow /\ layout' = layout \ {row}
  /\ UNCHANGED <<regime, owned, away, worn, lock, run>>

\* The lock of a dead request runs out, and until then the next one waits for it.
Die(r) ==
  /\ "dies" \in regime /\ ~At(r, "idle") /\ Ends(r)
  /\ UNCHANGED <<regime, owned, away, worn, layout>>

Next ==
  \/ \E a \in Assets : Gain(a) \/ Return(a) \/ Sold(a) \/ Taken(a)
  \/ \E r \in Runs :
       \/ \E a \in Assets : HandOver(r, a) \/ Barter(r, a)
       \/ Count(r) \/ TakeOff(r) \/ Look(r) \/ Clear(r)
       \/ \E a \in Skins, p \in Pets : Equip(r, a, p)
       \/ \E a \in Furniture : Place(r, a)
       \/ Wear(r) \/ Put(r) \/ Die(r)
  \/ Lapse
  \/ \E p \in Pets : Unequip(p)
  \/ \E row \in layout : PutAway(row)

-----------------------------------------------------------------------------
(* Properties. *)

Cleaning(a) == \E r \in Runs : run[r].at \in {"count", "strip", "look", "clear"} /\ run[r].asset = a

\* Of the rows and pets that show it, as many as there are.
InOrder(a, rows) ==
  IF a \in Furniture THEN Cardinality(rows) <= owned[a]
  ELSE Has(a) \/ \A p \in Pets : worn[p] # a

(* inventory.service.ts:25-34, holding-cleanup.service.ts:8-14: what has   *)
(* left is not worn, and no longer adds to the comfort of the house, once  *)
(* the request that took it is through. A barter that runs into an equip   *)
(* or place, two requests of which the first lost the lock, a death before *)
(* the cleanup, and what the back office takes, leave it there.            *)
NothingGoneIsUsed ==
  regime = {} => \A a \in Assets : Cleaning(a) \/ InOrder(a, PlacedOf(a))

(* home.service.ts:149-153: whatever goes wrong, no piece sticks out of    *)
(* the room; and while a lock outlives the request that holds it, no two   *)
(* overlap. Of two that found the same spot free, both are placed there.   *)
RoomIsSound ==
  \A row \in layout :
    /\ insideGrid(row)
    /\ "lapses" \notin regime => \A other \in layout \ {row} : ~overlaps(row, other)

(* What a request that died left behind is cleared up by the next one that *)
(* takes away a thing of that kind.                                        *)
ClearsUp ==
  regime \subseteq {"dies"} =>
    \A r \in Runs : At(r, "clear") => InOrder(run[r].asset, PlacedOf(run[r].asset) \ run[r].excess)

BelongingsHold == NothingGoneIsUsed /\ RoomIsSound /\ ClearsUp
=============================================================================
