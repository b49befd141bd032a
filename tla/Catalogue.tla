------------------------------ MODULE Catalogue ------------------------------
(***************************************************************************)
(* One row of asset_def and everything that writes it: the statement that  *)
(* mints a unique asset (ledger.service.ts), the page of the back office   *)
(* (admin-items.service.ts), the seeding at the start                      *)
(* (asset-catalog.service.ts), and the job that takes an event's items off *)
(* the shelf (event-lifecycle.service.ts); and the copy of the row that    *)
(* the ledger keeps in memory.                                             *)
(*                                                                         *)
(* save() reads the row again and writes the columns that differ from the  *)
(* entity: what others changed since the entity was read is put back.      *)
(***************************************************************************)
EXTENDS Integers, FiniteSets, FiniteSetsExt

CONSTANTS
  Mints,      \* vouchers that mint the asset
  Writers,    \* requests of the back office
  NoRow, Nobody,
  Limits,     \* mint limits an operator may set; 0: none
  SeedLimit,  \* the limit of the seed
  Regimes     \* which of "overlap", "removes" happen

CatalogueAssumption ==
  /\ Limits \subseteq Nat /\ SeedLimit \in Limits
  /\ \A R \in Regimes : R \subseteq {"overlap", "removes"}

VARIABLES
  regime,
  def,       \* the row, or NoRow: kind, limit, minted, enabled
  cached,    \* defCache: the kind, or "none"
  inst,      \* item_instance: number of rows, those of them without a serial, serials
  lock,      \* the voucher whose transaction holds the row
  at, kind,  \* of a voucher: its step, the kind it has found
  wAt, copy, diff   \* of a writer: its step, its entity, the columns that differ

vars == <<regime, def, cached, inst, lock, at, kind, wAt, copy, diff>>

Columns == {"kind", "limit", "minted", "enabled"}
Row(k, l) == [kind |-> k, limit |-> l, minted |-> 0, enabled |-> TRUE]
Rows == [kind : {"unique", "stackable"}, limit : Limits, minted : 0 .. Cardinality(Mints), enabled : BOOLEAN]

TypeOK ==
  /\ regime \in Regimes /\ def \in Rows \cup {NoRow} /\ cached \in {"none", "unique", "stackable"}
  /\ inst \in [n : 0 .. Cardinality(Mints), bare : 0 .. Cardinality(Mints), serials : SUBSET (1 .. Cardinality(Mints))]
  /\ lock \in Mints \cup {Nobody}
  /\ at \in [Mints -> {"new", "found", "bump", "insert", "commit", "done", "soldout", "refused", "collided"}]
  /\ kind \in [Mints -> {"none", "unique", "stackable"}]
  /\ wAt \in [Writers -> {"idle", "save", "insert", "update"}] /\ copy \in [Writers -> Rows \cup {NoRow}]
  /\ diff \in [Writers -> SUBSET Columns]

Init ==
  /\ regime \in Regimes /\ def = NoRow /\ cached = "none"
  /\ inst = [n |-> 0, bare |-> 0, serials |-> {}] /\ lock = Nobody
  /\ at = [p \in Mints |-> "new"] /\ kind = [p \in Mints |-> "none"]
  /\ wAt = [w \in Writers |-> "idle"] /\ copy = [w \in Writers |-> NoRow]
  /\ diff = [w \in Writers |-> {}]

-----------------------------------------------------------------------------
(* mintInstance, in the transaction of its voucher. A transaction that is  *)
(* turned back leaves nothing.                                             *)

Step(p, s) == at' = [at EXCEPT ![p] = s]
Minting  == {p \in Mints : at[p] \in {"found", "bump", "insert", "commit"}}
Writing  == {w \in Writers : wAt[w] # "idle"}
Writes   == <<wAt, copy, diff>>

\* defOf: the kind comes from memory, or from the row and goes into memory.
Find(p) ==
  /\ at[p] = "new" /\ lock # p /\ ("overlap" \in regime \/ Writing = {})
  /\ IF cached # "none" THEN Step(p, "bump") /\ kind' = [kind EXCEPT ![p] = cached]
     ELSE /\ Step(p, IF def = NoRow THEN "refused" ELSE "found")
          /\ kind' = [kind EXCEPT ![p] = IF def = NoRow THEN "none" ELSE def.kind]
  /\ UNCHANGED <<regime, def, cached, inst, lock, Writes>>

Remember(p) ==
  /\ at[p] = "found" /\ Step(p, "bump") /\ cached' = kind[p]
  /\ UNCHANGED <<regime, def, inst, lock, kind, Writes>>

SoldOut == def.limit # 0 /\ def.minted >= def.limit

\* UPDATE ... RETURNING waits for the row, counts, and holds the row till the end.
Bump(p) ==
  /\ at[p] = "bump" /\ lock = Nobody
  /\ \/ kind[p] = "unique" /\ def # NoRow /\ ~SoldOut /\ Step(p, "insert") /\ lock' = p
     \/ kind[p] = "unique" /\ (IF def = NoRow THEN TRUE ELSE SoldOut) /\ Step(p, "soldout") /\ UNCHANGED lock
     \/ kind[p] # "unique" /\ Step(p, "refused") /\ UNCHANGED lock
  /\ UNCHANGED <<regime, def, cached, inst, kind, Writes>>

\* The serial is the count; an asset without a limit has none. uq_instance_serial.
Serial == IF def.limit = 0 THEN {} ELSE {def.minted + 1}

Insert(p) ==
  /\ at[p] = "insert" /\ lock = p
  /\ IF Serial \cap inst.serials = {} THEN Step(p, "commit") /\ UNCHANGED lock
     ELSE Step(p, "collided") /\ lock' = Nobody
  /\ UNCHANGED <<regime, def, cached, inst, kind, Writes>>

Commit(p) ==
  /\ at[p] = "commit" /\ Step(p, "done") /\ lock' = Nobody
  /\ def' = [def EXCEPT !.minted = @ + 1]
  /\ inst' = [n |-> inst.n + 1, bare |-> inst.bare + (IF Serial = {} THEN 1 ELSE 0),
              serials |-> inst.serials \cup Serial]
  /\ UNCHANGED <<regime, cached, kind, Writes>>

\* The voucher fails on another of its legs, or is sent again after it was refused.
Rollback(p) ==
  /\ at[p] \in {"bump", "commit"} /\ Step(p, "new") /\ lock' = IF lock = p THEN Nobody ELSE lock
  /\ UNCHANGED <<regime, def, cached, inst, kind, Writes>>

Retry(p) ==
  /\ at[p] \in {"soldout", "refused"} /\ Step(p, "new")
  /\ UNCHANGED <<regime, def, cached, inst, lock, kind, Writes>>

-----------------------------------------------------------------------------
(* The back office. Every write clears the memory.                         *)

Asks(w, s) == wAt' = [wAt EXCEPT ![w] = s]
Vouchers   == <<at, kind>>
Quiet      == "overlap" \in regime \/ (Writing = {} /\ Minting = {})

\* update reads the row; a limit below what it has read is refused.
Edit(w) ==
  /\ wAt[w] = "idle" /\ def # NoRow /\ Quiet /\ Asks(w, "save")
  /\ \E l \in Limits, e \in BOOLEAN :
       /\ l = def.limit \/ l = 0 \/ l >= def.minted
       /\ copy' = [copy EXCEPT ![w] = [def EXCEPT !.limit = l, !.enabled = e]]
  /\ UNCHANGED <<regime, def, cached, inst, lock, Vouchers, diff>>

\* create finds no row.
Create(w) ==
  /\ wAt[w] = "idle" /\ def = NoRow /\ Quiet /\ Asks(w, "save")
  /\ \E k \in {"unique", "stackable"}, l \in Limits : copy' = [copy EXCEPT ![w] = Row(k, l)]
  /\ UNCHANGED <<regime, def, cached, inst, lock, Vouchers, diff>>

\* save() reads the row again: to insert it, or for the columns to update.
Compare(w) ==
  /\ wAt[w] = "save" /\ Asks(w, IF def = NoRow THEN "insert" ELSE "update")
  /\ diff' = [diff EXCEPT ![w] = IF def = NoRow THEN {} ELSE {c \in Columns : copy[w][c] # def[c]}]
  /\ UNCHANGED <<regime, def, cached, inst, lock, Vouchers, copy>>

Updated(w) == [c \in Columns |-> IF c \in diff[w] THEN copy[w][c] ELSE def[c]]

\* ck_asset_mint_limit
Checked(r) == r.limit = 0 \/ r.minted <= r.limit

\* An insert finds no row, an update writes the row there is; or nothing is done.
Write(w) ==
  /\ wAt[w] \in {"insert", "update"} /\ lock = Nobody /\ Asks(w, "idle")
  /\ copy' = [copy EXCEPT ![w] = NoRow] /\ diff' = [diff EXCEPT ![w] = {}]
  /\ def' = IF wAt[w] = "insert" /\ def = NoRow THEN copy[w]
            ELSE IF wAt[w] = "update" /\ def # NoRow /\ Checked(Updated(w)) THEN Updated(w)
            ELSE def
  /\ cached' = IF def' # def \/ wAt[w] = "update" THEN "none" ELSE cached
  /\ UNCHANGED <<regime, inst, lock, Vouchers>>

\* The foreign keys keep a row that has instances.
Remove(w) ==
  /\ "removes" \in regime /\ wAt[w] = "idle" /\ def # NoRow /\ Quiet /\ lock = Nobody
  /\ IF inst.n = 0 THEN def' = NoRow /\ cached' = "none" ELSE UNCHANGED <<def, cached>>
  /\ UNCHANGED <<regime, inst, lock, Vouchers, Writes>>

-----------------------------------------------------------------------------
(* The start of the process and the job.                                   *)

\* Faulty: the seed is saved over the row that is there.
Reseeded == Row("unique", SeedLimit)

\* Only what is missing is put in.
Seeded == IF def = NoRow THEN Row("unique", SeedLimit) ELSE def

\* What was under way is rolled back, or done again later.
Boot ==
  /\ def' = Seeded /\ cached' = "none" /\ lock' = Nobody
  /\ at' = [p \in Mints |-> IF p \in Minting THEN "new" ELSE at[p]]
  /\ kind' = [p \in Mints |-> "none"]
  /\ wAt' = [w \in Writers |-> "idle"] /\ copy' = [w \in Writers |-> NoRow] /\ diff' = [w \in Writers |-> {}]
  /\ UNCHANGED <<regime, inst>>

\* delistEndedLimited, a statement of its own, when an event of the asset is over.
Delist ==
  /\ def # NoRow /\ lock = Nobody /\ ("overlap" \in regime \/ Writing = {})
  /\ def' = [def EXCEPT !.enabled = FALSE] /\ cached' = "none"
  /\ UNCHANGED <<regime, inst, lock, Vouchers, Writes>>

Next ==
  \/ Boot \/ Delist
  \/ \E p \in Mints : Find(p) \/ Remember(p) \/ Bump(p) \/ Insert(p) \/ Commit(p) \/ Rollback(p) \/ Retry(p)
  \/ \E w \in Writers : Edit(w) \/ Create(w) \/ Compare(w) \/ Write(w) \/ Remove(w)

Spec == Init /\ [][Next]_vars

-----------------------------------------------------------------------------
(* Properties. *)

(* The count of a row is the number of its instances, the numbers given    *)
(* out are those up to it, none above the limit, and a voucher is refused  *)
(* for being sold out or wrong, never because its number was given out     *)
(* already (asset-def.entity.ts:56-60, 97-99), whatever limits operators   *)
(* set, restarts and removals between. It does not hold when an edit       *)
(* overlaps a voucher: it puts the count back to what it had read, the     *)
(* next vouchers take numbers that are taken, and collide for ever.        *)
SerialsAreSound ==
  "overlap" \notin regime =>
    /\ def = NoRow => inst.n = 0
    /\ def # NoRow =>
         /\ def.minted = inst.n
         /\ \A s \in inst.serials : s <= def.minted /\ (def.limit # 0 => s <= def.limit)
    /\ \A p \in Mints : at[p] # "collided"

(* What is minted is a unique asset, even when the row is removed and made *)
(* anew with another kind: memory does not keep the kind of the old        *)
(* (ledger.service.ts:87-90, 914-928). It does not hold when that happens  *)
(* between a voucher's reading the row and remembering it.                 *)
MintsUnique ==
  "overlap" \notin regime /\ inst.n > 0 => def.kind = "unique"

(* Even then no number is given out twice and none above every limit there *)
(* was: the unique index stands in for the count.                          *)
NoNumberTwice ==
  /\ inst.n = inst.bare + Cardinality(inst.serials)
  /\ \A s \in inst.serials : s <= Max(Limits)

(* What is minted is numbered as the catalogue says, and is unique.        *)
CatalogueSound == SerialsAreSound /\ MintsUnique /\ NoNumberTwice

=============================================================================
