-------------------------------- MODULE Book --------------------------------
(***************************************************************************)
(* What post() and postWithin() promise a caller, whatever runs at the     *)
(* same time: the vouchers of one transaction are posted together or not   *)
(* at all, each key once, and no row goes below zero.                      *)
(* Posting.tla is shown to implement this.                                 *)
(***************************************************************************)
EXTENDS Integers, Sequences, Functions

CONSTANTS
  Rows,      \* asset_balance rows and, as what is left of mint_limit, asset_def rows
  Start,     \* their values at the start
  Plans      \* the transactions callers run: sequences of [key, legs, mints]

VARIABLES
  bal,       \* committed values of the rows
  posted     \* committed asset_txn.biz_id

KeysOf(plan)    == {plan[n].key : n \in DOMAIN plan}
Changes(v)      == v.legs \o v.mints
EffectOf(v, r)  == SumFunction([i \in DOMAIN Changes(v) |-> IF Changes(v)[i][1] = r THEN Changes(v)[i][2] ELSE 0])
Effect(plan, r) == SumFunction([n \in DOMAIN plan |-> EffectOf(plan[n], r)])

Init == bal = Start /\ posted = {}

Post(plan) ==
  /\ KeysOf(plan) \cap posted = {}
  /\ posted' = posted \cup KeysOf(plan)
  /\ \A r \in Rows : bal[r] + Effect(plan, r) >= 0
  /\ bal' = [r \in Rows |-> bal[r] + Effect(plan, r)]

Next == \E plan \in Plans : Post(plan)

Spec == Init /\ [][Next]_<<bal, posted>>
=============================================================================
