------------------------------ MODULE Posting ------------------------------
(***************************************************************************)
(* The transaction of post() opened up: the INSERT of the voucher header   *)
(* against the unique index on biz_id, then one conditional UPDATE per     *)
(* leg, each of which takes its row's lock and keeps it to the end, then   *)
(* the mints, which update their asset_def row. A caller may run several   *)
(* vouchers in one transaction (postWithin). A process may die at any      *)
(* point; its client sends the same request again.                         *)
(*                                                                         *)
(* PostgreSQL is modelled by what the code relies on: READ COMMITTED, a    *)
(* writer of a locked row waits, an INSERT of a key that another open      *)
(* transaction inserted waits for its outcome.                             *)
(***************************************************************************)
EXTENDS Integers, FiniteSets, Sequences, Functions

CONSTANTS
  Procs,
  Balances,    \* asset_balance rows, numbered in the order of (account_id, asset_code)
  Defs,        \* asset_def rows; their value is mint_limit - minted_count
  Start,
  Mixes,       \* what the processes may want: functions from Procs to transactions,
               \* a transaction being a sequence of vouchers [key, legs, mints]
  MaxTries,    \* bound: how often a client sends a request
  Nobody

Rows  == Balances \cup Defs
KeysOf(t) == {t[n].key : n \in DOMAIN t}
Plans == {m[p] : m \in Mixes, p \in Procs}
Keys  == UNION {KeysOf(t) : t \in Plans}

Voucher == [key : Keys, legs : Seq(Balances \X Int), mints : Seq(Defs \X Int)]

\* The vouchers of one transaction have keys of their own.
ASSUME PostingAssumption ==
  /\ Balances \cap Defs = {} /\ Rows \subseteq Nat /\ Nobody \notin Procs
  /\ Start \in [Rows -> Nat] /\ MaxTries \in Nat
  /\ \A m \in Mixes : DOMAIN m = Procs
  /\ \A t \in Plans :
       /\ t \in Seq(Voucher) /\ t # <<>>
       /\ \A m, n \in DOMAIN t : t[m].key = t[n].key => m = n

VARIABLES
  plan,             \* the transaction each process wants; never changes
  bal, posted,      \* committed rows and keys
  holder,           \* the transaction that locks a row
  inserter,         \* the open transaction that inserted a key
  dirty,            \* what a transaction has added to the rows it locks
  pc,               \* "idle", "insert", "update" or "committed"
  at,               \* the voucher it is at
  rest,             \* the numbers of the updates left of that voucher
  tries, result     \* the client's view

vars == <<plan, bal, posted, holder, inserter, dirty, pc, at, rest, tries, result>>
db   == <<bal, posted>>

Clean == [r \in Rows |-> 0]
Results == {"none", "ok", "replayed", "refused", "lost"}

TypeOK ==
  /\ plan \in Mixes
  /\ bal \in [Rows -> Nat]
  /\ posted \subseteq Keys
  /\ holder \in [Rows -> Procs \cup {Nobody}]
  /\ inserter \in [Keys -> Procs \cup {Nobody}]
  /\ dirty \in [Procs -> [Rows -> Int]]
  /\ pc \in [Procs -> {"idle", "insert", "update", "committed"}]
  /\ at \in [Procs -> Nat] /\ rest \in [Procs -> SUBSET Nat]
  /\ tries \in [Procs -> 0 .. MaxTries]
  /\ result \in [Procs -> Results]

Init ==
  /\ plan \in Mixes
  /\ bal = Start /\ posted = {}
  /\ holder = [r \in Rows |-> Nobody]
  /\ inserter = [k \in Keys |-> Nobody]
  /\ dirty = [p \in Procs |-> Clean]
  /\ pc = [p \in Procs |-> "idle"]
  /\ at = [p \in Procs |-> 1]
  /\ rest = [p \in Procs |-> {}]
  /\ tries = [p \in Procs |-> 0]
  /\ result = [p \in Procs |-> "none"]

-----------------------------------------------------------------------------
Here(p) == plan[p][at[p]]

Changes(v) == v.legs \o v.mints

\* Faulty: the rows are updated in the order the caller gave.
AsGiven(v, i, j) == i <= j

\* resolved.sort(...): the legs by account and asset; then the mints, as given.
Precedes(v, i, j) ==
  LET row(n) == Changes(v)[n][1]
  IN  IF {i, j} \subseteq DOMAIN v.legs /\ row(i) # row(j) THEN row(i) < row(j) ELSE i <= j

\* Faulty: the locks go, the uncommitted values stay for the next owner of the process.
KeepsDirty(p) == dirty

Cleaned(p) == [dirty EXCEPT ![p] = Clean]

\* The end of a transaction: its locks go, its inserts are settled.
Release(p, res) ==
  /\ holder' = [r \in Rows |-> IF holder[r] = p THEN Nobody ELSE holder[r]]
  /\ inserter' = [k \in Keys |-> IF inserter[k] = p THEN Nobody ELSE inserter[k]]
  /\ dirty' = Cleaned(p)
  /\ rest' = [rest EXCEPT ![p] = {}]
  /\ result' = [result EXCEPT ![p] = res]
  /\ UNCHANGED <<plan, at, tries>>

Rollback(p, res) ==
  /\ Release(p, res)
  /\ pc' = [pc EXCEPT ![p] = "idle"]
  /\ UNCHANGED db

\* A request arrives, or is sent again because no answer came.
Begin(p) ==
  /\ pc[p] = "idle" /\ result[p] \in {"none", "lost"} /\ tries[p] < MaxTries
  /\ pc' = [pc EXCEPT ![p] = "insert"]
  /\ at' = [at EXCEPT ![p] = 1]
  /\ tries' = [tries EXCEPT ![p] = @ + 1]
  /\ UNCHANGED <<plan, bal, posted, holder, inserter, dirty, rest, result>>

\* insertTxn: the key is free.
InsertTxn(p) ==
  /\ pc[p] = "insert"
  /\ Here(p).key \notin posted /\ inserter[Here(p).key] = Nobody
  /\ inserter' = [inserter EXCEPT ![Here(p).key] = p]
  /\ rest' = [rest EXCEPT ![p] = DOMAIN Changes(Here(p))]
  /\ pc' = [pc EXCEPT ![p] = "update"]
  /\ UNCHANGED <<plan, bal, posted, holder, dirty, at, tries, result>>

Taken(k) == k \in posted

\* 23505: the whole transaction rolls back and the caller answers from replay().
Duplicate(p) ==
  /\ pc[p] = "insert" /\ Taken(Here(p).key)
  /\ Rollback(p, "replayed")

Change(p, i)   == Changes(Here(p))[i]
IsNext(p, i)   == pc[p] = "update" /\ i \in rest[p] /\ \A j \in rest[p] : Precedes(Here(p), i, j)
Lockable(p, r) == holder[r] \in {Nobody, p}

InRange(p, c) == bal[c[1]] + dirty[p][c[1]] + c[2] >= 0

\* applyLeg, mintInstance: one conditional UPDATE, on the values of the moment.
UpdateRow(p) ==
  /\ \E i \in rest[p] :
       LET c == Change(p, i)
       IN  /\ IsNext(p, i) /\ Lockable(p, c[1]) /\ InRange(p, c)
           /\ holder' = [holder EXCEPT ![c[1]] = p]
           /\ dirty' = [dirty EXCEPT ![p][c[1]] = @ + c[2]]
           /\ rest' = [rest EXCEPT ![p] = @ \ {i}]
  /\ UNCHANGED <<plan, bal, posted, inserter, pc, at, tries, result>>

\* No row hit: 400.
Refuse(p) ==
  /\ \E i \in rest[p] : IsNext(p, i) /\ Lockable(p, Change(p, i)[1]) /\ ~InRange(p, Change(p, i))
  /\ Rollback(p, "refused")

NextVoucher(p) ==
  /\ pc[p] = "update" /\ rest[p] = {} /\ at[p] < Len(plan[p])
  /\ at' = [at EXCEPT ![p] = @ + 1]
  /\ pc' = [pc EXCEPT ![p] = "insert"]
  /\ UNCHANGED <<plan, bal, posted, holder, inserter, dirty, rest, tries, result>>

\* COMMIT; the answer is on its way.
Commit(p) ==
  /\ pc[p] = "update" /\ rest[p] = {} /\ at[p] = Len(plan[p])
  /\ bal' = [r \in Rows |-> bal[r] + dirty[p][r]]
  /\ posted' = posted \cup {k \in Keys : inserter[k] = p}
  /\ pc' = [pc EXCEPT ![p] = "committed"]
  /\ Release(p, "none")

Answer(p) ==
  /\ pc[p] = "committed"
  /\ pc' = [pc EXCEPT ![p] = "idle"]
  /\ result' = [result EXCEPT ![p] = "ok"]
  /\ UNCHANGED <<plan, bal, posted, holder, inserter, dirty, at, rest, tries>>

\* The process or its connection dies: the database rolls back what is open.
Die(p) ==
  /\ pc[p] # "idle"
  /\ Rollback(p, "lost")

Proceed(p) ==
  \/ Begin(p) \/ InsertTxn(p) \/ Duplicate(p) \/ UpdateRow(p) \/ Refuse(p)
  \/ NextVoucher(p) \/ Commit(p) \/ Answer(p)

Next == \E p \in Procs : Proceed(p) \/ Die(p)

Spec     == Init /\ [][Next]_vars
\* A process that can go on does so; nothing is assumed about deaths.
FairSpec == Spec /\ \A p \in Procs : WF_vars(Proceed(p))

-----------------------------------------------------------------------------
(* Properties. *)

(* The transactions are atomic and each key is posted once: the committed  *)
(* rows and keys follow Book (ledger.service.ts:97-118).                   *)
Promise  == INSTANCE Book WITH Rows <- Rows, Start <- Start, Plans <- Plans, bal <- bal, posted <- posted
BookSpec == Promise!Spec

(* Every request that reaches a process is answered or dies: no one waits  *)
(* for a row or a key for ever (ledger.service.ts:60-66).                  *)
EveryRequestEnds == \A p \in Procs : pc[p] # "idle" ~> pc[p] = "idle"
=============================================================================
