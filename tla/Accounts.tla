------------------------------ MODULE Accounts ------------------------------
(***************************************************************************)
(* Accounts of the ledger (account.service.ts). A player's is made when    *)
(* something is first posted for him, within the transaction that posts    *)
(* it, or by a read of a handler on its own. Each process keeps the ids it *)
(* has resolved for good, so that an id it keeps must be one that stays.   *)
(***************************************************************************)
EXTENDS Integers, FiniteSets

CONSTANTS
  Owners,        \* players, FEE and ESCROW
  Runs,          \* transactions
  Processes,
  None,
  MaxId          \* bound: ids of the sequence, which rolling back does not give back

AccountsAssumption == MaxId \in Nat \ {0} /\ None \notin Owners

VARIABLES
  account,   \* id of the committed account
  next,      \* the sequence
  open,      \* transaction -> the accounts it has made, not yet committed
  used,      \* transaction -> the ids it has posted to
  on,        \* transaction -> its process
  cache,
  entries    \* ids with committed postings

vars == <<account, next, open, used, on, cache, entries>>

Init ==
  /\ account = [u \in Owners |-> None] /\ next = 1
  /\ open = [r \in Runs |-> [u \in Owners |-> None]] /\ used = [r \in Runs |-> {}]
  /\ on \in [Runs -> Processes]
  /\ cache = [p \in Processes |-> [u \in Owners |-> None]] /\ entries = {}

-----------------------------------------------------------------------------
\* What a transaction sees: its own and what is committed.
Sees(r, u) == IF open[r][u] # None THEN open[r][u] ELSE account[u]

\* Another has inserted the row and neither committed nor rolled back: INSERT waits.
Waits(r, u) == \E q \in Runs \ {r} : open[q][u] # None

\* Faulty: what a transaction resolves is kept as well.
Always(p, u, id, within) == [cache EXCEPT ![p][u] = id]

Keep(p, u, id, within) == IF within THEN cache ELSE [cache EXCEPT ![p][u] = id]

resolveUser(r, u) ==
  /\ ~Waits(r, u)
  /\ IF Sees(r, u) # None THEN UNCHANGED <<open, next>>
     ELSE /\ next <= MaxId /\ next' = next + 1
          /\ open' = [open EXCEPT ![r][u] = next]

\* With the manager of a transaction.
resolve(r, u) ==
  LET hit == cache[on[r]][u] IN
  /\ \/ /\ hit # None
        /\ used' = [used EXCEPT ![r] = @ \cup {hit}]
        /\ UNCHANGED <<open, next, cache>>
     \/ /\ hit = None /\ resolveUser(r, u)
        /\ LET id == IF Sees(r, u) # None THEN Sees(r, u) ELSE next IN
           /\ used' = [used EXCEPT ![r] = @ \cup {id}]
           /\ cache' = Keep(on[r], u, id, TRUE)
  /\ UNCHANGED <<account, on, entries>>

\* Without one: two statements, each a transaction of its own.
resolveAlone(p, u) ==
  /\ cache[p][u] = None /\ \A q \in Runs : open[q][u] = None
  /\ IF account[u] # None THEN UNCHANGED <<account, next>>
     ELSE /\ next <= MaxId /\ next' = next + 1
          /\ account' = [account EXCEPT ![u] = next]
  /\ cache' = Keep(p, u, account'[u], FALSE)
  /\ UNCHANGED <<open, used, on, entries>>

peek(p, u) ==
  /\ cache[p][u] = None /\ account[u] # None
  /\ cache' = Keep(p, u, account[u], FALSE)
  /\ UNCHANGED <<account, next, open, used, on, entries>>

-----------------------------------------------------------------------------
Fresh(r) ==
  /\ open' = [open EXCEPT ![r] = [u \in Owners |-> None]] /\ used' = [used EXCEPT ![r] = {}]
  /\ \E p \in Processes : on' = [on EXCEPT ![r] = p]

\* An entry refers to an account that is there (its foreign key).
Made(r) == {Sees(r, u) : u \in Owners}

Commit(r) ==
  /\ used[r] # {} /\ used[r] \subseteq Made(r)
  /\ account' = [u \in Owners |-> Sees(r, u)]
  /\ entries' = entries \cup used[r]
  /\ Fresh(r) /\ UNCHANGED <<next, cache>>

\* A leg cannot be paid, a bizId is a duplicate, or the process has died.
Rollback(r) ==
  /\ used[r] # {} /\ Fresh(r)
  /\ UNCHANGED <<account, next, cache, entries>>

Restart(p) ==
  /\ \A r \in Runs : on[r] = p => used[r] = {}
  /\ cache' = [cache EXCEPT ![p] = [u \in Owners |-> None]]
  /\ UNCHANGED <<account, next, open, used, on, entries>>

Next ==
  \/ \E r \in Runs : Commit(r) \/ Rollback(r) \/ \E u \in Owners : resolve(r, u)
  \/ \E p \in Processes : Restart(p) \/ \E u \in Owners : resolveAlone(p, u) \/ peek(p, u)

-----------------------------------------------------------------------------
(* Properties. *)

(* account.service.ts:57-59: an id that is kept is that of the committed   *)
(* account, whatever was rolled back, so that nothing is refused for ever  *)
(* or posted to what is not there; and a player has one account, to which  *)
(* all his entries belong.                                                 *)
KeptIdsStay ==
  /\ \A p \in Processes, u \in Owners : cache[p][u] \in {None, account[u]}
  /\ \A r \in Runs : used[r] \subseteq Made(r)
  /\ entries \subseteq {account[u] : u \in Owners}
=============================================================================
