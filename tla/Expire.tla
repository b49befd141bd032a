------------------------------- MODULE Expire -------------------------------
(***************************************************************************)
(* The daily job of expire.service.ts that burns lots past their expiry    *)
(* date, against players who spend, freeze and thaw meanwhile. A lot row   *)
(* is cut here into what is past its date ("old") and what is not          *)
(* ("live"); the FIFO of takeFromLots takes the old part first.            *)
(*                                                                         *)
(* run() reads the expired amounts in one query, then posts one burn per   *)
(* account in a transaction of its own: the amounts may be stale when they *)
(* are posted. Each post is atomic (Posting.tla).                          *)
(***************************************************************************)
EXTENDS Integers, FiniteSets, FiniteSetsExt

CONSTANTS
  Accounts,     \* account ids; loadBatch orders by them
  BatchSize,    \* BATCH_SIZE
  MaxDay,       \* bound: days
  MaxHeld,      \* bound: units of the asset in an account
  MaxMoves      \* bound: what players do

ASSUME ExpireAssumption ==
  /\ IsFiniteSet(Accounts) /\ Accounts \subseteq Nat
  /\ {BatchSize, MaxDay} \subseteq Nat \ {0} /\ {MaxHeld, MaxMoves} \subseteq Nat

VARIABLES
  old, live,         \* asset_lot.remaining past and not past expires_at
  heldOld, heldLive, \* asset_lot.frozen, likewise
  day,
  posted,            \* asset_txn keys: <<day, account>>
  pc,                \* "off", "load" or "post"
  key,               \* dayKey(), read once per run
  batch,             \* groups still to post: <<account, amount>>
  size, failed, groups,
  quiet,             \* players keep still while the job runs; never changes
  moves, ran         \* bounds: players' moves; the last day the job started

lots == <<old, live, heldOld, heldLive>>
job  == <<pc, key, batch, size, failed, groups>>
vars == <<old, live, heldOld, heldLive, day, posted, pc, key, batch, size, failed, groups, quiet, moves, ran>>

Least(x, y) == IF x <= y THEN x ELSE y
Units == 0 .. MaxHeld

TypeOK ==
  /\ quiet \in BOOLEAN
  /\ \A f \in {old, live, heldOld, heldLive} : f \in [Accounts -> Units]
  /\ day \in 1 .. MaxDay /\ key \in 0 .. MaxDay /\ ran \in 0 .. MaxDay
  /\ posted \subseteq (1 .. MaxDay) \X Accounts
  /\ pc \in {"off", "load", "post"}
  /\ batch \subseteq Accounts \X (1 .. MaxHeld)
  /\ {size, failed, groups} \subseteq Nat /\ moves \in 0 .. MaxMoves

Init ==
  /\ quiet \in BOOLEAN
  /\ live \in [Accounts -> 1 .. MaxHeld]
  /\ old = [a \in Accounts |-> 0]
  /\ heldOld = old /\ heldLive = old
  /\ day = 1 /\ posted = {} /\ ran = 0 /\ moves = 0
  /\ pc = "off" /\ key = 0 /\ batch = {} /\ size = 0 /\ failed = 0 /\ groups = 0

-----------------------------------------------------------------------------
(* Players and the calendar. *)

Move == moves < MaxMoves /\ moves' = moves + 1 /\ (quiet => pc = "off")

\* A burn of q: the earliest lots first.
TakeOld(a, q) == Least(q, old[a])
Spend(a, q) ==
  /\ Move /\ q <= old[a] + live[a]
  /\ old' = [old EXCEPT ![a] = @ - TakeOld(a, q)]
  /\ live' = [live EXCEPT ![a] = @ - (q - TakeOld(a, q))]
  /\ UNCHANGED <<quiet, heldOld, heldLive, day, posted, ran, job>>

\* A freeze (a listing, a bid): lots keep their date while frozen.
Freeze(a, q) ==
  /\ Move /\ q <= old[a] + live[a]
  /\ old' = [old EXCEPT ![a] = @ - TakeOld(a, q)]
  /\ heldOld' = [heldOld EXCEPT ![a] = @ + TakeOld(a, q)]
  /\ live' = [live EXCEPT ![a] = @ - (q - TakeOld(a, q))]
  /\ heldLive' = [heldLive EXCEPT ![a] = @ + (q - TakeOld(a, q))]
  /\ UNCHANGED <<quiet, day, posted, ran, job>>

\* All that is frozen comes back (the listing is withdrawn, the bid outbid).
Thaw(a) ==
  /\ Move /\ heldOld[a] + heldLive[a] > 0
  /\ old' = [old EXCEPT ![a] = @ + heldOld[a]]
  /\ live' = [live EXCEPT ![a] = @ + heldLive[a]]
  /\ heldOld' = [heldOld EXCEPT ![a] = 0]
  /\ heldLive' = [heldLive EXCEPT ![a] = 0]
  /\ UNCHANGED <<quiet, day, posted, ran, job>>

Issue(a) ==
  /\ Move /\ old[a] + live[a] + heldOld[a] + heldLive[a] < MaxHeld
  /\ live' = [live EXCEPT ![a] = @ + 1]
  /\ UNCHANGED <<quiet, old, heldOld, heldLive, day, posted, ran, job>>

\* Another day: what was live before it is past its date now. The day does not
\* turn under a running job (04:00, minutes long).
Tomorrow ==
  /\ pc = "off" /\ ran = day /\ day < MaxDay
  /\ day' = day + 1
  /\ old' = [a \in Accounts |-> old[a] + live[a]]
  /\ heldOld' = [a \in Accounts |-> heldOld[a] + heldLive[a]]
  /\ live' = [a \in Accounts |-> 0]
  /\ heldLive' = live'
  /\ UNCHANGED <<quiet, posted, ran, moves, job>>

-----------------------------------------------------------------------------
(* The job. *)

\* daily(): once a day, on one instance, under a lock.
Start ==
  /\ pc = "off" /\ ran < day
  /\ pc' = "load" /\ key' = day /\ ran' = day
  /\ failed' = 0 /\ groups' = 0
  /\ UNCHANGED <<quiet, old, live, heldOld, heldLive, day, posted, batch, size, moves>>

\* Faulty: what is frozen in an expired lot is counted too.
WithHeld(a) == old[a] + heldOld[a]

Amount(a) == old[a]

\* loadBatch: the first BatchSize accounts with an expired rest.
Due == {a \in Accounts : Amount(a) > 0}
First(S) == {a \in S : Cardinality({b \in S : b < a}) < BatchSize}

Load ==
  /\ pc = "load" /\ Due # {}
  /\ batch' = {<<a, Amount(a)>> : a \in First(Due)}
  /\ size' = Cardinality(First(Due))
  /\ pc' = "post"
  /\ UNCHANGED <<quiet, old, live, heldOld, heldLive, day, posted, key, failed, groups, moves, ran>>

Finish ==
  /\ pc = "load" /\ Due = {}
  /\ pc' = "off" /\ batch' = {} /\ size' = 0
  /\ UNCHANGED <<quiet, old, live, heldOld, heldLive, day, posted, key, failed, groups, moves, ran>>

\* The groups are posted in the order of the query.
IsNext(g) == g \in batch /\ \A h \in batch : g[1] <= h[1]
Posted(g) == posted' = posted \cup {<<key, g[1]>>} /\ batch' = batch \ {g}

Replayed(g) == <<key, g[1]>> \in posted

Burn(g) ==
  LET a == g[1]
      q == g[2]
  IN  /\ pc = "post" /\ IsNext(g) /\ ~Replayed(g)
      /\ q <= old[a] + live[a]
      /\ old' = [old EXCEPT ![a] = @ - TakeOld(a, q)]
      /\ live' = [live EXCEPT ![a] = @ - (q - TakeOld(a, q))]
      /\ groups' = groups + 1
      /\ Posted(g)
      /\ UNCHANGED <<quiet, heldOld, heldLive, day, pc, key, size, failed, moves, ran>>

\* The amount changed, the key did not: the burn of before is the answer.
\* (groups and failed only matter as zero or not, and against the size.)
Replay(g) ==
  /\ pc = "post" /\ IsNext(g) /\ Replayed(g)
  /\ groups' = IF groups = 0 THEN 1 ELSE groups
  /\ batch' = batch \ {g}
  /\ UNCHANGED <<quiet, old, live, heldOld, heldLive, day, posted, pc, key, size, failed, moves, ran>>

Fail(g) ==
  /\ pc = "post" /\ IsNext(g) /\ ~Replayed(g)
  /\ g[2] > old[g[1]] + live[g[1]]
  /\ failed' = Least(failed + 1, BatchSize)
  /\ batch' = batch \ {g}
  /\ UNCHANGED <<quiet, old, live, heldOld, heldLive, day, posted, pc, key, size, groups, moves, ran>>

\* Faulty: one batch and out.
AlwaysGiveUp == TRUE

\* "全批都失败": nothing but failures so far, as many as this batch has groups.
GiveUp == failed >= size /\ groups = 0
Again ==
  /\ pc = "post" /\ batch = {}
  /\ pc' = IF GiveUp THEN "off" ELSE "load"
  /\ UNCHANGED <<quiet, old, live, heldOld, heldLive, day, posted, key, batch, size, failed, groups, moves, ran>>

Step == Start \/ Load \/ Finish \/ Again \/ \E g \in batch : Burn(g) \/ Replay(g) \/ Fail(g)

Next ==
  \/ Step \/ Tomorrow
  \/ \E a \in Accounts : Thaw(a) \/ Issue(a) \/ \E q \in 1 .. MaxHeld : Spend(a, q) \/ Freeze(a, q)

Spec == Init /\ [][Next]_vars
\* The scheduler starts the job and the process runs it; players need not move.
FairSpec == Spec /\ WF_vars(Step)

-----------------------------------------------------------------------------
(* Properties. *)

(* Left alone, the job burns the lots that are past their date and no      *)
(* others (expire.service.ts:113-116).                                     *)
BurnsOnlyExpired ==
  [][quiet /\ (\E g \in batch : Burn(g)) => live' = live]_vars

(* Left alone, a run leaves nothing past its date in available lots, so    *)
(* that reconcile invariant 10, ten minutes later, finds none              *)
(* (expire.service.ts:55-59, reconcile.service.ts:266-274).                *)
NothingExpiredLeft ==
  [][quiet /\ pc # "off" /\ pc' = "off" => \A a \in Accounts : old'[a] = 0]_vars

(* Left alone, the job burns exactly what is past its date.                *)
QuietBurnIsExact == BurnsOnlyExpired /\ NothingExpiredLeft

(* Left alone, a run ends, however many batches it takes                   *)
(* (expire.service.ts:38-41, 98-138). While players move it may not: coins *)
(* past their date that come back, after the burn of the day, to an        *)
(* account find their burn a replay, which counts as progress, and the     *)
(* same batch is loaded for ever.                                          *)
QuietJobEnds == quiet /\ pc # "off" ~> pc = "off"

=============================================================================
