-------------------------------- MODULE Login --------------------------------
(***************************************************************************)
(* Logging in to the back office: the counters of failed attempts in Redis *)
(* (login-throttle.service.ts), the account's row, and who else writes it  *)
(* (admin-auth.service.ts, admin-user.service.ts). One name, one address.  *)
(*                                                                         *)
(* A repository's save() writes every column of the entity it was read     *)
(* into, so a row is read and written back in two steps.                   *)
(***************************************************************************)
EXTENDS Integers, FiniteSets

CONSTANTS
  Procs,     \* requests under way at once
  Limit,     \* failures of the name, of the address: [{"user", "ip"} -> Nat]
  Window,    \* WINDOW_SEC
  Regimes    \* which of "dies", "edits" happen

Keys == {"user", "ip"}

LoginAssumption ==
  /\ Limit \in [Keys -> Nat \ {0}] /\ Window \in Nat \ {0}
  /\ \A R \in Regimes : R \subseteq {"dies", "edits"}

VARIABLES
  regime,
  fails,     \* the counters; 0: no key
  ttl,       \* time they have left; 0: they have no end
  active,    \* admin_user.status
  at,        \* step of each request
  copy,      \* the status it has read
  todo       \* Redis commands a failed login has still to send

vars == <<regime, fails, ttl, active, at, copy, todo>>

None   == [k \in Keys |-> "none"]
Locked(k) == fails[k] >= Limit[k]

\* Bound, never passed: every request has looked before the limit was reached.
Most(k) == Limit[k] + Cardinality(Procs) - 1

TypeOK ==
  /\ regime \in Regimes /\ active \in BOOLEAN
  /\ fails \in [Keys -> Nat] /\ ttl \in [Keys -> 0 .. Window]
  /\ at \in [Procs -> {"out", "read", "verify", "failed", "clear", "save", "edit"}]
  /\ copy \in [Procs -> BOOLEAN] /\ todo \in [Procs -> [Keys -> {"none", "incr", "expire"}]]

Init ==
  /\ regime \in Regimes /\ active = TRUE
  /\ fails = [k \in Keys |-> 0] /\ ttl = [k \in Keys |-> 0]
  /\ at = [p \in Procs |-> "out"] /\ copy = [p \in Procs |-> TRUE] /\ todo = [p \in Procs |-> None]

-----------------------------------------------------------------------------
On(p, step) == at' = [at EXCEPT ![p] = step]
Counters    == <<fails, ttl>>

\* Faulty: a locked name is counted on, and its time begins again.
CountsOn(p) ==
  /\ On(p, "failed") /\ todo' = [todo EXCEPT ![p] = [k \in Keys |-> "incr"]]

\* assertNotLocked throws before anything is counted.
TurnedAway(p) == UNCHANGED <<at, todo>>

Login(p) ==
  /\ at[p] = "out"
  /\ IF \E k \in Keys : Locked(k) THEN TurnedAway(p) ELSE On(p, "read") /\ UNCHANGED todo
  /\ UNCHANGED <<regime, Counters, active, copy>>

Read(p) ==
  /\ at[p] = "read" /\ On(p, "verify")
  /\ copy' = [copy EXCEPT ![p] = active]
  /\ UNCHANGED <<regime, Counters, active, todo>>

\* The password is right or not; an account out of use is not a failure.
Verify(p) ==
  /\ at[p] = "verify"
  /\ \/ On(p, IF copy[p] THEN "clear" ELSE "out") /\ UNCHANGED todo
     \/ On(p, "failed") /\ todo' = [todo EXCEPT ![p] = [k \in Keys |-> "incr"]]
  /\ UNCHANGED <<regime, Counters, active, copy>>

\* bumpCounter of each key: INCR, and EXPIRE as a command of its own.
Incr(p, k) ==
  /\ at[p] = "failed" /\ todo[p][k] = "incr"
  /\ fails' = [fails EXCEPT ![k] = IF @ < Most(k) THEN @ + 1 ELSE @]
  /\ todo' = [todo EXCEPT ![p][k] = "expire"]
  /\ UNCHANGED <<regime, ttl, active, at, copy>>

Expire(p, k) ==
  /\ at[p] = "failed" /\ todo[p][k] = "expire"
  /\ ttl' = [ttl EXCEPT ![k] = IF fails[k] = 0 THEN 0 ELSE Window]
  /\ todo' = [todo EXCEPT ![p][k] = "none"]
  /\ UNCHANGED <<regime, fails, active, at, copy>>

Refuse(p) ==
  /\ at[p] = "failed" /\ todo[p] = None /\ On(p, "out")
  /\ UNCHANGED <<regime, Counters, active, copy, todo>>

\* clearFailures deletes the name's key alone.
Clear(p) ==
  /\ at[p] = "clear" /\ On(p, "save")
  /\ fails' = [fails EXCEPT !["user"] = 0] /\ ttl' = [ttl EXCEPT !["user"] = 0]
  /\ UNCHANGED <<regime, active, copy, todo>>

\* save() of what was read: lastLoginAt, the new password, the roles, and with
\* them the status as it was.
Save(p) ==
  /\ at[p] \in {"save", "edit"} /\ On(p, "out")
  /\ active' = copy[p]
  /\ UNCHANGED <<regime, Counters, copy, todo>>

\* resetPassword and setRoles read the row; update sets the status.
Edit(p) ==
  /\ "edits" \in regime /\ at[p] = "out" /\ On(p, "edit")
  /\ \E s \in {active, TRUE, FALSE} : copy' = [copy EXCEPT ![p] = s]
  /\ UNCHANGED <<regime, Counters, active, todo>>

Die(p) ==
  /\ "dies" \in regime /\ at[p] # "out" /\ On(p, "out")
  /\ todo' = [todo EXCEPT ![p] = None]
  /\ UNCHANGED <<regime, Counters, active, copy>>

Tick ==
  /\ \E k \in Keys : ttl[k] > 0
  /\ fails' = [k \in Keys |-> IF ttl[k] = 1 THEN 0 ELSE fails[k]]
  /\ ttl' = [k \in Keys |-> IF ttl[k] > 0 THEN ttl[k] - 1 ELSE 0]
  /\ UNCHANGED <<regime, active, at, copy, todo>>

Goes(p) == Read(p) \/ Verify(p) \/ Refuse(p) \/ Clear(p) \/ Save(p) \/ \E k \in Keys : Incr(p, k) \/ Expire(p, k)

Next == Tick \/ \E p \in Procs : Login(p) \/ Edit(p) \/ Goes(p) \/ Die(p)

\* Time passes, and a request that is under way goes on.
Spec == Init /\ [][Next]_vars /\ WF_vars(Tick) /\ \A p \in Procs : WF_vars(Goes(p))

-----------------------------------------------------------------------------
(* Properties. *)

(* A name or an address that is locked is unlocked in the end, however     *)
(* often it is tried meanwhile (login-throttle.service.ts:25-28). It does  *)
(* not hold when a process dies between INCR and EXPIRE: the counter then  *)
(* has no end, and nothing that is turned away gives it one.               *)
LockedUnlocks == \A k \in Keys : ("dies" \notin regime /\ Locked(k)) ~> ~Locked(k)

=============================================================================
