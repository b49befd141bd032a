------------------------------- MODULE Grants -------------------------------
(***************************************************************************)
(* What an operator does by hand in the back office: he fills in one form  *)
(* (a grant, a bulk grant, items, an adjustment of a pet, a reversal) and  *)
(* submits it until it has worked. Every submit sends a bizId of its own   *)
(* (services/wallet.ts, player.ts), so what keeps the server from doing it *)
(* twice is only that the operator knows what has been done.               *)
(*                                                                         *)
(* Of one intent. What a reversal of a voucher does is in Ledger.tla.      *)
(***************************************************************************)
EXTENDS Integers, FiniteSets

CONSTANTS
  Players,
  MaxSends,   \* bound: submits
  Kinds,      \* among "grant", "bulk", "items", "adjust", "reverse"
  Regimes     \* whether "lost" happens: an answer, a request or the process is lost

GrantsAssumption ==
  /\ MaxSends \in Nat /\ Kinds \subseteq {"grant", "bulk", "items", "adjust", "reverse"}
  /\ \A R \in Regimes : R \subseteq {"lost"}

VARIABLES
  regime, kind,
  targets,   \* the players the form names
  waits,     \* the submit whose answer the form waits for, 0 for none
  sends,     \* submits so far: their numbers are their bizIds
  req,       \* the server's side of each: its step, players to do, done, failed
  posted,    \* vouchers, by key
  got,       \* how often each player was granted, adjusted or reversed
  told,      \* players the operator was told of as done
  refused    \* players the ledger refuses for now: banned, or short of money

vars == <<regime, kind, targets, waits, sends, req, posted, got, told, refused>>

Biz     == 1 .. MaxSends
NoReq   == [at |-> "none", todo |-> {}, ok |-> {}, bad |-> {}]
Single  == {{p} : p \in Players}

TypeOK ==
  /\ regime \in Regimes /\ kind \in Kinds /\ targets \subseteq Players /\ told \subseteq Players
  /\ waits \in 0 .. MaxSends /\ sends \in 0 .. MaxSends /\ refused \subseteq Players
  /\ \A n \in Biz : /\ req[n].at \in {"none", "runs", "sure", "over"}
                    /\ req[n].todo \cup req[n].ok \cup req[n].bad \subseteq Players
  /\ got \in [Players -> Nat]

Init ==
  /\ regime \in Regimes /\ kind \in Kinds
  /\ targets \in IF kind = "bulk" THEN SUBSET Players \ {{}} ELSE Single
  /\ waits = 0 /\ sends = 0 /\ req = [n \in Biz |-> NoReq] /\ posted = {}
  /\ got = [p \in Players |-> 0] /\ told = {} /\ refused \in SUBSET Players

-----------------------------------------------------------------------------
(* The form. *)

Submit ==
  /\ waits = 0 /\ targets # {} /\ sends < MaxSends
  /\ sends' = sends + 1 /\ waits' = sends + 1
  /\ req' = [req EXCEPT ![sends + 1] = [NoReq EXCEPT !.at = "runs", !.todo = targets]]
  /\ UNCHANGED <<regime, kind, targets, posted, got, told, refused>>

\* An error leaves a form as it is; a bulk report closes it, and the operator
\* opens it again with the players that failed.
Answer ==
  /\ waits # 0 /\ req[waits].at = "over"
  /\ told' = told \cup req[waits].ok
  /\ targets' = req[waits].bad
  /\ waits' = 0
  /\ UNCHANGED <<regime, kind, sends, req, posted, got, refused>>

\* The gateway or the browser gives up; the server may be at it still.
TimeOut ==
  /\ "lost" \in regime /\ waits # 0
  /\ waits' = 0
  /\ UNCHANGED <<regime, kind, targets, sends, req, posted, got, told, refused>>

-----------------------------------------------------------------------------
(* The server. *)

\* Faulty: one key for the whole batch.
KeyOfBatch(n, p) == <<n>>

\* adminGrant and grantItem put the player into the key; an adjustment has none
\* but the request's own, and a reversal is keyed by its voucher and bizId.
KeyOf(n, p) == <<n, p>>

Done(n, p)   == req' = [req EXCEPT ![n].todo = @ \ {p}, ![n].ok = @ \cup {p}]
Failed(n, p) == req' = [req EXCEPT ![n].todo = @ \ {p}, ![n].bad = @ \cup {p}]

Post(n, p) ==
  IF KeyOf(n, p) \in posted THEN UNCHANGED <<posted, got>>
  ELSE posted' = posted \cup {KeyOf(n, p)} /\ got' = [got EXCEPT ![p] = @ + 1]

\* One player after another; a failure is noted and the next one tried, also when
\* only the answer to a commit was lost.
Grant(n) ==
  /\ kind # "reverse" /\ req[n].at = "runs"
  /\ \E p \in req[n].todo :
       IF p \in refused THEN Failed(n, p) /\ UNCHANGED <<posted, got>>
       ELSE Post(n, p) /\ (Done(n, p) \/ ("lost" \in regime /\ Failed(n, p)))
  /\ UNCHANGED <<regime, kind, targets, waits, sends, told, refused>>

\* reverse() looks for an earlier reversal before its transaction.
LookForReversal(n) ==
  /\ kind = "reverse" /\ req[n].at = "runs"
  /\ \E p \in req[n].todo :
       IF got[p] > 0 THEN Failed(n, p) ELSE req' = [req EXCEPT ![n].at = "sure"]
  /\ UNCHANGED <<regime, kind, targets, waits, sends, posted, got, told, refused>>

Reverse(n) ==
  /\ req[n].at = "sure"
  /\ \E p \in req[n].todo :
       /\ Post(n, p)
       /\ req' = [req EXCEPT ![n].at = "runs", ![n].todo = {}, ![n].ok = {p}]
  /\ UNCHANGED <<regime, kind, targets, waits, sends, told, refused>>

Finish(n) ==
  /\ req[n].at = "runs" /\ req[n].todo = {}
  /\ req' = [req EXCEPT ![n].at = "over"]
  /\ UNCHANGED <<regime, kind, targets, waits, sends, posted, got, told, refused>>

\* The request never arrives, or the process dies over it: it is not answered.
Lose(n) ==
  /\ "lost" \in regime /\ req[n].at \in {"runs", "sure"} /\ waits # n
  /\ req' = [req EXCEPT ![n] = NoReq]
  /\ UNCHANGED <<regime, kind, targets, waits, sends, posted, got, told, refused>>

\* A ban lifted, money come in.
Lift(p) ==
  /\ p \in refused
  /\ refused' = refused \ {p}
  /\ UNCHANGED <<regime, kind, targets, waits, sends, req, posted, got, told>>

Next ==
  \/ Submit \/ Answer \/ TimeOut
  \/ \E n \in Biz : Grant(n) \/ LookForReversal(n) \/ Reverse(n) \/ Finish(n) \/ Lose(n)
  \/ \E p \in Players : Lift(p)

Spec == Init /\ [][Next]_vars

-----------------------------------------------------------------------------
(* Properties. *)

(* What the operator is told is so: of a batch that failed in part, the    *)
(* players named as done have been paid and, while every submit is         *)
(* answered, exactly they and each once, however often those that failed   *)
(* are submitted again (admin-wallet.service.ts:257-268).                  *)
ReportIsTrue ==
  /\ \A p \in told : got[p] > 0
  /\ "lost" \notin regime =>
       \A p \in Players : got[p] <= 1 /\ (waits = 0 => (got[p] = 1 <=> p \in told))

(* A form submitted again is not paid again (utils/bizId.ts:4-5). It does  *)
(* not hold once an answer is lost: the second submit has a new bizId.     *)
OneIntentOneGrant == \A p \in Players : got[p] <= 1

=============================================================================
