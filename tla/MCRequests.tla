---------------------------- MODULE MCRequests ----------------------------
(***************************************************************************)
(* What stands between one request and the same request twice: the         *)
(* transaction that posts its vouchers, opened up (Posting), and around it *)
(* the placeholder, the lock and the row of each service (Claim); one of   *)
(* them, whose answer lives in Redis, opened up (Coupon); and the way in   *)
(* of those who work in the back office, who may try no more often than so *)
(* (Login). They share no state; `which` picks one at the start and the    *)
(* others stay as they begin.                                              *)
(***************************************************************************)
EXTENDS Posting, Claim, Coupon, TLC

CONSTANTS p1, p2, p3, r1, r2, b1, b2

VARIABLES which, lRegime, fails, ttl, active, lAt, copy, todo

loginVars    == <<lRegime, fails, ttl, active, lAt, copy, todo>>
requestsVars == <<which, vars, claimVars, couponVars, loginVars>>

-----------------------------------------------------------------------------
(* Transactions the services run at the same time, on three balance rows   *)
(* (1, 2: players, 3: FEE) and the rows of two unique assets (11, 12).     *)

V(k, legs, mints) == [key |-> k, legs |-> legs, mints |-> mints]

\* A sale and a gift across the same two players, and the sale sent twice:
\* the legs come in the caller's order, buyer first.
Sale  == << V("sale", << <<2, -2>>, <<1, 1>>, <<3, 1>> >>, <<>>) >>
Gift  == << V("gift", << <<1, -2>>, <<2, 2>> >>, <<>>) >>
SingleVouchers == p1 :> Sale @@ p2 :> Gift @@ p3 :> Sale

\* bid(): freeze one's own money, then give the outbid player his back; beside
\* it a sale to that player and a draw, each a voucher of its own.
BidOver == << V("bid", << <<1, -2>> >>, <<>>), V("refund", << <<2, 1>> >>, <<>>) >>
Bought  == << V("buy", << <<2, -1>>, <<3, 1>> >>, << <<11, -1>> >>) >>
Drawn   == << V("draw", << <<3, 1>> >>, << <<11, -1>> >>) >>
BidBesideOthers == p1 :> BidOver @@ p2 :> Bought @@ p3 :> Drawn

MCProcs == {p1, p2, p3}
MCRows  == {1, 2, 3}
MCDefs  == {11, 12}
MCStart == 1 :> 2 @@ 2 :> 2 @@ 3 :> 0 @@ 11 :> 1 @@ 12 :> 2
MCMixes == {SingleVouchers, BidBesideOthers}

-----------------------------------------------------------------------------
\* Two requests and two runs: one and its rival, or one and its repeat.
MCRuns     == {r1, r2}
MCBiz      == {b1, b2}
\* A transaction gets stuck where runs are slow; beside that, two things at most.
AnyTrouble ==
  {R \in SUBSET {"dies", "slow", "stuck", "forgets"} :
     ("stuck" \in R => "slow" \in R) /\ (Cardinality(R) > 2 => R = {"dies", "slow", "stuck"})}
EveryService == DOMAIN Service
OneTrouble   == {{"dies"}, {"slow"}, {"forgets"}}

\* Two attempts at once, locked after the second failure of the name, the third
\* of the address.
L == INSTANCE Login WITH
  Procs <- {p1, p2}, Limit <- [k \in {"user", "ip"} |-> IF k = "user" THEN 2 ELSE 3],
  Window <- 2, Regimes <- {{"dies"}, {"edits"}}, regime <- lRegime, at <- lAt

ASSUME RequestsAssumption == L!LoginAssumption

RequestsInit ==
  /\ which \in {"posting", "claim", "coupons", "login"}
  /\ Init /\ ClaimInit /\ CouponInit /\ L!Init
  /\ which # "posting" => plan = SingleVouchers
  /\ which # "claim" => svc = "checkin" /\ regime = {} /\ worth = 1
  /\ which # "coupons" => fate = {"dies"}
  /\ which # "login" => lRegime = {"dies"}

RequestsNext ==
  \/ which = "posting" /\ Next /\ UNCHANGED <<which, claimVars, couponVars, loginVars>>
  \/ which = "claim" /\ ClaimNext /\ UNCHANGED <<which, vars, couponVars, loginVars>>
  \/ which = "coupons" /\ CouponNext /\ UNCHANGED <<which, vars, claimVars, loginVars>>
  \/ which = "login" /\ L!Next /\ UNCHANGED <<which, vars, claimVars, couponVars>>

\* A process that can go on with its transaction, or with a login, does so, and
\* time passes.
RequestsSpec ==
  /\ RequestsInit /\ [][RequestsNext]_requestsVars
  /\ \A p \in MCProcs :
       WF_requestsVars(/\ which = "posting" /\ Proceed(p)
                       /\ UNCHANGED <<which, claimVars, couponVars, loginVars>>)
  /\ \A p \in {p1, p2} :
       WF_requestsVars(/\ which = "login" /\ L!Goes(p)
                       /\ UNCHANGED <<which, vars, claimVars, couponVars>>)
  /\ WF_requestsVars(/\ which = "login" /\ L!Tick
                     /\ UNCHANGED <<which, vars, claimVars, couponVars>>)

-----------------------------------------------------------------------------
(* The properties of Posting, Claim and Coupon are theirs. *)

\* login-throttle.service.ts: what is locked is unlocked in the end.
LockedUnlocks == L!LockedUnlocks
=============================================================================
