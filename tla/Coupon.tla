------------------------------- MODULE Coupon -------------------------------
(***************************************************************************)
(* Coupons (coupon.service.ts): issueCode burns one and shows a code that  *)
(* lives in Redis for 15 minutes; the shop reads and deletes it in one     *)
(* script. The voucher is in the database, the code and the key under      *)
(* which a repeat finds it are two entries of Redis.                       *)
(***************************************************************************)
EXTENDS Integers, FiniteSets

CONSTANTS
  Issuers, CouponBiz,
  Holding,   \* coupons at the start
  MaxCodes,  \* bound: codes made
  Fates      \* which of "dies", "slow", "forgets" happen

ASSUME CouponAssumption == Holding \in Nat /\ MaxCodes \in Nat

VARIABLES
  fate,
  coupons,   \* held by the player
  charged,   \* vouchers coupon:{bizId}
  code,      \* coupon:code:{code}: "unused", "live", "verified", "expired"
  replay,    \* coupon:biz:{user}:{bizId}: a code, or 0
  shown,     \* codes a client was answered, each with its bizId
  discounts, \* times the till took a code
  run, busy

couponVars == <<fate, coupons, charged, code, replay, shown, discounts, run, busy>>

Codes == 1..MaxCodes
Ready == [at |-> "ready"]

CouponInit ==
  /\ fate \in Fates
  /\ coupons = Holding /\ charged = {}
  /\ code = [c \in Codes |-> "unused"] /\ replay = [b \in CouponBiz |-> 0]
  /\ shown = {} /\ discounts = 0
  /\ run = [r \in Issuers |-> Ready] /\ busy = {}

-----------------------------------------------------------------------------
Is(r, at) == run[r].at = at
Goto(r, at) == run' = [run EXCEPT ![r].at = at] /\ UNCHANGED busy
Quit(r)   == run' = [run EXCEPT ![r] = Ready] /\ busy' = busy \ {r}
AskedFor(b)  == \E q \in Issuers : ~Is(q, "ready") /\ run[q].biz = b
WasShown(b) == \E c \in Codes : <<b, c>> \in shown

\* The interceptor answers a request that was answered until it forgets, and
\* keeps a second copy out while the first runs.
Request(r, b) ==
  /\ Is(r, "ready") /\ busy = {}
  /\ WasShown(b) => "forgets" \in fate
  /\ AskedFor(b) => "slow" \in fate
  /\ busy' = {r} /\ run' = [run EXCEPT ![r] = [at |-> "look", biz |-> b, code |-> 0]]
  /\ UNCHANGED <<fate, coupons, charged, code, replay, shown, discounts>>

Look(r) ==
  /\ Is(r, "look")
  /\ LET biz == run[r].biz
     IN IF replay[biz] # 0
        THEN run' = [run EXCEPT ![r].at = "answer", ![r].code = replay[biz]] /\ UNCHANGED busy
        ELSE IF coupons < 1 THEN Quit(r)
        ELSE Goto(r, "charge")
  /\ UNCHANGED <<fate, coupons, charged, code, replay, shown, discounts>>

\* The voucher of a bizId is posted once; a repeat finds it.
Charge(r) ==
  /\ Is(r, "charge")
  /\ LET biz == run[r].biz
     IN IF biz \in charged THEN Goto(r, "code") /\ UNCHANGED <<coupons, charged>>
        ELSE IF coupons = 0 THEN Quit(r) /\ UNCHANGED <<coupons, charged>>
        ELSE coupons' = coupons - 1 /\ charged' = charged \cup {biz} /\ Goto(r, "code")
  /\ UNCHANGED <<fate, code, replay, shown, discounts>>

SetCode(r) ==
  /\ Is(r, "code")
  /\ \E c \in Codes :
       /\ code[c] = "unused" /\ \A d \in Codes : code[d] = "unused" => c <= d
       /\ code' = [code EXCEPT ![c] = "live"]
       /\ run' = [run EXCEPT ![r].at = "replay", ![r].code = c]
  /\ UNCHANGED <<fate, coupons, charged, replay, shown, discounts, busy>>

SetReplay(r) ==
  /\ Is(r, "replay") /\ Goto(r, "answer")
  /\ replay' = [replay EXCEPT ![run[r].biz] = run[r].code]
  /\ UNCHANGED <<fate, coupons, charged, code, shown, discounts>>

Show(r) ==
  /\ Is(r, "answer") /\ Quit(r)
  /\ shown' = shown \cup {<<run[r].biz, run[r].code>>}
  /\ UNCHANGED <<fate, coupons, charged, code, replay, discounts>>

\* Faulty: the code is read and not deleted.
ReadOnly(c) == UNCHANGED code

Consume(c) == code' = [code EXCEPT ![c] = "verified"]

\* verifyCode: the client shows its code at the till; GET and DEL are one script.
Verify(c) ==
  /\ code[c] = "live" /\ \E b \in CouponBiz : <<b, c>> \in shown
  /\ Consume(c) /\ discounts' = discounts + 1
  /\ UNCHANGED <<fate, coupons, charged, replay, shown, run, busy>>

\* EX 900, each of the two from when it was set.
CodeExpires(c) ==
  /\ code[c] = "live" /\ code' = [code EXCEPT ![c] = "expired"]
  /\ UNCHANGED <<fate, coupons, charged, replay, shown, discounts, run, busy>>

ReplayExpires(b) ==
  /\ replay[b] # 0 /\ replay' = [replay EXCEPT ![b] = 0]
  /\ UNCHANGED <<fate, coupons, charged, code, shown, discounts, run, busy>>

IssueDies(r) ==
  /\ "dies" \in fate /\ ~Is(r, "ready") /\ Quit(r)
  /\ UNCHANGED <<fate, coupons, charged, code, replay, shown, discounts>>

Lapse ==
  /\ "slow" \in fate /\ busy # {} /\ busy' = {}
  /\ UNCHANGED <<fate, coupons, charged, code, replay, shown, discounts, run>>

Issue(r) == Look(r) \/ Charge(r) \/ SetCode(r) \/ SetReplay(r) \/ Show(r)

CouponNext ==
  \/ \E r \in Issuers, b \in CouponBiz : Request(r, b)
  \/ \E r \in Issuers : Issue(r) \/ IssueDies(r)
  \/ \E c \in Codes : Verify(c) \/ CodeExpires(c)
  \/ \E b \in CouponBiz : ReplayExpires(b)
  \/ Lapse

CouponSpec == CouponInit /\ [][CouponNext]_couponVars

-----------------------------------------------------------------------------
\* As many discounts at the till as coupons burned, however a request dies and is
\* sent again; a request repeated a day later, or running twice, gets a second code
\* for its one coupon as long as the player has another.
OneDiscountPerCoupon ==
  fate \subseteq {"dies"} => discounts <= Cardinality(charged)
=============================================================================
