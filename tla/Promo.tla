------------------------------- MODULE Promo -------------------------------
(***************************************************************************)
(* Promo codes: the operators make them in batches, switch them off and    *)
(* on, and watch them on a screen (admin-promo.service.ts,                 *)
(* pages/Marketing/Promo); players redeem them (promo.service.ts).         *)
(*                                                                         *)
(* One business day. A redemption looks at the code, takes one of its      *)
(* uses, counts, and is credited, each in a step of its own, and under no  *)
(* lock. Claim has the credit itself; here it is done or not done.         *)
(***************************************************************************)
EXTENDS Integers, FiniteSets, Functions

CONSTANTS
  NoCode,       \* no code, nothing under way, no screen
  Codes, Batches, Players, Redeemers,
  Sizes,        \* codes asked for in a batch
  Uses,         \* uses asked for per code
  FailLimit, OkLimit,    \* promo.guard
  MaxForms, MaxSwitches, \* bounds
  Courses       \* which of "dies", "nocount", "expires", "watches" happen

VARIABLES
  course,
  code,       \* promo_code: batch, max, used, on, expired, mark; mark (ghost): used when switched off
  redeemed,   \* promo_redemption: <<code, player>>
  paid,       \* those credited
  fails, oks, \* of each player today, as Redis counts them
  redeeming,  \* what each handler is at: player, code, next step
  form,       \* the batch being made: batch, max, codes to go, codes made; or NoCode
  forms, switches,
  screen      \* batch summary: uses taken; redemptions, or NoCode: not yet asked for

promoVars == <<course, code, redeemed, paid, fails, oks, redeeming, form, forms, switches, screen>>

PromoCode  == [batch : Batches, max : Uses, used : Nat, on : BOOLEAN, expired : BOOLEAN, mark : Nat]
Steps      == [player : Players, code : Codes, at : {"take", "count", "credit"}]
Forms      == [batch : Batches, max : Uses, togo : Nat, made : SUBSET Codes]
Screens    == [used : [Batches -> Nat], redemptions : [Batches -> Nat] \cup {NoCode}]

ASSUME PromoAssumption ==
  /\ Sizes \cup Uses \cup {FailLimit, OkLimit} \subseteq Nat \ {0}
  /\ {MaxForms, MaxSwitches} \subseteq Nat
  /\ IsFiniteSet(Codes) /\ IsFiniteSet(Players) /\ IsFiniteSet(Redeemers)
  /\ NoCode \notin PromoCode \cup Steps \cup Forms \cup Screens \cup [Batches -> Nat]
  /\ \A R \in Courses : R \subseteq {"dies", "nocount", "expires", "watches"}

PromoTypeOK ==
  /\ course \in Courses /\ code \in [Codes -> PromoCode \cup {NoCode}]
  /\ redeemed \subseteq Codes \X Players /\ paid \subseteq redeemed
  /\ {fails, oks} \subseteq [Players -> Nat] /\ redeeming \in [Redeemers -> Steps \cup {NoCode}]
  /\ form \in Forms \cup {NoCode} /\ screen \in Screens \cup {NoCode}

PromoInit ==
  /\ course \in Courses /\ code = [c \in Codes |-> NoCode] /\ redeemed = {} /\ paid = {}
  /\ fails = [p \in Players |-> 0] /\ oks = [p \in Players |-> 0]
  /\ redeeming = [r \in Redeemers |-> NoCode] /\ form = NoCode /\ forms = 0 /\ switches = 0 /\ screen = NoCode

Office == <<form, forms, switches, screen>>

-----------------------------------------------------------------------------
(* The operators.                                                          *)

Made == {c \in Codes : code[c] # NoCode}
Of(b) == {c \in Made : code[c].batch = b}

Submit ==
  /\ form = NoCode /\ forms < MaxForms /\ forms' = forms + 1
  /\ \E b \in Batches, n \in Sizes, m \in Uses :
       form' = [batch |-> b, max |-> m, togo |-> n, made |-> {}]
  /\ UNCHANGED <<course, code, redeemed, paid, fails, oks, redeeming, switches, screen>>

\* insertUnique: a code nobody has; or none, when it hits on one five times over.
InsertCode ==
  /\ form # NoCode /\ form.togo > 0
  /\ \/ \E c \in Codes \ Made :
          /\ code' = [code EXCEPT ![c] = [batch |-> form.batch, max |-> form.max, used |-> 0,
                                          on |-> TRUE, expired |-> FALSE, mark |-> 0]]
          /\ form' = [form EXCEPT !.togo = @ - 1, !.made = @ \cup {c}]
     \/ /\ Made # {} /\ form' = [form EXCEPT !.togo = @ - 1] /\ UNCHANGED code
  /\ UNCHANGED <<course, redeemed, paid, fails, oks, redeeming, forms, switches, screen>>

\* The dialog with the codes; or the handler dies, and what it has made stays.
Answer ==
  /\ form # NoCode /\ (form.togo = 0 \/ "dies" \in course)
  /\ form' = NoCode
  /\ UNCHANGED <<course, code, redeemed, paid, fails, oks, redeeming, forms, switches, screen>>

Switched(c, on) == [code[c] EXCEPT !.on = on, !.mark = IF on THEN @ ELSE code[c].used]

Switch(C, on) ==
  /\ C # {} /\ switches < MaxSwitches /\ switches' = switches + 1
  /\ code' = [c \in Codes |-> IF c \in C THEN Switched(c, on) ELSE code[c]]
  /\ UNCHANGED <<course, redeemed, paid, fails, oks, redeeming, form, forms, screen>>

\* The page asks for the opposite of what its row shows, or for the whole batch.
ToggleCode  == \E c \in Made, on \in BOOLEAN : Switch({c}, on)
ToggleBatch == \E b \in Batches, on \in BOOLEAN : Switch(Of(b), on)

UsedOf(b)     == SumFunction([c \in Of(b) |-> code[c].used])
RedeemedOf(b) == {x \in redeemed : x[1] \in Of(b)}

\* listBatches: the uses taken, and by a query of its own the redemptions.
OpenScreen ==
  /\ "watches" \in course /\ screen = NoCode
  /\ screen' = [used |-> [b \in Batches |-> UsedOf(b)], redemptions |-> NoCode]
  /\ UNCHANGED <<course, code, redeemed, paid, fails, oks, redeeming, form, forms, switches>>

FillScreen ==
  /\ screen # NoCode
  /\ screen' = IF screen.redemptions = NoCode
               THEN [screen EXCEPT !.redemptions = [b \in Batches |-> Cardinality(RedeemedOf(b))]]
               ELSE NoCode
  /\ UNCHANGED <<course, code, redeemed, paid, fails, oks, redeeming, form, forms, switches>>

\* In red.
Warns(b) == screen.used[b] # screen.redemptions[b]

-----------------------------------------------------------------------------
(* redeem().                                                               *)

Bumped(n)  == IF "nocount" \in course THEN n ELSE n + 1

Failed(p)  == fails' = [fails EXCEPT ![p] = Bumped(@)]
Ended(r)   == redeeming' = [redeeming EXCEPT ![r] = NoCode]
Goes(r, p, c, step) == redeeming' = [redeeming EXCEPT ![r] = [player |-> p, code |-> c, at |-> step]]

\* One who has it already is credited again, whatever has become of the code.
LookUp(r) ==
  /\ redeeming[r] = NoCode
  /\ \E p \in Players, c \in Codes :
       /\ fails[p] < FailLimit
       /\ \/ /\ c \notin Made /\ Failed(p) /\ UNCHANGED redeeming
          \/ /\ <<c, p>> \in redeemed \ paid /\ Goes(r, p, c, "credit") /\ UNCHANGED fails
          \/ /\ c \in Made /\ <<c, p>> \notin redeemed /\ oks[p] < OkLimit
             /\ IF code[c].on /\ ~code[c].expired
                THEN Goes(r, p, c, "take") /\ UNCHANGED fails
                ELSE Failed(p) /\ UNCHANGED redeeming
  /\ UNCHANGED <<course, code, redeemed, paid, oks, Office>>

\* Faulty: only the uses are checked when one is taken.
AnyLeft(c) == code[c].used < code[c].max

\* One UPDATE. The time it compares with is the time of the look.
UseLeft(c) == code[c].on /\ code[c].used < code[c].max

\* The use and the redemption in one transaction: the second of one player's is undone.
Take(r) ==
  /\ redeeming[r] # NoCode /\ redeeming[r].at = "take"
  /\ LET c == redeeming[r].code
         p == redeeming[r].player
     IN IF ~UseLeft(c) THEN Failed(p) /\ Ended(r) /\ UNCHANGED <<code, redeemed>>
        ELSE IF <<c, p>> \in redeemed THEN Ended(r) /\ UNCHANGED <<code, redeemed, fails>>
        ELSE /\ code' = [code EXCEPT ![c].used = @ + 1] /\ redeemed' = redeemed \cup {<<c, p>>}
             /\ Goes(r, p, c, "count") /\ UNCHANGED fails
  /\ UNCHANGED <<course, paid, oks, Office>>

CountUse(r) ==
  /\ redeeming[r] # NoCode /\ redeeming[r].at = "count"
  /\ oks' = [oks EXCEPT ![redeeming[r].player] = Bumped(@)]
  /\ Goes(r, redeeming[r].player, redeeming[r].code, "credit")
  /\ UNCHANGED <<course, code, redeemed, paid, fails, Office>>

CreditCode(r) ==
  /\ redeeming[r] # NoCode /\ redeeming[r].at = "credit"
  /\ paid' = paid \cup {<<redeeming[r].code, redeeming[r].player>>} /\ Ended(r)
  /\ UNCHANGED <<course, code, redeemed, fails, oks, Office>>

RedeemDies(r) ==
  /\ "dies" \in course /\ redeeming[r] # NoCode /\ Ended(r)
  /\ UNCHANGED <<course, code, redeemed, paid, fails, oks, Office>>

Expires ==
  /\ "expires" \in course
  /\ \E c \in Made : ~code[c].expired /\ code' = [code EXCEPT ![c].expired = TRUE]
  /\ UNCHANGED <<course, redeemed, paid, fails, oks, redeeming, Office>>

PromoNext ==
  \/ Submit \/ InsertCode \/ Answer \/ ToggleCode \/ ToggleBatch
  \/ OpenScreen \/ FillScreen \/ Expires
  \/ \E r \in Redeemers : LookUp(r) \/ Take(r) \/ CountUse(r) \/ CreditCode(r) \/ RedeemDies(r)

PromoSpec == PromoInit /\ [][PromoNext]_promoVars

-----------------------------------------------------------------------------
(* Properties. *)

HoldersOf(c) == {p \in Players : <<c, p>> \in redeemed}
CodesOf(p)   == {c \in Codes : <<c, p>> \in redeemed}
Counting(p)  == {r \in Redeemers : redeeming[r] # NoCode /\ redeeming[r].player = p /\ redeeming[r].at = "count"}

(* A use of a code is one player's who has it, there are no more of them   *)
(* than the batch said (promo-code.entity.ts:12-16), nobody takes one of a *)
(* code that is off, whatever he saw when he looked, and only who has one  *)
(* is credited.                                                            *)
UsesAreTaken ==
  /\ \A c \in Made : /\ code[c].used = Cardinality(HoldersOf(c)) /\ code[c].used <= code[c].max
                     /\ ~code[c].on => code[c].used = code[c].mark
  /\ paid \subseteq redeemed

(* promo.config.ts:12-13: redemptions of a player that ran at the same     *)
(* time pass the day's limit together, by as many as there are of them.    *)
DayLimit ==
  course \cap {"dies", "nocount"} = {} => \A p \in Players :
    /\ Cardinality(CodesOf(p)) = oks[p] + Cardinality(Counting(p))
    /\ Cardinality(CodesOf(p)) < OkLimit + Cardinality(Redeemers)

(* admin-promo.service.ts:140-142 shows both numbers, for the uses that    *)
(* were taken and not credited. They are written together: all the screen  *)
(* can ever show are redemptions made while it was being filled.           *)
ScreenNeverLags ==
  screen # NoCode /\ screen.redemptions # NoCode =>
    \A b \in Batches : Warns(b) => screen.used[b] < screen.redemptions[b]

(* All of it: uses of codes are taken as the batch, its switch and the day *)
(* allow, and the screen tells of what was lost (promo.service.ts).        *)
PromoHolds == UsesAreTaken /\ DayLimit /\ ScreenNeverLags

=============================================================================
