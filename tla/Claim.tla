------------------------------- MODULE Claim -------------------------------
(***************************************************************************)
(* The services that do one thing for a player around one voucher: pay out *)
(* a reward once, or charge for something and hand it over. Each is a few  *)
(* separate transactions (read the row, post the voucher, save the row),   *)
(* in an order of its own. Four things stand between a player and doing it *)
(* twice: the request's placeholder in Redis (idempotency.interceptor),    *)
(* the player's lock, the row, and the unique key of the voucher. This     *)
(* module lets each of them give way, to see which services still stand.   *)
(***************************************************************************)
EXTENDS Integers, FiniteSets, Sequences, Functions

CONSTANTS
  Biz,       \* bizIds the client makes up
  Runs,      \* executions of the handler at one time
  Regimes,   \* which of "dies", "slow", "stuck", "forgets" happen
  Names,     \* the services
  MaxWorth,  \* maxRewardCoin of a mini-game
  MaxMade    \* bound: times one bizId may be sent on after it took effect

VARIABLES
  svc,       \* the service looked at
  regime,
  cache,     \* idempotency key of each bizId: "free", "pending", "done"
  held,      \* the run that owns the player's lock, if any
  step,      \* the step a run is about to take, 0 when it is not running
  biz, read, \* its bizId, and the amount it computed
  worth,     \* what the thing is worth by now
  row,       \* the thing's row
  paid,      \* vouchers: [key, amount]
  made       \* times a bizId took effect (an hour off, an egg, a pet)

claimVars == <<svc, regime, cache, held, step, biz, read, worth, row, paid, made>>

-----------------------------------------------------------------------------
(* The services. key: the voucher's key names the thing, or the client's   *)
(* request. again: what a request meets that finds the row already set.    *)

S(steps, key, again, locked) ==
  [steps |-> steps, key |-> key, again |-> again, locked |-> locked]

Checkin     == S(<<"check", "mark", "pay">>,    "thing",   "refuse", TRUE)
ClaimTask   == S(<<"check", "mark", "pay">>,    "thing",   "refuse", TRUE)
DexClaim    == S(<<"check", "insert", "pay">>,  "thing",   "refuse", TRUE)
Like        == S(<<"check", "insert", "pay">>,  "thing",   "replay", FALSE)
Redeem      == S(<<"check", "insert", "pay">>,  "thing",   "resume", FALSE)
Settle      == S(<<"check", "pay", "mark">>,    "thing",   "refuse", TRUE)

EventClaim  == S(<<"check", "pay", "mark">>,    "request", "refuse", TRUE)
Diagnose    == S(<<"check", "pay", "mark">>,    "request", "mine",   TRUE)
Offline     == S(<<"check", "pay", "mark">>,    "request", "refuse", TRUE)
CureAtClinic == S(<<"check", "pay", "mark">>,    "request", "refuse", TRUE)
Unlock      == S(<<"check", "pay", "mark">>,    "request", "refuse", TRUE)

BreedStart  == S(<<"check", "pay", "mark", "lay">>, "request", "egg", TRUE)
Speedup     == S(<<"check", "pay", "make">>,    "request", "free",   TRUE)
UseItem     == S(<<"check", "pay", "make">>,    "request", "free",   TRUE)

Hatch       == S(<<"check", "make", "mark">>,   "thing",   "replay", TRUE)

Service == [checkin |-> Checkin, task |-> ClaimTask, dex |-> DexClaim, like |-> Like,
            promo |-> Redeem, minigame |-> Settle, event |-> EventClaim,
            clinic |-> Diagnose, offline |-> Offline, cure |-> CureAtClinic,
            unlock |-> Unlock, breed |-> BreedStart, speedup |-> Speedup,
            use |-> UseItem, hatch |-> Hatch]

ASSUME ClaimAssumption ==
  /\ Names \subseteq DOMAIN Service
  /\ Biz # {} /\ IsFiniteSet(Biz) /\ {"none", "gone"} \cap Biz = {}
  /\ MaxWorth \in Nat \ {0} /\ MaxMade \in Nat \ {0}
  /\ \A R \in Regimes : "stuck" \in R => "slow" \in R  \* 30 s against 5 s

Steps   == Service[svc].steps
Open    == [by |-> "none", amount |-> 0]
Gone    == [by |-> "gone", amount |-> 0]
IsSet   == row # Open
Amounts == 0..MaxWorth

ClaimTypeOK ==
  /\ svc \in Names /\ regime \in Regimes
  /\ cache \in [Biz -> {"free", "pending", "done"}]
  /\ held \in {{}} \cup {{r} : r \in Runs}
  /\ step \in [Runs -> 0..4] /\ \A r \in Runs : step[r] <= Len(Steps)
  /\ biz \in [Runs -> Biz] /\ read \in [Runs -> Amounts] /\ worth \in Amounts
  /\ row \in [by : Biz, amount : Amounts] \cup {Open, Gone}
  /\ paid \subseteq [key : Biz \cup {"thing"}, amount : Amounts \ {0}]
  /\ made \in [Biz -> Nat]

ClaimInit ==
  /\ svc \in Names /\ regime \in Regimes
  /\ cache = [b \in Biz |-> "free"] /\ held = {} /\ step = [r \in Runs |-> 0]
  /\ biz \in [Runs -> {CHOOSE b \in Biz : TRUE}] /\ read = [r \in Runs |-> 0]
  /\ worth = IF svc = "minigame" THEN 0 ELSE 1
  /\ row = Open /\ paid = {} /\ made = [b \in Biz |-> 0]

-----------------------------------------------------------------------------
At(r, s) == step[r] # 0 /\ Steps[step[r]] = s

Acquired(b) == cache[b] = "free"

\* The interceptor's SET NX, then the lock; a request refused here changes nothing.
Send(r, b) ==
  /\ step[r] = 0 /\ Acquired(b) /\ made[b] < MaxMade
  /\ Service[svc].locked => held = {}
  /\ cache' = [cache EXCEPT ![b] = "pending"]
  /\ held' = IF Service[svc].locked THEN {r} ELSE {}
  /\ step' = [step EXCEPT ![r] = 1] /\ biz' = [biz EXCEPT ![r] = b]
  /\ UNCHANGED <<svc, regime, read, worth, row, paid, made>>

\* Out of the handler: the lock goes if it is still one's own; the placeholder
\* becomes the answer, or is deleted after an error, whoever it belongs to by now.
Leave(r, answer) ==
  /\ step' = [step EXCEPT ![r] = 0] /\ read' = [read EXCEPT ![r] = 0]
  /\ biz' = [biz EXCEPT ![r] = CHOOSE b \in Biz : TRUE]
  /\ held' = held \ {r}
  /\ cache' = [cache EXCEPT ![biz[r]] = answer]

Refused(r) == Leave(r, "free") /\ UNCHANGED <<svc, regime, worth, row, paid, made>>
Replayed(r) == Leave(r, "done") /\ UNCHANGED <<svc, regime, worth, row, paid, made>>

\* On to the next step, or out with the answer.
GoOn(r) ==
  IF step[r] = Len(Steps) THEN Leave(r, "done")
  ELSE step' = [step EXCEPT ![r] = @ + 1] /\ UNCHANGED <<cache, held, biz, read>>

\* The answer to a request that has been answered before, as the row tells it.
Answered(b) ==
  CASE Service[svc].again = "replay" -> IsSet
    [] Service[svc].again = "mine"   -> row.by = b
    [] Service[svc].again = "egg"    -> made[b] > 0
    [] OTHER                         -> FALSE

Check(r) ==
  /\ At(r, "check")
  /\ IF Answered(biz[r]) THEN Replayed(r)
     ELSE IF IsSet /\ Service[svc].again # "resume" THEN Refused(r)
     ELSE /\ step' = [step EXCEPT ![r] = IF IsSet THEN 3 ELSE 2]
          /\ read' = [read EXCEPT ![r] = worth]
          /\ UNCHANGED <<svc, regime, cache, held, biz, worth, row, paid, made>>

\* A mini-game or a case read after its time is closed without a reward.
CheckLate(r) ==
  /\ svc \in {"minigame", "clinic"} /\ At(r, "check") /\ ~IsSet
  /\ row' = Gone
  /\ Leave(r, "free")
  /\ UNCHANGED <<svc, regime, worth, paid, made>>

\* Faulty: the key is the client's, whatever the service.
ClientsKey(b) == b

KeyOf(b) == IF Service[svc].key = "thing" THEN "thing" ELSE b

PaidBefore(k) == \E v \in paid : v.key = k

\* A second voucher of a key is a replay, and nothing is posted for nothing.
Pay(r) ==
  /\ At(r, "pay")
  /\ paid' = IF read[r] = 0 \/ PaidBefore(KeyOf(biz[r])) THEN paid
               ELSE paid \cup {[key |-> KeyOf(biz[r]), amount |-> read[r]]}
  /\ GoOn(r)
  /\ UNCHANGED <<svc, regime, worth, row, made>>

RowOf(r) == [by |-> biz[r], amount |-> read[r]]

\* save: the row as this run knows it, over whatever is there.
Mark(r) ==
  /\ At(r, "mark")
  /\ row' = RowOf(r)
  /\ GoOn(r)
  /\ UNCHANGED <<svc, regime, worth, paid, made>>

\* A new row under a unique index.
Insert(r) ==
  /\ At(r, "insert")
  /\ IF IsSet THEN IF Service[svc].again = "replay" THEN Replayed(r) ELSE Refused(r)
     ELSE /\ row' = RowOf(r)
          /\ GoOn(r)
          /\ UNCHANGED <<svc, regime, worth, paid, made>>

Make(r) ==
  /\ At(r, "make")
  /\ made' = [made EXCEPT ![biz[r]] = @ + 1]
  /\ GoOn(r)
  /\ UNCHANGED <<svc, regime, worth, row, paid>>

\* Faulty: no unique index over the requests of an egg.
LayAnyway(b) == TRUE

Unlaid(b) == made[b] = 0

Lay(r) ==
  /\ At(r, "lay")
  /\ IF Unlaid(biz[r])
     THEN /\ made' = [made EXCEPT ![biz[r]] = @ + 1]
          /\ GoOn(r)
          /\ UNCHANGED <<svc, regime, worth, row, paid>>
     ELSE Refused(r)

Capped(n) == IF n > MaxWorth THEN MaxWorth ELSE n

\* flip, under the same lock as settle: the game is worth more.
Flip ==
  /\ svc = "minigame" /\ row = Open /\ held = {}
  /\ worth' = Capped(worth + 1)
  /\ UNCHANGED <<svc, regime, cache, held, step, biz, read, row, paid, made>>

-----------------------------------------------------------------------------
(* What gives way. *)

\* The process dies and its lock and placeholder run out, or a step of it fails.
RunDies(r) ==
  /\ "dies" \in regime /\ step[r] # 0
  /\ Leave(r, "free")
  /\ UNCHANGED <<svc, regime, worth, row, paid, made>>

\* A run outlives the 5 seconds of its lock.
LockLapses(r) ==
  /\ "slow" \in regime /\ r \in held
  /\ held' = {}
  /\ UNCHANGED <<svc, regime, cache, step, biz, read, worth, row, paid, made>>

\* And then the 30 of its placeholder.
PlaceholderLapses(b) ==
  /\ "stuck" \in regime /\ cache[b] = "pending"
  /\ \A r \in Runs : step[r] # 0 /\ biz[r] = b => r \notin held
  /\ cache' = [cache EXCEPT ![b] = "free"]
  /\ UNCHANGED <<svc, regime, held, step, biz, read, worth, row, paid, made>>

\* A day later the answer is gone and the request may come again.
AnswerForgotten(b) ==
  /\ "forgets" \in regime /\ cache[b] = "done"
  /\ cache' = [cache EXCEPT ![b] = "free"]
  /\ UNCHANGED <<svc, regime, held, step, biz, read, worth, row, paid, made>>

Step(r) == Check(r) \/ CheckLate(r) \/ Pay(r) \/ Mark(r) \/ Insert(r) \/ Make(r) \/ Lay(r)

ClaimNext ==
  \/ \E r \in Runs, b \in Biz : Send(r, b)
  \/ \E r \in Runs : Step(r) \/ RunDies(r) \/ LockLapses(r)
  \/ Flip
  \/ \E b \in Biz : PlaceholderLapses(b) \/ AnswerForgotten(b)

ClaimSpec == ClaimInit /\ [][ClaimNext]_claimVars

-----------------------------------------------------------------------------
Only(R)   == regime \subseteq R
Idle      == \A r \in Runs : step[r] = 0
Effects   == SumFunction(made)
Charges   == {"breed", "speedup", "use"}
MarksFirst == {"checkin", "task", "dex", "like", "promo"}

\* One pet out of one egg, though the pet and the egg's row are two writes.
OnePet == svc = "hatch" /\ Only({"forgets"}) => Effects <= 1

\* One voucher for one thing: whatever gives way where the key names the thing
\* or the row names the request's egg; where the key is the client's bizId and
\* the row is saved after the voucher, only while no run dies or outlives its lock.
PaidOnce ==
  svc \notin {"speedup", "use"} /\ (Service[svc].key = "thing" \/ Only({"forgets"}))
    => Cardinality(paid) <= 1

\* What can be had once is had once: reward or pet.
GrantedOnce == PaidOnce /\ OnePet

\* A row that says the reward was given has its voucher. Services that save the
\* row last keep this through every failure; those that save it first lose the
\* reward when the run dies in between (only promo codes can be resumed).
MarkedIsPaid ==
  (svc \in MarksFirst => Idle /\ Only({"slow", "stuck", "forgets"})) /\ svc # "hatch"
    => (row \notin {Open, Gone} /\ row.amount > 0 => paid # {})

\* The reward a row records is the reward that was paid, though the game goes
\* on until it is settled.
RecordedIsPaid ==
  Only({"forgets"}) /\ row \notin {Open, Gone} /\ row.amount > 0 /\ svc # "hatch" /\ Idle
    => \E v \in paid : v.amount = row.amount

\* What a row says was given was given, and in that amount.
RowTellsTruth == MarkedIsPaid /\ RecordedIsPaid

\* Once, and as the row says.
ClaimsAreTrue == GrantedOnce /\ RowTellsTruth

\* Nothing is handed over that was not charged: an egg never, whatever gives
\* way; an hour off or an item's effect, unless the same request runs twice.
NothingForFree ==
  svc \in Charges /\ (svc = "breed" \/ Only({"slow"})) => Effects <= Cardinality(paid)
=============================================================================
