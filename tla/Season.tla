------------------------------- MODULE Season -------------------------------
(***************************************************************************)
(* The ladder (pvp.service.ts) and the settlement of a season              *)
(* (pvp-season.service.ts). A player has one pvp_rank row for all seasons; *)
(* a challenge writes it, then pays, then saves the match by which a       *)
(* repeat is recognised. The job of 05:00 reads the rows of the season     *)
(* before, pays the top of each tier and sets a mark in Redis.             *)
(***************************************************************************)
EXTENDS Integers, Sequences, SequencesExt, FiniteSetsExt

CONSTANTS
  Players,
  Biz,       \* the bizIds of each player
  Runs,      \* challenges at work at one time
  Initial,   \* pvp.rank.initialPoint
  KFactor,
  WinCoin, LoseCoin,
  TopN,      \* Seq: players a tier pays, as a function of how many there are
  Stamina,   \* challenges each player has stamina for
  MaxSeason, \* bound
  Regimes    \* which of "dies", "slow", "early", "bans" happen

\* What the parameters are; MC modules assume it of theirs.
SeasonAssumption ==
  /\ {Initial, KFactor, WinCoin, LoseCoin} \subseteq Nat /\ MaxSeason \in Nat \ {0}
  /\ Stamina \in [Players -> Nat]

VARIABLES
  regime,
  season,    \* seasonOf(now): the quarter
  rank,      \* pvp_rank
  matches,   \* pvp_match of each player, in the order they were saved
  stamina,
  paid,      \* vouchers {bizId}:pvp
  prize,     \* vouchers season:{season}:{userId}
  banned,
  run,
  job,       \* "off", "pay" or "mark", with the rows and the grants left
  settled,   \* pvp:season:settled:{season}
  board      \* the rows of each season when it ended

vars == <<regime, season, rank, matches, stamina, paid, prize, banned, run, job, settled, board>>

PvpRank == [season : 1..MaxSeason, point : Nat, wins : Nat, losses : Nat]
PvpMatch == [season : 1..MaxSeason, biz : UNION Range(Biz), delta : Int, win : BOOLEAN]
None  == [none |-> TRUE]
Ready == [at |-> "ready"]
Off   == [at |-> "off"]

TypeOK ==
  /\ regime \in Regimes /\ season \in 1..MaxSeason
  /\ \A u \in Players : rank[u] = None \/ rank[u] \in PvpRank
  /\ \A u \in Players : matches[u] \in Seq(PvpMatch)
  /\ settled \subseteq 0..MaxSeason

Init ==
  /\ regime \in Regimes /\ season = 1
  /\ rank = [u \in Players |-> None] /\ matches = [u \in Players |-> <<>>]
  /\ stamina = Stamina
  /\ paid = {} /\ prize = {} /\ banned = {}
  /\ run = [r \in Runs |-> Ready]
  /\ job = Off /\ settled = {} /\ board = [s \in 1..MaxSeason |-> <<>>]

-----------------------------------------------------------------------------
(* A challenge. *)

At(r, at)   == run[r].at = at
Goto(r, at) == run' = [run EXCEPT ![r].at = at]
Quit(r)     == run' = [run EXCEPT ![r] = Ready]

AtRest(u)   == ~\E r \in Runs : ~At(r, "ready") /\ run[r].user = u

Saved(u, b) == \E m \in Range(matches[u]) : m.biz = b

\* The lock is pvp:{user}; it lapses under a "slow" challenge. A banned player and a
\* request whose match is saved change nothing. Nobody plays on the first morning of a
\* season, before its settlement, unless "early".
Challenge(r, u, b) ==
  /\ At(r, "ready") /\ (AtRest(u) \/ "slow" \in regime)
  /\ u \notin banned /\ ~Saved(u, b)
  /\ season - 1 \in settled \cup {0} \/ "early" \in regime
  /\ run' = [run EXCEPT ![r] = [at |-> "stamina", user |-> u, biz |-> b, season |-> season,
                                delta |-> 0, win |-> FALSE]]
  /\ UNCHANGED <<regime, season, rank, matches, stamina, paid, prize, banned, job, settled, board>>

raceSpendStamina(r) ==
  /\ At(r, "stamina")
  /\ LET u == run[r].user
     IN IF stamina[u] = 0 \/ u \in banned THEN Quit(r) /\ UNCHANGED stamina
        ELSE stamina' = [stamina EXCEPT ![u] = @ - 1] /\ Goto(r, "rank")
  /\ UNCHANGED <<regime, season, rank, matches, paid, prize, banned, job, settled, board>>

\* Faulty: the row of an old season is played on.
AnyRow(u, s) == IF rank[u] = None THEN [season |-> s, point |-> Initial, wins |-> 0, losses |-> 0]
                ELSE [rank[u] EXCEPT !.season = s]

\* A row of another season counts as none.
myRank(u, s) ==
  IF rank[u] # None /\ rank[u].season = s THEN rank[u]
  ELSE [season |-> s, point |-> Initial, wins |-> 0, losses |-> 0]

\* round(K * (score - expected)), the expectation lying between 0 and 1.
Deltas(win) == IF win THEN 0..KFactor ELSE -KFactor..0

Scored(row, d, win) ==
  [row EXCEPT !.point = Max({0, @ + d}),
              !.wins = IF win THEN @ + 1 ELSE @, !.losses = IF win THEN @ ELSE @ + 1]

SaveRank(r) ==
  /\ At(r, "rank")
  /\ \E win \in BOOLEAN : \E d \in Deltas(win) :
       /\ rank' = [rank EXCEPT ![run[r].user] = Scored(myRank(run[r].user, run[r].season), d, win)]
       /\ run' = [run EXCEPT ![r].at = "pay", ![r].delta = d, ![r].win = win]
  /\ UNCHANGED <<regime, season, matches, stamina, paid, prize, banned, job, settled, board>>

Coins(win) == IF win THEN WinCoin ELSE LoseCoin

\* The gateway refuses a reward of nothing, and the ledger a banned account.
Pay(r) ==
  /\ At(r, "pay")
  /\ LET v == <<run[r].user, run[r].biz>>
     IN IF Coins(run[r].win) = 0 \/ (v \notin paid /\ run[r].user \in banned)
        THEN Quit(r) /\ UNCHANGED paid
        ELSE paid' = paid \cup {v} /\ Goto(r, "match")
  /\ UNCHANGED <<regime, season, rank, matches, stamina, prize, banned, job, settled, board>>

\* uq_pvp_match_biz
SaveMatch(r) ==
  /\ At(r, "match") /\ Quit(r)
  /\ LET u == run[r].user
         m == [season |-> run[r].season, biz |-> run[r].biz, delta |-> run[r].delta, win |-> run[r].win]
     IN matches' = IF Saved(u, run[r].biz) THEN matches ELSE [matches EXCEPT ![u] = Append(@, m)]
  /\ UNCHANGED <<regime, season, rank, stamina, paid, prize, banned, job, settled, board>>

-----------------------------------------------------------------------------
(* The settlement. *)

\* The players with a row of season s, the best first.
Standing(s) ==
  LET Of == {u \in Players : rank[u] # None /\ rank[u].season = s}
  IN {q \in [1..Cardinality(Of) -> Of] :
        /\ \A i, j \in DOMAIN q : q[i] = q[j] => i = j
        /\ \A i \in 1..(Len(q) - 1) : rank[q[i]].point >= rank[q[i + 1]].point}

\* One grant after the other: tier by tier, each from the top. The tiers share the
\* key, so a player in two of them is paid the first.
Grants(rows) == FlattenSeq([t \in DOMAIN TopN |-> SubSeq(rows, 1, Min({TopN[t][Len(rows) + 1], Len(rows)}))])

\* Faulty: the job settles the season that is being played.
thisSeasonOf(s) == s

prevSeasonOf(s) == s - 1

StartSettle ==
  /\ job = Off /\ prevSeasonOf(season) > 0 /\ prevSeasonOf(season) \notin settled
  /\ \E rows \in Standing(prevSeasonOf(season)) :
       job' = [at |-> "pay", season |-> prevSeasonOf(season), left |-> Grants(rows)]
  /\ UNCHANGED <<regime, season, rank, matches, stamina, paid, prize, banned, run, settled, board>>

\* The grant throws: the job ends, and starts from the top the next day.
Abort == Off

Grant ==
  /\ job # Off /\ job.left # <<>>
  /\ LET v == <<job.season, Head(job.left)>>
     IN IF v \notin prize /\ v[2] \in banned THEN job' = Abort /\ UNCHANGED prize
        ELSE prize' = prize \cup {v} /\ job' = [job EXCEPT !.left = Tail(@)]
  /\ UNCHANGED <<regime, season, rank, matches, stamina, paid, banned, run, settled, board>>

MarkSettled ==
  /\ job # Off /\ job.left = <<>>
  /\ settled' = settled \cup {job.season} /\ job' = Off
  /\ UNCHANGED <<regime, season, rank, matches, stamina, paid, prize, banned, run, board>>

-----------------------------------------------------------------------------
\* Midnight of a quarter, UTC. Bound: the settlement of the season before is done,
\* and nobody is in the middle of a match (it would play on in the old season).
NextSeason ==
  /\ season < MaxSeason /\ (\A u \in Players : AtRest(u)) /\ job = Off /\ season - 1 \in settled \cup {0}
  /\ season' = season + 1
  /\ \E rows \in Standing(season) : board' = [board EXCEPT ![season] = rows]
  /\ UNCHANGED <<regime, rank, matches, stamina, paid, prize, banned, run, job, settled>>

Ban(u) ==
  /\ "bans" \in regime /\ banned' = banned \cup {u}
  /\ UNCHANGED <<regime, season, rank, matches, stamina, paid, prize, run, job, settled, board>>

Die(r) ==
  /\ "dies" \in regime /\ ~At(r, "ready") /\ Quit(r)
  /\ UNCHANGED <<regime, season, rank, matches, stamina, paid, prize, banned, job, settled, board>>

JobDies ==
  /\ "dies" \in regime /\ job # Off /\ job' = Off
  /\ UNCHANGED <<regime, season, rank, matches, stamina, paid, prize, banned, run, settled, board>>

Step(r) == raceSpendStamina(r) \/ SaveRank(r) \/ Pay(r) \/ SaveMatch(r)
Settle  == StartSettle \/ Grant \/ MarkSettled

Next ==
  \/ \E r \in Runs, u \in Players : \E b \in Biz[u] : Challenge(r, u, b)
  \/ \E r \in Runs : Step(r) \/ Die(r)
  \/ Settle \/ JobDies \/ NextSeason
  \/ \E u \in Players : Ban(u)

Spec == Init /\ [][Next]_vars
\* The scheduler starts the job every day; nothing is assumed about players.
Fairness == WF_vars(Settle)
FairSpec == Spec /\ Fairness

-----------------------------------------------------------------------------
Played(u, s) == SelectSeq(matches[u], LAMBDA m : m.season = s)
Tally(ms)    == FoldLeft(LAMBDA row, m : Scored(row, m.delta, m.win),
                         [season |-> 0, point |-> Initial, wins |-> 0, losses |-> 0], ms)

\* A row's points and counts are those of the season's matches, played one after the
\* other from the initial points; a death between the two writes counts a match that
\* is played again, so then the row has at least as many as there are matches.
RankIsMatches ==
  \A u \in Players : rank[u] # None /\ AtRest(u) /\ "slow" \notin regime =>
    LET t == Tally(Played(u, rank[u].season))
    IN IF regime \subseteq {"early"} /\ LoseCoin > 0
       THEN [rank[u] EXCEPT !.season = 0] = t
       ELSE rank[u].wins + rank[u].losses >= t.wins + t.losses

\* A season is marked as settled only when everyone the last standings put in a tier
\* has been paid, through deaths and refusals; not those who played in the new
\* season first, whose row is of that season by then.
SettledIsPaid ==
  "early" \notin regime =>
    \A s \in settled \ {0} : \A u \in Range(Grants(board[s])) : <<s, u>> \in prize

\* The ladder adds up: to its matches, and to what its settlement pays.
LadderAddsUp == RankIsMatches /\ SettledIsPaid

\* Every season is settled in the end, while the job is not killed and no winner is
\* refused.
SeasonSettles ==
  regime \cap {"dies", "bans"} = {} => (season > 1 ~> season - 1 \in settled)
=============================================================================
