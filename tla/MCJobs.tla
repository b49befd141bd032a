------------------------------- MODULE MCJobs -------------------------------
(***************************************************************************)
(* What is done by the clock: the daily burn of expired lots (Expire), the *)
(* settlement of a season beside the challenges of its ladder (Season),    *)
(* and the months of the entries, built ahead and archived (Archive). They *)
(* share no state; `which` picks one at the start and the others stay as   *)
(* they begin.                                                             *)
(***************************************************************************)
EXTENDS Expire, Archive, TLC

CONSTANTS r1, r2, b1, b2, u1, u2

VARIABLES
  which,
  regime, season, rank, matches, stamina, paid, prize, banned, run, sJob, settled, board

seasonVars == <<regime, season, rank, matches, stamina, paid, prize, banned, run, sJob,
                settled, board>>
jobsVars   == <<which, vars, seasonVars, archiveVars>>

\* Two accounts and a batch of one, so that a run takes several batches.
MCAccounts == {1, 2}

\* Two players; the first tier pays the best one, the second tier the two best. Where
\* runs die, each sends one bizId until it is saved.
TwoBiz   == u1 :> {b1, b2} @@ u2 :> {b1}
OneBiz   == u1 :> {b1} @@ u2 :> {b1}
TwoTiers == << <<0, 1, 1>>, <<0, 1, 2>> >>
Breath   == u1 :> 2 @@ u2 :> 1

S == INSTANCE Season WITH
  Players <- {u1, u2}, Biz <- TwoBiz, Runs <- {r1, r2}, Initial <- 1, KFactor <- 1,
  WinCoin <- 2, LoseCoin <- 1, TopN <- TwoTiers, Stamina <- Breath, MaxSeason <- 2,
  Regimes <- {{"slow"}, {"early"}, {"bans"}}, job <- sJob

D == INSTANCE Season WITH
  Players <- {u1, u2}, Biz <- OneBiz, Runs <- {r1, r2}, Initial <- 1, KFactor <- 1,
  WinCoin <- 2, LoseCoin <- 1, TopN <- TwoTiers, Stamina <- Breath, MaxSeason <- 2,
  Regimes <- {{"dies"}}, job <- sJob

\* Five months, four where something goes wrong; one kept beside the present one, one
\* built ahead.
MCCourses == {{}, {"brief", "keeps", "fails", "dies"}, {"brief", "neglects", "dies"}}

ASSUME JobsAssumption == S!SeasonAssumption /\ D!SeasonAssumption

JobsInit ==
  /\ which \in {"expire", "season", "deaths", "archive"}
  /\ Init /\ ArchiveInit
  /\ IF which = "deaths" THEN D!Init ELSE S!Init
  /\ which # "expire" => quiet /\ live = [a \in MCAccounts |-> 1]
  /\ which \in {"expire", "archive"} => regime = {"slow"}
  /\ which # "archive" => course = {} /\ s3

JobsNext ==
  \/ which = "expire" /\ Next /\ UNCHANGED <<which, seasonVars, archiveVars>>
  \/ which = "season" /\ S!Next /\ UNCHANGED <<which, vars, archiveVars>>
  \/ which = "deaths" /\ D!Next /\ UNCHANGED <<which, vars, archiveVars>>
  \/ which = "archive" /\ ArchiveNext /\ UNCHANGED <<which, vars, seasonVars>>

\* The scheduler starts each job, the operator the script, and the process runs
\* it; players need not move.
JobsSpec ==
  /\ JobsInit /\ [][JobsNext]_jobsVars
  /\ WF_jobsVars(which = "expire" /\ Step /\ UNCHANGED <<which, seasonVars, archiveVars>>)
  /\ WF_jobsVars(which = "season" /\ S!Settle /\ UNCHANGED <<which, vars, archiveVars>>)
  /\ WF_jobsVars(which = "archive" /\ Script /\ UNCHANGED <<which, vars, seasonVars>>)
  /\ WF_jobsVars(which = "archive" /\ StartScript(TRUE) /\ UNCHANGED <<which, vars, seasonVars>>)

\* The archive where nothing fails.
ArchiveAlone == which = "archive" /\ course = {} /\ JobsSpec

-----------------------------------------------------------------------------
(* The properties of the instances above; those of Expire and Archive are theirs. *)

\* pvp.service.ts, pvp-season.service.ts: a row of the ladder is the sum of its
\* season's matches, and a season marked as settled has been paid out.
LadderAddsUp == which \in {"season", "deaths"} => S!LadderAddsUp
\* pvp-season.service.ts: every season is settled in the end.
SeasonSettles == S!SeasonSettles
=============================================================================
