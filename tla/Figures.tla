------------------------------ MODULE Figures ------------------------------
(***************************************************************************)
(* The figures operators see: the reconciliation, run every day at 04:10   *)
(* and by a button, with the daily statistics it writes                    *)
(* (reconcile.service.ts, pages/Economy/Issuance), and the trend of the    *)
(* dashboard (admin-stats.service.ts, pages/Dashboard).                    *)
(*                                                                         *)
(* One account, one currency, one reason: an entry puts one on the         *)
(* balance. A day has two halves, before and after 04:10; lots that have   *)
(* run out are burned between them. Old entries leave asset_entry when     *)
(* their month is detached (Archive); here a day at a time.                *)
(***************************************************************************)
EXTENDS Integers, FiniteSets, FiniteSetsExt

CONSTANTS
  NoRow,        \* no statistic, no report
  Days,         \* the days the window reaches back
  MaxHalf, MaxEntries, \* bounds
  Spans,        \* days the dashboard can be asked for
  Regimes       \* which of "spoils", "fails", "archives", "looks" happen

FiguresAssumption ==
  /\ {Days, MaxHalf, MaxEntries} \cup Spans \subseteq Nat /\ Days > 0 /\ Spans # {}
  /\ \A R \in Regimes : R \subseteq {"spoils", "fails", "archives", "looks"}

VARIABLES
  regime,
  now,        \* halves of days gone by
  issued,     \* by half: the entries with delta > 0 of the vouchers that issue
  stat,       \* asset_daily_stat.issued by day
  balance,    \* asset_balance.available
  gone,       \* the halves before this one are detached: no longer in asset_entry
  late,       \* lots that have run out and are not burned
  report,     \* under way: what it has found; how far it is; what was amiss at its start. Or NoRow
  last,       \* ghost: the half of the last statistic
  span, asked, points   \* dashboard: days chosen, requests not answered, span of the points

vars == <<regime, now, issued, stat, balance, gone, late, report, last, span, asked, points>>
Books  == <<issued, balance, gone, late>>
Screen == <<span, asked, points>>

Halves == 0 .. MaxHalf
Day(h) == h \div 2
HalvesOf(d) == {h \in Halves : Day(h) = d}

Init ==
  /\ regime \in Regimes /\ now = 0
  /\ issued = [h \in Halves |-> 0]
  /\ stat = [d \in 0 .. Day(MaxHalf) |-> NoRow] /\ late = FALSE
  /\ balance = 0 /\ gone = 0
  /\ report = NoRow /\ last = NoRow
  /\ span = Min(Spans) /\ points = NoRow
  /\ asked = IF "looks" \in regime THEN {span} ELSE {}

-----------------------------------------------------------------------------
(* The ledger.                                                             *)

SumOver(H) == MapThenSumSet(LAMBDA h : issued[h], H)

Book ==
  /\ SumOver(Halves) < MaxEntries
  /\ issued' = [issued EXCEPT ![now] = @ + 1] /\ balance' = balance + 1
  /\ UNCHANGED <<regime, now, stat, gone, late, report, last, Screen>>

Edited == balance # SumOver(Halves)

\* SQL by hand, with no entry. Bound: once.
EditByHand ==
  /\ "spoils" \in regime /\ ~Edited /\ balance' \in {balance - 1, balance + 1}
  /\ UNCHANGED <<regime, now, issued, stat, gone, late, report, last, Screen>>

\* A day that is older than the window of the statistics.
Detach ==
  /\ "archives" \in regime /\ gone + 2 <= now - 2 * Days
  /\ gone' = gone + 2
  /\ UNCHANGED <<regime, now, issued, stat, balance, late, report, last, Screen>>

\* The rows of asset_entry.
Entries == {h \in Halves : h >= gone}

\* Any time of a day.
LotRunsOut ==
  /\ "spoils" \in regime /\ late' = TRUE
  /\ UNCHANGED <<regime, now, issued, stat, balance, gone, report, last, Screen>>

\* At 04:00 the lots are burned, unless the job fails.
Tick ==
  /\ now < MaxHalf /\ now' = now + 1 /\ report = NoRow
  /\ late' \in IF now % 2 = 0 THEN {FALSE} \cup (IF "fails" \in regime THEN {late} ELSE {})
               ELSE {late}
  /\ UNCHANGED <<regime, issued, stat, balance, gone, report, last, Screen>>

-----------------------------------------------------------------------------
(* run(): eleven queries, each of one moment, and the statistics.          *)

Begin ==
  /\ report = NoRow
  /\ report' = [bad |-> {}, step |-> "sums", edited |-> Edited, late |-> late]
  /\ UNCHANGED <<regime, now, Books, stat, last, Screen>>

\* A query that fails counts as one that found something; the others go on.
Check(k, wrong, next) ==
  /\ report # NoRow /\ report.step = k
  /\ \/ report' = [report EXCEPT !.step = next, !.bad = @ \cup (IF wrong THEN {k} ELSE {})]
     \/ "fails" \in regime /\ report' = [report EXCEPT !.step = next, !.bad = @ \cup {"error"}]
  /\ UNCHANGED <<regime, now, Books, stat, last, Screen>>

\* The balance against the sum of the entries there are: one query.
CheckSums == Check("sums", balance # SumOver(Entries), "lots")
CheckLots == Check("lots", late, "stat")

\* Faulty: it reaches back to yesterday's time of day.
OneDayBack(h) == h > now - 2

\* created_at >= now() - interval '3 days'
InWindow(h) == h >= now - 2 * Days

\* A day with entries of its kind in the window gets their sum, in place of what it had.
Stat ==
  /\ report # NoRow /\ report.step = "stat"
  /\ stat' = [d \in DOMAIN stat |->
                LET sum == SumOver({h \in HalvesOf(d) \cap Entries : InWindow(h)}) IN
                IF sum > 0 THEN sum ELSE stat[d]]
  /\ report' = [report EXCEPT !.step = "done"] /\ last' = now
  /\ UNCHANGED <<regime, now, Books, Screen>>

\* The log, or the answer.
Done ==
  /\ report # NoRow /\ report.step = "done" /\ report' = NoRow
  /\ UNCHANGED <<regime, now, Books, stat, last, Screen>>

Row(d) == IF stat[d] = NoRow THEN 0 ELSE stat[d]

\* dailyStats(): what the page adds up over the last n days.
Summary(n) == MapThenSumSet(Row, {d \in DOMAIN stat : d >= Day(now) - n})

-----------------------------------------------------------------------------
(* The dashboard: what comes late is thrown away.                          *)

Choose ==
  /\ "looks" \in regime
  /\ \E n \in Spans \ {span} : span' = n /\ asked' = asked \cup {n}
  /\ UNCHANGED <<regime, now, Books, stat, report, last, points>>

\* Faulty: what comes late is shown.
NeverOld(n) == TRUE

\* `alive`: the days have not been changed since.
Alive(n) == n = span

\* A request can fail; of two for the same days the later answers for both.
Answered ==
  /\ \E n \in asked :
       /\ asked' = asked \ {n}
       /\ \/ points' = IF Alive(n) THEN n ELSE points
          \/ "fails" \in regime /\ UNCHANGED points
  /\ UNCHANGED <<regime, now, Books, stat, report, last, span>>

Next ==
  \/ Book \/ EditByHand \/ Detach \/ LotRunsOut \/ Tick
  \/ Begin \/ CheckSums \/ CheckLots \/ Stat \/ Done
  \/ Choose \/ Answered

-----------------------------------------------------------------------------
(* Properties. *)

Issued(d) == SumOver(HalvesOf(d))

(* After a run the rows of the days before its own, as far as the window   *)
(* reaches them whole, are the sums of those days (pages/Economy/          *)
(* Issuance:97). An older row may have lost what was booked before that    *)
(* time of its day, when the run three days later wrote it again from the  *)
(* rest (reconcile.service.ts:338-339 has it that nothing changes there);  *)
(* the page never adds up too much.                                        *)
FreshDaysAreWhole ==
  /\ last = now => \A d \in DOMAIN stat :
       d \in Day(now) - Days + 1 .. Day(now) - 1 => Row(d) = Issued(d)
  /\ \A n \in 0 .. Day(now) : Summary(n) <= SumOver({h \in Halves : Day(h) >= Day(now) - n})

(* reconcile.service.ts:49-56: while no month is detached, a report with   *)
(* nothing in it means nobody had changed a balance by hand when it began; *)
(* and every lot was burned. The sums are off for no other reason than an  *)
(* edit or a detached month, whatever was booked while it ran. After a     *)
(* detached month it means less: an edit may hide behind it.               *)
AlarmsAreTrue ==
  report # NoRow /\ report.step = "done" =>
    /\ report.bad = {} => ~report.late /\ (report.edited => gone > 0)
    /\ "sums" \in report.bad => Edited \/ gone > 0
    /\ "lots" \in report.bad => late

(* pages/Dashboard/index.tsx:55-68: when nothing is on its way any more,   *)
(* and nothing has failed, the trend is that of the days last chosen, in   *)
(* whatever order the answers came.                                        *)
TrendIsOfDays == regime = {"looks"} /\ asked = {} => points = span

FiguresHold == FreshDaysAreWhole /\ AlarmsAreTrue /\ TrendIsOfDays

=============================================================================
