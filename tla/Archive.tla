------------------------------- MODULE Archive -------------------------------
(***************************************************************************)
(* The monthly partitions of asset_entry: partition.service.ts builds them *)
(* ahead, an operator's script (archive-entries.ts) detaches those past    *)
(* the retention window, dumps them to a file and to the object store      *)
(* (s3.ts) and may then drop them. A row of a month without a partition    *)
(* falls into the default partition; PostgreSQL then refuses to build that *)
(* month's partition, and ensure() stops there.                            *)
(*                                                                         *)
(* Both list partitions by table name, so that a detached table still      *)
(* counts as that month's partition.                                       *)
(***************************************************************************)
EXTENDS Integers, FiniteSets, FiniteSetsExt

CONSTANTS
  MaxMonth,   \* bound on the months that pass (one fewer where "brief")
  Ahead,      \* MONTHS_AHEAD
  Keep,       \* RETENTION_MONTHS, --keep-months
  PreBuilt,   \* months the migration built
  MaxUndone,  \* bound: reversals
  Courses     \* which of "keeps", "fails", "dies", "neglects" happen; "brief"

Months == 0 .. MaxMonth + Ahead

ASSUME ArchiveAssumption ==
  /\ {MaxMonth, Ahead, MaxUndone} \subseteq Nat /\ Keep \in Nat \ {0} /\ PreBuilt \in Ahead + 1 .. MaxMonth + Ahead
  /\ \A R \in Courses : R \subseteq {"keeps", "fails", "dies", "neglects", "brief"}

VARIABLES
  course,
  s3,        \* the object store is configured
  month,     \* now
  idle,      \* months since ensure() last ran
  table,     \* of each month: "none", "attached", "detached", "dropped"
  entries,   \* every row ever written: month, and the voucher it is a leg of
  strays,    \* those of them in asset_entry_default
  balance,   \* asset_balance.available of the one account
  undone,    \* months whose voucher has a reversal
  file,      \* of each month: the rows in its local dump
  store,     \* of each month: the rows in its object
  script     \* the script: its step, the months still to do, --drop

archiveVars ==
  <<course, s3, month, idle, table, entries, strays, balance, undone, file, store, script>>

Out    == [at |-> "out", todo |-> {}, drop |-> FALSE]
dbVars == <<course, s3, month, entries, strays, balance, undone>>

ArchiveTypeOK ==
  /\ course \in Courses /\ s3 \in BOOLEAN /\ month \in 0 .. MaxMonth /\ idle \in Nat
  /\ table \in [Months -> {"none", "attached", "detached", "dropped"}]
  /\ strays \subseteq entries /\ undone \subseteq Months /\ balance \in Int
  /\ \A m \in Months : file[m] \subseteq entries /\ store[m] \subseteq entries
  /\ script.at \in {"out", "detach", "dump", "upload", "drop"} /\ script.todo \subseteq Months

ArchiveInit ==
  /\ course \in Courses /\ s3 \in BOOLEAN /\ month = 0 /\ idle = 0
  /\ table = [m \in Months |-> IF m < PreBuilt THEN "attached" ELSE "none"]
  /\ entries = {} /\ strays = {} /\ balance = 0 /\ undone = {}
  /\ file = [m \in Months |-> {}] /\ store = [m \in Months |-> {}]
  /\ script = Out

-----------------------------------------------------------------------------
(* The ledger. *)

RowsOf(m)  == {e \in entries \ strays : e.month = m}
Visible    == {e \in entries : e \in strays \/ table[e.month] = "attached"}
Delta(e)   == IF e.undoes THEN -1 ELSE 1

\* Rows of now(): into the month's partition or, where there is none, the default.
Write(S) ==
  /\ entries' = entries \cup S
  /\ strays' = IF table[month] = "attached" THEN strays ELSE strays \cup S
  /\ balance' = balance + FoldSet(LAMBDA e, x : x + Delta(e), 0, S)

\* One grant a month stands for all that is booked in it.
Book ==
  LET e == [month |-> month, of |-> month, undoes |-> FALSE]
  IN  /\ e \notin entries
      /\ Write({e})
      /\ UNCHANGED <<course, s3, month, idle, table, undone, file, store, script>>

\* reverse() turns round the rows it can see, and books the reversal in any case.
Reverse(m) ==
  LET legs == {e \in Visible : e.of = m /\ ~e.undoes}
  IN  /\ Cardinality(undone) < MaxUndone /\ m \notin undone /\ \E e \in entries : e.of = m
      /\ undone' = undone \cup {m}
      /\ Write({[month |-> month, of |-> m, undoes |-> TRUE] : e \in legs})
      /\ UNCHANGED <<course, s3, month, idle, table, file, store, script>>

NextMonth ==
  /\ month < IF "brief" \in course THEN MaxMonth - 1 ELSE MaxMonth
  /\ "neglects" \in course \/ idle < Ahead
  /\ month' = month + 1 /\ idle' = idle + 1
  /\ UNCHANGED <<course, s3, table, entries, strays, balance, undone, file, store, script>>

-----------------------------------------------------------------------------
(* partition.service.ts *)

\* Faulty: one month short.
ShortWindow == month .. month + Ahead - 1

Window == month .. month + Ahead

\* ensure(), at boot and on the first of the month: in the order of the months,
\* up to one whose rows are in the default partition already.
Ensure ==
  LET missing == {m \in Window : table[m] = "none"}
      barred  == {m \in missing : \E e \in strays : e.month = m}
      built   == {m \in missing : \A k \in barred : m < k}
  IN  /\ table' = [m \in Months |-> IF m \in built THEN "attached" ELSE table[m]]
      /\ idle' = 0
      /\ UNCHANGED <<dbVars, file, store, script>>

-----------------------------------------------------------------------------
(* archive-entries.ts *)

Expired(m) == m < month - Keep
Listed     == {m \in Months : Expired(m) /\ table[m] \in {"attached", "detached"}}
Turn       == Min(script.todo)
Goto(step) == script' = [script EXCEPT !.at = step]

\* --execute, and the phrase is typed in.
StartScript(drop) ==
  /\ script.at = "out" /\ Listed # {}
  /\ IF drop THEN s3 ELSE "keeps" \in course
  /\ script' = [at |-> "detach", todo |-> Listed, drop |-> drop]
  /\ UNCHANGED <<dbVars, idle, table, file, store>>

\* PostgreSQL refuses to detach what is no partition, and the script ends.
Detach ==
  /\ script.at = "detach"
  /\ IF table[Turn] = "attached"
     THEN table' = [table EXCEPT ![Turn] = "detached"] /\ Goto("dump")
     ELSE script' = Out /\ UNCHANGED table
  /\ UNCHANGED <<dbVars, idle, file, store>>

Dump ==
  /\ script.at = "dump"
  /\ file' = [file EXCEPT ![Turn] = RowsOf(Turn)]
  /\ Goto(IF s3 THEN "upload" ELSE "drop")
  /\ UNCHANGED <<dbVars, idle, table, store>>

\* Faulty: an upload that does not check out is logged and passed over.
GoesOn == [script EXCEPT !.at = "drop"]

\* putObjectVerified throws, and the script ends.
Stops == Out

\* The object is there in full and its size is read back.
Upload ==
  /\ script.at = "upload"
  /\ store' = [store EXCEPT ![Turn] = file[Turn]]
  /\ Goto("drop")
  /\ UNCHANGED <<dbVars, idle, table, file>>

\* Refused, cut short or not read back.
UploadFails ==
  /\ script.at = "upload" /\ "fails" \in course
  /\ \E got \in {store[Turn], {}, file[Turn]} : store' = [store EXCEPT ![Turn] = got]
  /\ script' = Stops
  /\ UNCHANGED <<dbVars, idle, table, file>>

Drop ==
  /\ script.at = "drop"
  /\ table' = [table EXCEPT ![Turn] = IF script.drop /\ s3 THEN "dropped" ELSE @]
  /\ script' = IF script.todo = {Turn} THEN Out
               ELSE [script EXCEPT !.at = "detach", !.todo = @ \ {Turn}]
  /\ UNCHANGED <<dbVars, idle, file, store>>

Die ==
  /\ "dies" \in course /\ script.at # "out"
  /\ script' = Out
  /\ UNCHANGED <<dbVars, idle, table, file, store>>

\* What the script tells the operator: a table that was left may be attached
\* again, or dropped once its dump is seen to be whole.
AttachBack(m) ==
  /\ script.at = "out" /\ table[m] = "detached"
  /\ table' = [table EXCEPT ![m] = "attached"]
  /\ UNCHANGED <<dbVars, idle, file, store, script>>

Whole(m) == RowsOf(m) = IF s3 THEN store[m] ELSE file[m]

DropByHand(m) ==
  /\ "keeps" \in course /\ script.at = "out" /\ table[m] = "detached" /\ Whole(m)
  /\ table' = [table EXCEPT ![m] = "dropped"]
  /\ UNCHANGED <<dbVars, idle, file, store, script>>

Script == Detach \/ Dump \/ Upload \/ UploadFails \/ Drop

ArchiveNext ==
  \/ Book \/ NextMonth \/ Ensure \/ Script \/ Die
  \/ \E m \in Months : Reverse(m) \/ AttachBack(m) \/ DropByHand(m)
  \/ \E drop \in BOOLEAN : StartScript(drop)

ArchiveSpec == ArchiveInit /\ [][ArchiveNext]_archiveVars

\* The operator does run the script, and what he has started runs.
FairArchiveSpec == ArchiveSpec /\ WF_archiveVars(Script) /\ WF_archiveVars(StartScript(TRUE))

-----------------------------------------------------------------------------
(* Properties. *)

(* A month whose table is gone is whole in the object store, or in the     *)
(* local dump where no store is configured (archive-entries.ts:13-16): an  *)
(* upload cut short, a death at any step, a table kept by one run and seen *)
(* by the next, a month attached again.                                    *)
NothingLost == \A m \in Months : table[m] = "dropped" => Whole(m)

(* Where the operator runs the script with --drop and nothing fails, every *)
(* month past the window ends in the store with every row of it, none left *)
(* in the default partition: so the months are built early enough though   *)
(* ensure() may miss as many months as it looks ahead. It does not hold    *)
(* once a run has kept a table: DETACH of it fails and ends every run      *)
(* after.                                                                  *)
MonthsAreArchived ==
  \A m \in {k \in Months : k + Keep < MaxMonth} :
    (course = {} /\ s3 /\ Expired(m))
      ~> (table[m] = "dropped" /\ \A e \in entries : e.month = m => e \in store[m])

(* Reconcile invariant 2: what is available is the sum of the entries      *)
(* (reconcile.service.ts:137-150), which it reads from asset_entry. Every  *)
(* detached month breaks it.                                               *)
BalanceIsSumOfEntries == balance = FoldSet(LAMBDA e, x : x + Delta(e), 0, Visible)

=============================================================================
