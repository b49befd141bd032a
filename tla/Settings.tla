------------------------------ MODULE Settings ------------------------------
(***************************************************************************)
(* The numbers of the game an operator may change: the rows of game_config,*)
(* the snapshot a process keeps of them (game-config.service.ts), and the  *)
(* page that writes them (admin-config.service.ts, pages/Config/Kv).       *)
(*                                                                         *)
(* A load reads the rows in one step and makes a snapshot of them in       *)
(* another; a write stores its row in one and marks the snapshot as stale  *)
(* in another. One process; an hour of its clock is a tick.                *)
(***************************************************************************)
EXTENDS Integers, FiniteSets

CONSTANTS
  Keys,      \* CONFIG_KEYS
  Values,    \* values that pass their key's schema
  Default,   \* the value in the code, for every key
  Bad,       \* a value that does not pass
  None, Asked, \* no row, snapshot, load or write; a load that has read nothing yet
  TTL,       \* CACHE_TTL_MS, in ticks
  MaxWrites, \* bound: writes
  Regimes    \* which of "overlap", "down", "sql" happen

SettingsAssumption ==
  /\ Default \in Values /\ Bad \notin Values /\ None \notin Values \cup {Bad}
  /\ TTL \in Nat \ {0} /\ MaxWrites \in Nat
  /\ \A R \in Regimes : R \subseteq {"overlap", "down", "sql"}

VARIABLES
  regime,
  db,        \* value of each key's row, Bad, or None
  legacy,    \* a row with a key nobody has registered
  up,        \* the database answers
  cache,     \* the snapshot, or None: data, age
  stale,
  inflight,  \* the load under way: None, Asked, or the rows it has read
  desk,      \* the write under way: None, or its step, key and value
  writes,
  served,    \* what was handed out last, or None
  since,     \* ghost: ticks since each row changed, counted up to TTL
  seen,      \* ghost: of each key, what was in force since the start
  loaded     \* ghost: a load has succeeded since the start

vars == <<regime, db, legacy, up, cache, stale, inflight, desk, writes, served, since, seen, loaded>>

Table == [Keys -> Values \cup {Bad, None}]
Data  == [Keys -> Values]

TypeOK ==
  /\ regime \in Regimes /\ db \in Table /\ legacy \in BOOLEAN /\ up \in BOOLEAN /\ stale \in BOOLEAN
  /\ cache \in [data : Data, age : 0 .. TTL] \cup {None}
  /\ inflight \in {None, Asked} \cup Table
  /\ desk \in [at : {"find", "store", "mark"}, key : Keys, value : Values] \cup {None}
  /\ writes \in 0 .. MaxWrites /\ served \in Data \cup {None}
  /\ since \in [Keys -> 0 .. TTL] /\ seen \in [Keys -> SUBSET Values] /\ loaded \in BOOLEAN

\* validate: a row that is missing or does not pass counts as the default, by itself.
InForce(x) == IF x \in {None, Bad} THEN Default ELSE x
Force(t)   == [k \in Keys |-> InForce(t[k])]
Defaults   == [k \in Keys |-> Default]

Init ==
  /\ regime \in Regimes /\ db \in Table /\ legacy \in BOOLEAN /\ up = TRUE
  /\ cache = None /\ stale = FALSE /\ inflight = None /\ desk = None /\ writes = 0 /\ served = None
  /\ since = [k \in Keys |-> TTL] /\ seen = [k \in Keys |-> {InForce(db[k])}] /\ loaded = FALSE

-----------------------------------------------------------------------------
(* Reading.                                                                *)

Fresh == cache # None /\ ~stale /\ cache.age < TTL
Desk  == <<desk, writes, legacy>>
Ghost == <<since, seen>>

\* snapshot(): from memory, or the load that is under way, or a new one.
Serve ==
  /\ Fresh /\ served' = cache.data
  /\ UNCHANGED <<regime, db, up, cache, stale, inflight, Desk, Ghost, loaded>>

Load ==
  /\ ~Fresh /\ inflight = None /\ inflight' = Asked
  /\ "overlap" \in regime \/ desk = None
  /\ UNCHANGED <<regime, db, up, cache, stale, Desk, served, Ghost, loaded>>

Fetch ==
  /\ inflight = Asked /\ up /\ inflight' = db
  /\ UNCHANGED <<regime, db, up, cache, stale, Desk, served, Ghost, loaded>>

\* The snapshot is the rows', whatever was marked meanwhile.
Keep ==
  /\ inflight \notin {None, Asked}
  /\ cache' = [data |-> Force(inflight), age |-> 0] /\ stale' = FALSE
  /\ served' = cache'.data /\ loaded' = TRUE /\ inflight' = None
  /\ UNCHANGED <<regime, db, up, Desk, Ghost>>

\* The database does not answer: the last snapshot does, or the code.
FallBack ==
  /\ inflight = Asked /\ ~up
  /\ served' = IF cache # None THEN cache.data ELSE Defaults
  /\ inflight' = None
  /\ UNCHANGED <<regime, db, up, cache, stale, Desk, Ghost, loaded>>

-----------------------------------------------------------------------------
(* Writing.                                                                *)

Put(t) ==
  /\ db' = t
  /\ since' = [k \in Keys |-> IF t[k] = db[k] THEN since[k] ELSE 0]
  /\ seen' = [k \in Keys |-> seen[k] \cup {InForce(t[k])}]

\* Faulty: the snapshot is thrown away.
Dropped == cache' = None /\ stale' = TRUE

\* invalidate() keeps it for when the database cannot be read.
Marked == stale' = TRUE /\ UNCHANGED cache

\* The page sends the whole value of a key it lists, new keys by their name;
\* a key nobody has registered or a value that does not pass is refused.
Submit(k, v) ==
  /\ writes < MaxWrites /\ desk = None /\ ("overlap" \in regime \/ inflight = None)
  /\ desk' = [at |-> "find", key |-> k, value |-> v] /\ writes' = writes + 1
  /\ UNCHANGED <<regime, db, legacy, up, cache, stale, inflight, served, Ghost, loaded>>

Reset(k) == Submit(k, Default)

Find ==
  /\ desk # None /\ desk.at = "find"
  /\ desk' = IF up THEN [desk EXCEPT !.at = "store"] ELSE None
  /\ UNCHANGED <<regime, db, legacy, up, cache, stale, inflight, writes, served, Ghost, loaded>>

Store ==
  /\ desk # None /\ desk.at = "store"
  /\ IF up THEN Put([db EXCEPT ![desk.key] = desk.value]) /\ desk' = [desk EXCEPT !.at = "mark"]
     ELSE desk' = None /\ UNCHANGED <<db, Ghost>>
  /\ UNCHANGED <<regime, legacy, up, cache, stale, inflight, writes, served, loaded>>

Mark ==
  /\ desk # None /\ desk.at = "mark" /\ desk' = None
  /\ Marked
  /\ UNCHANGED <<regime, db, legacy, up, inflight, writes, served, Ghost, loaded>>

\* Only what nobody has registered can be removed.
RemoveLegacy ==
  /\ legacy /\ up /\ desk = None /\ legacy' = FALSE
  /\ Marked
  /\ UNCHANGED <<regime, db, up, inflight, desk, writes, served, Ghost, loaded>>

-----------------------------------------------------------------------------
(* What happens beside it.                                                 *)

\* Somebody changes a row past the page, or another process does.
WriteElsewhere(k) ==
  /\ "sql" \in regime /\ up /\ writes < MaxWrites /\ writes' = writes + 1
  /\ \E v \in Values \cup {Bad, None} : Put([db EXCEPT ![k] = v])
  /\ UNCHANGED <<regime, legacy, up, cache, stale, inflight, desk, served, loaded>>

Outage ==
  /\ "down" \in regime /\ up' = ~up
  /\ UNCHANGED <<regime, db, cache, stale, inflight, Desk, served, Ghost, loaded>>

\* Bound: a load that has its rows, and a write that is stored, end within the tick.
Tick ==
  /\ inflight \in {None, Asked} /\ (desk # None => desk.at # "mark")
  /\ cache' = IF cache = None THEN None ELSE [cache EXCEPT !.age = IF @ < TTL THEN @ + 1 ELSE TTL]
  /\ since' = [k \in Keys |-> IF since[k] < TTL THEN since[k] + 1 ELSE TTL]
  /\ UNCHANGED <<regime, db, up, stale, inflight, Desk, served, seen, loaded>>

\* onApplicationBootstrap puts in the rows that are missing; a failure is passed over.
Boot ==
  /\ IF up THEN Put([k \in Keys |-> IF db[k] = None THEN Default ELSE db[k]])
     ELSE UNCHANGED <<db, since>>
  /\ seen' = [k \in Keys |-> {InForce(db[k])}]
  /\ cache' = None /\ stale' = (up /\ \E k \in Keys : db[k] = None)
  /\ inflight' = None /\ desk' = None /\ served' = None /\ loaded' = FALSE
  /\ UNCHANGED <<regime, legacy, up, writes>>

Next ==
  \/ Serve \/ Load \/ Fetch \/ Keep \/ FallBack
  \/ \E k \in Keys : Reset(k) \/ WriteElsewhere(k) \/ \E v \in Values : Submit(k, v)
  \/ Find \/ Store \/ Mark \/ RemoveLegacy
  \/ Outage \/ Tick \/ Boot

Spec == Init /\ [][Next]_vars

-----------------------------------------------------------------------------
(* Properties. *)

(* What was saved is in force at once: a snapshot that counts as fresh is  *)
(* the rows', unless somebody wrote past the page, once the write that     *)
(* stored them has been answered (pages/Config/Kv/index.tsx:48, 181). It   *)
(* does not hold when a load overlaps the write: it takes the mark off a   *)
(* snapshot of the rows before.                                            *)
SavedIsInForce ==
  regime \cap {"overlap", "sql"} = {} /\ desk = None /\ Fresh => cache.data = Force(db)

(* Whatever overlaps and whoever writes, nothing older than the time a     *)
(* snapshot lives is handed out as fresh (game-config.service.ts:15-19).   *)
OldIsNotFresh ==
  Fresh => \A k \in Keys : since[k] = TTL => cache.data[k] = InForce(db[k])

(* Once a process has read the rows, nothing is handed out that was never  *)
(* in force: no reward falls back to the code because the database is away *)
(* when a snapshot has just been marked (game-config.service.ts:84-93).    *)
NoJumpBack == loaded => served = None \/ \A k \in Keys : served[k] \in seen[k]

(* The numbers the game is played by are those the operator has set.       *)
SettingsHold == SavedIsInForce /\ OldIsNotFresh /\ NoJumpBack

=============================================================================
