------------------------------ MODULE Campaign ------------------------------
(***************************************************************************)
(* One task of one event under one key, and one player who works at it:    *)
(* the row of game_event (admin-event.service.ts, pages/Marketing/Events), *)
(* the tasks a process remembers for a while, what it counts of the        *)
(* player's acts (event-progress.service.ts), and the claim                *)
(* (event.service.ts), whose reward is Claim's.                            *)
(*                                                                         *)
(* Counting and claiming read in one step and write in another. A tick is  *)
(* a part of the time the memory lasts.                                    *)
(***************************************************************************)
EXTENDS Integers, FiniteSets

CONSTANTS
  NoRow,      \* no event, no progress, no memory, nothing under way
  Targets,    \* targets a task may have
  TTL,        \* 30_000 ms, in ticks
  MaxTime, MaxActs, MaxEdits,   \* bounds
  Troubles    \* which of "remakes", "retargets", "fails" happen

VARIABLES
  trouble,
  now,
  event,     \* the row: from, to, target (NoRow: it has no such task), enabled; or NoRow
  cache,     \* the target remembered (or NoRow: no such task), and since when; or NoRow
  row,       \* event_progress: progress, claimed; or NoRow
  bump,      \* an act being counted: the target it was told (0: being asked for); or NoRow
  claims,    \* claims under way: the progress they have read
  edits,
  acts,      \* ghost: acts of the player
  could,     \* ghost: those since it was made that looked for tasks when it ran, or less
             \* than TTL after
  should,    \* ghost: those that did when it had run unchanged for TTL
  ran, same  \* ghost: ticks since it last ran, since it last changed; up to TTL

eventVars == <<trouble, now, event, cache, row, bump, claims, edits, acts, could, should, ran, same>>
Ghost == <<acts, could, should, ran, same>>

Events ==
  [from : 0 .. MaxTime, to : 0 .. MaxTime, target : Targets \cup {NoRow}, enabled : BOOLEAN]
Rows     == [progress : Nat, claimed : BOOLEAN]
Memories == [target : Targets \cup {NoRow}, at : 0 .. MaxTime]

ASSUME CampaignAssumption ==
  /\ Targets \subseteq Nat \ {0} /\ TTL \in Nat \ {0} /\ {MaxTime, MaxActs, MaxEdits} \subseteq Nat
  /\ NoRow \notin Nat \cup Events \cup Rows \cup Memories
  /\ \A R \in Troubles : R \subseteq {"remakes", "retargets", "fails"}

EventTypeOK ==
  /\ trouble \in Troubles /\ now \in 0 .. MaxTime /\ event \in Events \cup {NoRow}
  /\ cache \in Memories \cup {NoRow} /\ row \in Rows \cup {NoRow}
  /\ bump \in {0, NoRow} \cup Targets /\ claims \subseteq Nat /\ edits \in 0 .. MaxEdits
  /\ {acts, could, should} \subseteq 0 .. MaxActs /\ {ran, same} \subseteq 0 .. TTL

EventInit ==
  /\ trouble \in Troubles /\ now = 0 /\ event = NoRow /\ cache = NoRow /\ row = NoRow
  /\ bump = NoRow /\ claims = {} /\ edits = 0
  /\ acts = 0 /\ could = 0 /\ should = 0 /\ ran = TTL /\ same = 0

-----------------------------------------------------------------------------
\* In [startsAt, endsAt), enabled, and the task is in its payload.
RunsAt(e, t) ==
  e # NoRow /\ e.enabled /\ e.from <= t /\ t < e.to /\ e.target # NoRow

Active(e) == RunsAt(e, now)

Smaller(a, b) == IF a < b THEN a ELSE b

\* Bound: a count or a claim under way ends within the tick.
Tick ==
  /\ now < MaxTime /\ bump = NoRow /\ claims = {} /\ now' = now + 1
  /\ ran' = IF Active(event) THEN 1 ELSE Smaller(ran + 1, TTL)
  /\ same' = IF Active(event) = RunsAt(event, now + 1) THEN Smaller(same + 1, TTL) ELSE 0
  /\ UNCHANGED <<trouble, event, cache, row, bump, claims, edits, acts, could, should>>

-----------------------------------------------------------------------------
(* The operators.                                                          *)

Changed ==
  /\ edits < MaxEdits /\ edits' = edits + 1 /\ same' = 0
  /\ ran' = IF Active(event) THEN 0 ELSE ran
  /\ UNCHANGED <<trouble, now, cache, row, bump, claims, acts, should>>

\* create and update refuse an end that is not after the start.
Sound(e) == e.from < e.to

\* The form sends every field, but no payload when its text is empty: the old one stays.
Filled(e, old) == IF e.target = NoRow THEN [e EXCEPT !.target = old] ELSE e

Create ==
  /\ event = NoRow /\ Changed
  /\ "remakes" \in trouble \/ edits = 0
  /\ \E e \in Events : Sound(e) /\ event' = Filled(e, NoRow)
  /\ could' = 0

\* Whatever its players have done stays with them.
Update ==
  /\ event # NoRow /\ Changed
  /\ \E e \in Events :
       /\ Sound(e) /\ event' = Filled(e, event.target)
       /\ "retargets" \in trouble \/ event'.target = event.target
  /\ UNCHANGED could

\* No progress is removed with the event.
Remove == event # NoRow /\ Changed /\ event' = NoRow /\ UNCHANGED could

-----------------------------------------------------------------------------
(* bump(): after an act that has succeeded.                                *)

\* Faulty: what is remembered is remembered for good.
ForEver == cache # NoRow

Remembered == cache # NoRow /\ now - cache.at < TTL

Told(t) ==
  /\ bump' = t
  /\ could' = IF Active(event) \/ ran < TTL THEN could + 1 ELSE could
  /\ should' = IF Active(event) /\ same = TTL THEN should + 1 ELSE should

Act ==
  /\ bump = NoRow /\ acts < MaxActs /\ acts' = acts + 1
  /\ IF Remembered THEN Told(cache.target) ELSE bump' = 0 /\ UNCHANGED <<could, should>>
  /\ UNCHANGED <<trouble, now, event, cache, row, claims, edits, ran, same>>

\* activeTasks: the tasks that run now, or the memory that somebody has made meanwhile.
Ask ==
  /\ bump = 0
  /\ cache' = [target |-> IF Active(event) THEN event.target ELSE NoRow, at |-> now]
  /\ Told(cache'.target)
  /\ UNCHANGED <<trouble, now, event, row, claims, edits, acts, ran, same>>

\* INSERT ... ON CONFLICT DO UPDATE: up to the target it was told.
Count ==
  /\ bump \in Targets /\ bump' = NoRow
  /\ row' = IF row = NoRow THEN [progress |-> Smaller(1, bump), claimed |-> FALSE]
            ELSE [row EXCEPT !.progress = Smaller(bump, @ + 1)]
  /\ UNCHANGED <<trouble, now, event, cache, claims, edits, Ghost>>

\* An error is logged and passed over.
Fail ==
  /\ "fails" \in trouble /\ bump # NoRow /\ bump' = NoRow
  /\ UNCHANGED <<trouble, now, event, cache, row, claims, edits, Ghost>>

Boot ==
  /\ cache # NoRow /\ bump = NoRow /\ cache' = NoRow
  /\ UNCHANGED <<trouble, now, event, row, bump, claims, edits, Ghost>>

-----------------------------------------------------------------------------
(* claim(), under the player's lock: which may run out, so that several    *)
(* are under way.                                                          *)

Find ==
  /\ Active(event)
  /\ row # NoRow /\ row.progress >= event.target /\ ~row.claimed
  /\ claims' = claims \cup {row.progress}
  /\ UNCHANGED <<trouble, now, event, cache, row, bump, edits, Ghost>>

\* The reward is granted; then save() writes the columns that differ from what was read.
\* Another claim may have read the same.
Mark(read) ==
  /\ read \in claims /\ claims' \in {claims, claims \ {read}}
  /\ row' = [progress |-> read, claimed |-> TRUE]
  /\ UNCHANGED <<trouble, now, event, cache, bump, edits, Ghost>>

EventNext ==
  \/ Tick \/ Create \/ Update \/ Remove
  \/ Act \/ Ask \/ Count \/ Fail \/ Boot
  \/ Find \/ \E read \in claims : Mark(read)

EventSpec == EventInit /\ [][EventNext]_eventVars

-----------------------------------------------------------------------------
(* Properties. *)

Progress == IF row = NoRow THEN 0 ELSE row.progress

(* Nothing is counted but acts done while the event ran, or less than 30   *)
(* seconds later, each once: a reward is for at least its target of them   *)
(* (event-progress.service.ts:17-19). An event made anew under an old key  *)
(* begins with the progress of the old.                                    *)
OnlyActsCount ==
  "remakes" \notin trouble =>
    /\ Progress <= could
    /\ row # NoRow /\ row.claimed => could >= row.progress

(* An act made 30 seconds or more after the event began or was changed is  *)
(* counted, up to the target, whatever is remembered, restarted or claimed *)
(* meanwhile; unless the database fails, or the target is changed, by an   *)
(* edit or by making the event anew: an act counted under a lower target   *)
(* cuts off what was done before.                                          *)
EveryActCounts ==
  /\ trouble = {} /\ bump = NoRow
  /\ event # NoRow /\ event.target # NoRow
  => Progress >= Smaller(should, event.target)

(* Both: what is counted is what was done.                                 *)
ActsCount == OnlyActsCount /\ EveryActCounts

=============================================================================
