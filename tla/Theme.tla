-------------------------------- MODULE Theme --------------------------------
(***************************************************************************)
(* How the back office looks: the one row of admin_setting                 *)
(* (admin-theme.service.ts), the page that edits it (pages/System/Theme),  *)
(* and what a browser shows of it from its start (app.tsx, utils/theme.ts).*)
(* A theme is sent and stored whole.                                       *)
(***************************************************************************)
EXTENDS Integers, FiniteSets

CONSTANTS
  Pages,      \* browsers with the page open
  Fields,
  Themes,     \* themes: [Fields -> values]; each passes the schema
  Default,    \* ADMIN_THEME_DEFAULT, DEFAULT_THEME
  Presets,    \* THEME_PRESETS
  None,       \* no row, nothing sent
  MaxSaves,   \* bound
  Regimes     \* which of "fails", "overlap" happen

ThemeAssumption ==
  /\ Default \in Presets /\ Presets \subseteq Themes /\ MaxSaves \in Nat
  /\ \A R \in Regimes : R \subseteq {"fails", "overlap"}

VARIABLES
  regime,
  row,       \* the theme stored, or None
  at,        \* of a page: "closed", "loading", "ready"
  saved, draft,   \* useState
  sent,      \* the theme on its way to the server, or None
  got,       \* the answer on its way back, or None
  shown,     \* the theme this browser is painted in
  saves,
  meant      \* ghost: what those who saved have asked for, field by field

vars == <<regime, row, at, saved, draft, sent, got, shown, saves, meant>>

TypeOK ==
  /\ regime \in Regimes /\ row \in Themes \cup {None} /\ at \in [Pages -> {"closed", "loading", "ready"}]
  /\ saved \in [Pages -> Themes] /\ draft \in [Pages -> Themes] /\ shown \in [Pages -> Themes]
  /\ sent \in [Pages -> Themes \cup {None}] /\ got \in [Pages -> Themes \cup {None}]
  /\ saves \in 0 .. MaxSaves /\ meant \in Themes

Init ==
  /\ regime \in Regimes /\ row \in Themes \cup {None}
  /\ at = [p \in Pages |-> "closed"] /\ saves = 0
  /\ saved = [p \in Pages |-> Default] /\ draft = [p \in Pages |-> Default]
  /\ sent = [p \in Pages |-> None] /\ got = [p \in Pages |-> None]
  /\ shown = [p \in Pages |-> Default]
  /\ meant = IF row = None THEN Default ELSE row

-----------------------------------------------------------------------------
\* get(): no row, or none that passes, is the default.
Stored == IF row = None THEN Default ELSE row
Server == <<row, saves, meant>>

\* The application starts or is loaded anew; without an answer it is painted as the code says.
Start(p) ==
  /\ at[p] = "closed"
  /\ \E t \in {Stored} \cup (IF "fails" \in regime THEN {Default} ELSE {}) :
       shown' = [shown EXCEPT ![p] = t]
  /\ UNCHANGED <<regime, Server, at, saved, draft, sent, got>>

Open(p) ==
  /\ at[p] = "closed" /\ at' = [at EXCEPT ![p] = "loading"]
  /\ "overlap" \in regime \/ \A x \in Pages : at[x] = "closed"
  /\ saved' = [saved EXCEPT ![p] = Default] /\ draft' = [draft EXCEPT ![p] = Default]
  /\ UNCHANGED <<regime, Server, sent, got, shown>>

\* Faulty: only the draft is set.
SavedAsBefore(p) == saved[p]

Loaded(p) == Stored

\* A failure ends the loading as well, and leaves the default in the form.
Ready(p) ==
  /\ at[p] = "loading" /\ at' = [at EXCEPT ![p] = "ready"]
  /\ \/ saved' = [saved EXCEPT ![p] = Loaded(p)] /\ draft' = [draft EXCEPT ![p] = Stored]
     \/ "fails" \in regime /\ UNCHANGED <<saved, draft>>
  /\ UNCHANGED <<regime, Server, sent, got, shown>>

Busy(p)  == sent[p] # None \/ got[p] # None
Dirty(p) == draft[p] # saved[p]

\* The controls and presets can be used while a theme is being saved, too.
Edit(p) ==
  /\ at[p] = "ready"
  /\ \E t \in Themes :
       /\ t \in Presets \/ Cardinality({f \in Fields : t[f] # draft[p][f]}) = 1
       /\ draft' = [draft EXCEPT ![p] = t]
  /\ UNCHANGED <<regime, Server, at, saved, sent, got, shown>>

Discard(p) ==
  /\ at[p] = "ready" /\ Dirty(p) /\ ~Busy(p)
  /\ draft' = [draft EXCEPT ![p] = saved[p]]
  /\ UNCHANGED <<regime, Server, at, saved, sent, got, shown>>

Send(p, t) ==
  /\ at[p] = "ready" /\ ~Busy(p) /\ saves < MaxSaves
  /\ sent' = [sent EXCEPT ![p] = t] /\ saves' = saves + 1
  /\ UNCHANGED <<regime, row, meant, at, saved, draft, got, shown>>

Save(p)  == Dirty(p) /\ Send(p, draft[p])
Reset(p) == (Dirty(p) \/ saved[p] # Default) /\ Send(p, Default)

\* What its operator has changed of what he was shown.
Wanted(p) == [f \in Fields |-> IF sent[p][f] # saved[p][f] THEN sent[p][f] ELSE meant[f]]

\* update and reset write the whole row; the answer may be lost.
Store(p) ==
  /\ sent[p] # None /\ sent' = [sent EXCEPT ![p] = None]
  /\ row' = sent[p] /\ meant' = Wanted(p)
  /\ \E t \in {sent[p]} \cup (IF "fails" \in regime THEN {None} ELSE {}) : got' = [got EXCEPT ![p] = t]
  /\ UNCHANGED <<regime, saves, at, saved, draft, shown>>

\* applyGlobally: at once, all over this browser; the form is what was stored, whatever
\* was changed in it since.
Answered(p) ==
  /\ got[p] # None /\ got' = [got EXCEPT ![p] = None]
  /\ saved' = [saved EXCEPT ![p] = got[p]] /\ draft' = [draft EXCEPT ![p] = got[p]]
  /\ shown' = [shown EXCEPT ![p] = got[p]]
  /\ UNCHANGED <<regime, Server, at, sent>>

Close(p) ==
  /\ at[p] # "closed" /\ at' = [at EXCEPT ![p] = "closed"]
  /\ "overlap" \in regime \/ ~Busy(p)
  /\ got' = [got EXCEPT ![p] = None]
  /\ UNCHANGED <<regime, Server, saved, draft, sent, shown>>

Next ==
  \E p \in Pages :
    \/ Start(p) \/ Open(p) \/ Ready(p) \/ Edit(p) \/ Discard(p)
    \/ Save(p) \/ Reset(p) \/ Store(p) \/ Answered(p) \/ Close(p)

Spec == Init /\ [][Next]_vars

-----------------------------------------------------------------------------
(* Properties. *)

(* A save changes the fields its operator has changed and no other, though *)
(* the whole theme is sent (pages/System/Theme/index.tsx:65-79, 105-116).  *)
(* It does not hold when the page was opened twice, nor when the theme     *)
(* could not be loaded: the form then shows the default as what is stored, *)
(* and the first save puts it over what an operator had made.              *)
OnlyWhatWasChanged == regime = {} => Stored = meant

(* The page that says it shows what is in force does (:325-329), and the   *)
(* browser that saved is painted in it, until somebody else saves.         *)
AsInForce ==
  regime = {} => \A p \in Pages : at[p] = "ready" /\ ~Busy(p) => saved[p] = Stored

(* The form, the row and the operator agree.                               *)
ThemeAsMeant == OnlyWhatWasChanged /\ AsInForce

=============================================================================
