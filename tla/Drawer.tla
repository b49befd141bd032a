------------------------------- MODULE Drawer -------------------------------
(***************************************************************************)
(* The drawer of a player in the back office (pages/Player/index.tsx): one *)
(* request for the player, and one for the section inside it that shows    *)
(* his wallet (the tab of his other data works the same). The operator     *)
(* goes from one player to the next without waiting; answers may come in   *)
(* any order. An answer of the section counts only for the effect that     *)
(* sent it (`alive`); an answer of the drawer always counts.               *)
(***************************************************************************)
EXTENDS Integers, FiniteSets

CONSTANTS
  Players,
  Nobody,
  MaxClicks   \* bound: requests for a player

VARIABLES
  open, loading,
  currentId,       \* the player clicked on last
  detail,          \* the player shown
  asked,           \* requests for a player under way: number, player, refresh
  clicks,
  wallet, wLoading, wFailed,
  walletAsked,     \* requests of the section under way: player, alive
  acted            \* adjustments: the player meant and the player changed

vars == <<open, loading, currentId, detail, asked, clicks, wallet, wLoading, wFailed, walletAsked,
          acted>>

DrawerAssumption == Nobody \notin Players /\ MaxClicks \in Nat

TypeOK ==
  /\ open \in BOOLEAN /\ loading \in BOOLEAN /\ wLoading \in BOOLEAN /\ wFailed \in BOOLEAN
  /\ {currentId, detail, wallet} \subseteq Players \cup {Nobody} /\ clicks \in 0 .. MaxClicks
  /\ asked \subseteq [n : 1 .. MaxClicks, of : Players, refresh : BOOLEAN]

Init ==
  /\ open = FALSE /\ loading = FALSE /\ currentId = Nobody /\ detail = Nobody /\ asked = {} /\ clicks = 0
  /\ wallet = Nobody /\ wLoading = FALSE /\ wFailed = FALSE /\ walletAsked = {} /\ acted = {}

-----------------------------------------------------------------------------
\* Faulty: the cleanup of the effect is forgotten.
StillAlive(S) == S

\* The cleanup of an effect.
Cleaned(S) == {[r EXCEPT !.alive = FALSE] : r \in S}

\* What is mounted when the drawer shows d with its own state l (o: is open).
Mounted(o, l, d) == IF o /\ ~l THEN d ELSE Nobody
Showing == Mounted(open, loading, detail)

\* Rendering: the section is mounted afresh, changes its player, or is unmounted;
\* only a change of its player runs its effect again, and it keeps its state then.
Render(o, l, d) ==
  LET shows == Mounted(o, l, d) IN
  /\ open' = o /\ loading' = l /\ detail' = d
  /\ IF shows = Showing THEN UNCHANGED <<wallet, wLoading, wFailed, walletAsked>>
     ELSE /\ wallet' = IF Nobody \in {Showing, shows} THEN Nobody ELSE wallet
          /\ wLoading' = (shows # Nobody) /\ wFailed' = FALSE
          /\ walletAsked' = Cleaned(walletAsked) \cup
               (IF shows = Nobody THEN {}
                ELSE {[of |-> shows, alive |-> TRUE]})

Ask(id, refresh) ==
  /\ clicks < MaxClicks /\ clicks' = clicks + 1
  /\ asked' = asked \cup {[n |-> clicks + 1, of |-> id, refresh |-> refresh]}

OpenDetail(id) ==
  /\ currentId' = id
  /\ Render(TRUE, TRUE, Nobody)
  /\ Ask(id, FALSE)
  /\ UNCHANGED acted

Close ==
  /\ open
  /\ Render(FALSE, loading, detail)
  /\ UNCHANGED <<currentId, asked, clicks, acted>>

\* finally: an answer to any request of openDetail ends the loading; that of a
\* refresh only shows what it brings.
Answered(r) ==
  /\ r \in asked
  /\ asked' = asked \ {r}
  /\ \E d \in {r.of, detail} : Render(open, r.refresh /\ loading, d)   \* an error leaves the detail
  /\ UNCHANGED <<currentId, clicks, acted>>

\* getPlayerWallet
WalletAnswered(r) ==
  /\ r \in walletAsked
  /\ walletAsked' = walletAsked \ {r}
  /\ IF r.alive
     THEN /\ wLoading' = FALSE
          /\ \/ wallet' = r.of /\ UNCHANGED wFailed
             \/ wFailed' = TRUE /\ UNCHANGED wallet
     ELSE UNCHANGED <<wallet, wLoading, wFailed>>
  /\ UNCHANGED <<open, loading, currentId, detail, asked, clicks, acted>>

\* The form on a pet's card acts on the player it is shown under; afterwards
\* the player clicked on is asked for again.
Adjust ==
  /\ Showing # Nobody
  /\ acted' = acted \cup {<<currentId, Showing>>}
  /\ Ask(currentId, TRUE)
  /\ UNCHANGED <<open, loading, currentId, detail, wallet, wLoading, wFailed, walletAsked>>

Next ==
  \/ Close \/ Adjust
  \/ \E id \in Players : OpenDetail(id)
  \/ \E r \in asked : Answered(r)
  \/ \E r \in walletAsked : WalletAnswered(r)

Spec == Init /\ [][Next]_vars

-----------------------------------------------------------------------------
(* Properties. *)

(* The balance in the drawer is the balance of the player in the drawer,   *)
(* whatever the order of the answers (pages/Player/index.tsx:749-767).     *)
WalletIsOfShown == Showing # Nobody /\ ~wLoading /\ ~wFailed => wallet = Showing

(* The player in the drawer is the one clicked on last. It does not hold   *)
(* when the answer to an earlier click comes after the answer to a later   *)
(* one: no effect guards openDetail (pages/Player/index.tsx:69-79).        *)
ShownIsMeant == Showing # Nobody /\ asked = {} => Showing = currentId

=============================================================================
