----------------------------- MODULE MCExchange -----------------------------
(***************************************************************************)
(* What changes hands for what: orders of the shop of goods (Orders),      *)
(* limited items between players, ESCROW and the market (Instances), and   *)
(* what the back office grants by hand (Grants) to a player it looks at    *)
(* (Drawer).                                                               *)
(* Behind it: the catalogue of what there is (Catalogue), and who may run  *)
(* the game (Rights) and sees which of its pages (Menus), the numbers of   *)
(* the game (Settings), the looks of the back office (Theme), and the      *)
(* figures it shows (Figures). And what a player wears and places of what  *)
(* there is left, and where two place at once (Belongings).                *)
(*                                                                         *)
(* `which` picks one at the start. They share no state: x1, x2, ... stand  *)
(* for the variables of the one that was picked.                           *)
(***************************************************************************)
EXTENDS Orders, Instances, TLC

CONSTANTS a, b, q1, q2, q3, b1, b2, u1, u2, i1, i2, o1, m1, m2, m3, Nobody, NoRow, Everybody, None, Asked

VARIABLES which, x1, x2, x3, x4, x5, x6, x7, x8, x9, x10, x11, x12, x13

shared       == <<x1, x2, x3, x4, x5, x6, x7, x8, x9, x10, x11, x12, x13>>
exchangeVars == <<which, vars, itemVars, shared>>

\* Two requests of one player and one of another for the last item, or for the last two.
Three      == {q1, q2, q3}
Owners     == q1 :> a @@ q2 :> a @@ q3 :> b

\* What goes wrong in a smaller set goes wrong in a larger one: these are the
\* largest sets each property speaks of.
AllButSome == {{"cancels", "dies", "lost"}, {"cancels", "slow", "lost"},
               {"slow", "dies", "lost"}, {"cancels", "slow"}}
OneOrTwo   == {1, 2}
Cancels    == {{"cancels"}}

\* Two players, two limited items, and the handlers that race.
MarketOps == {"gift", "recycle", "list", "sell", "unlist"}
BarterOps == {"gift", "offer", "accept", "cancel", "reject", "expire"}
EveryOp   == MarketOps \cup BarterOps \cup {"reverse"}

Mixtures  == {MarketOps, {"gift", "recycle", "list", "lapses"}, BarterOps, EveryOp}
TwoUsers  == {u1, u2}
TwoItems  == {i1, i2}

\* Three submits for two players.
G == INSTANCE Grants WITH
  Players <- {u1, u2}, MaxSends <- 3, Regimes <- {{}, {"lost"}},
  Kinds <- {"grant", "bulk", "items", "adjust", "reverse"},
  regime <- x1, kind <- x2, targets <- x3, waits <- x4, sends <- x5, req <- x6, posted <- x7,
  got <- x8, told <- x9, refused <- x10

D == INSTANCE Drawer WITH
  Players <- {u1, u2}, MaxClicks <- 4,
  open <- x1, loading <- x2, currentId <- x3, detail <- x4, asked <- x5, clicks <- x6,
  wallet <- x7, wLoading <- x8, wFailed <- x9, walletAsked <- x10, acted <- x11

\* Two vouchers mint two pieces at most, or as many as they like.
K == INSTANCE Catalogue WITH
  Mints <- {b1, b2}, Writers <- {a}, Limits <- {0, 1, 2}, SeedLimit <- 2,
  Regimes <- {{"removes"}, {"overlap"}},
  regime <- x1, def <- x2, cached <- x3, inst <- x4, lock <- x5, at <- x6, kind <- x7,
  wAt <- x8, copy <- x9, diff <- x10

\* Two pages and two administrators: edits of the role one at a time, overlapping, or
\* on lists that are not the table's; changes of administrators, one at a time or not.
Ways == {{"pages"}, {"staff"}, {"staff", "edits", "overlap"}, {"pages", "overlap"}, {"pages", "unlisted"}}

R == INSTANCE Rights WITH
  Perms <- {"admin:write", "role:write"}, Seeded <- {"admin:write", "role:write"},
  Admins <- {u1, u2}, Pages <- {i1, i2}, Regimes <- Ways,
  regime <- x1, perms <- x2, role <- x3, has <- x4, admin <- x5, leaving <- x6, at <- x7,
  list <- x8, box <- x9, base <- x10, meant <- x11

\* A catalogue with a page in it, room for one row more, and two edits.
TwoSeeds ==
  << [path |-> "/system", up |-> NoRow, type |-> "catalog", perm |-> Everybody],
     [path |-> "/system/roles", up |-> "/system", type |-> "menu", perm |-> "role:read"] >>

M == INSTANCE Menus WITH
  Ids <- {m1, m2, m3}, Perms <- {"role:read"}, Open <- Everybody,
  Paths <- {"/system", "/system/roles"}, Under <- {<<"/system", "/system/roles">>},
  Seeds <- TwoSeeds, MaxEdits <- 2,
  menu <- x1, editing <- x2, childless <- x3, edits <- x4

\* One number, two writes, and a snapshot that lives for two ticks.
S == INSTANCE Settings WITH
  Keys <- {"gift_fee"}, Values <- {1, 2}, Default <- 1, Bad <- 0, TTL <- 2, MaxWrites <- 2,
  Regimes <- {{"overlap", "down", "sql"}, {"down"}},
  regime <- x1, db <- x2, legacy <- x3, up <- x4, cache <- x5, stale <- x6, inflight <- x7,
  desk <- x8, writes <- x9, served <- x10, since <- x11, seen <- x12, loaded <- x13

\* Two browsers, a theme of two fields, and two presets.
Looks == [{"color", "layout"} -> {0, 1}]
Plain == [f \in {"color", "layout"} |-> 0]
Fancy == [f \in {"color", "layout"} |-> 1]

T == INSTANCE Theme WITH
  Pages <- {i1, i2}, Fields <- {"color", "layout"}, Themes <- Looks, Default <- Plain,
  Presets <- {Plain, Fancy}, MaxSaves <- 2, Regimes <- {{}, {"fails"}},
  regime <- x1, row <- x2, at <- x3, saved <- x4, draft <- x5, sent <- x6, got <- x7,
  shown <- x8, saves <- x9, meant <- x10

\* Three days and a half, two of them in the window; two issues.
F == INSTANCE Figures WITH
  Days <- 2, MaxHalf <- 6, MaxEntries <- 2, Spans <- {7, 14},
  Regimes <- {{"spoils", "fails"}, {"archives"}, {"looks"}},
  regime <- x1, now <- x2, issued <- x3, stat <- x4, balance <- x5, late <- x6, report <- x7,
  last <- x8, span <- x9, asked <- x10, points <- x11, gone <- x12

\* Two pets, a skin besides the free one, and two sofas for a room of two by two.
B == INSTANCE Belongings WITH
  Runs <- {u1, u2}, Pets <- {i1, i2}, Skins <- {"hat", "plain"}, Free <- {"plain"},
  Furniture <- {"sofa"}, Size <- [f \in {"sofa"} |-> <<2, 1>>], Grid <- <<2, 2>>,
  MaxOwned <- 2, Regimes <- {{}, {"dies"}, {"takes"}},
  regime <- x1, owned <- x2, away <- x3, worn <- x4, layout <- x5, lock <- x6, run <- x7

\* The same with a lock that does not last, or that barter does not take: the sofas
\* alone, in a room of four by one.
L == INSTANCE Belongings WITH
  Runs <- {u1, u2}, Pets <- {}, Skins <- {}, Free <- {},
  Furniture <- {"sofa"}, Size <- [f \in {"sofa"} |-> <<2, 1>>], Grid <- <<4, 1>>,
  MaxOwned <- 2, Regimes <- {{"lapses"}, {"barters"}},
  regime <- x1, owned <- x2, away <- x3, worn <- x4, layout <- x5, lock <- x6, run <- x7

ASSUME ExchangeAssumption ==
  /\ G!GrantsAssumption /\ D!DrawerAssumption
  /\ K!CatalogueAssumption /\ R!RightsAssumption /\ M!MenusAssumption
  /\ S!SettingsAssumption /\ T!ThemeAssumption /\ F!FiguresAssumption
  /\ B!BelongingsAssumption /\ L!BelongingsAssumption

\* Variables nobody needs.
Blank == "blank"
From5  == x5 = Blank /\ x6 = Blank /\ x7 = Blank /\ x8 = Blank /\ x9 = Blank
From12 == x12 = Blank /\ x13 = Blank
From10 == x10 = Blank /\ x11 = Blank /\ From12
NoOrders == /\ Init /\ stock = 1 /\ kind = "physical" /\ regime = {"cancels", "slow"}
            /\ \A u \in Users : wallet[u] = 1
NoItems  == ItemsInit /\ ops = MarketOps
Idle     == NoOrders /\ NoItems
From1    == x1 = Blank /\ x2 = Blank /\ x3 = Blank /\ x4 = Blank /\ From5 /\ From10

ExchangeInit ==
  \/ which = "orders"    /\ Init /\ NoItems /\ From1
  \/ which = "items"     /\ ItemsInit /\ NoOrders /\ From1
  \/ which = "grants"    /\ G!Init /\ Idle /\ x11 = Blank /\ From12
  \/ which = "drawer"    /\ D!Init /\ Idle /\ From12
  \/ which = "catalogue" /\ K!Init /\ Idle /\ x11 = Blank /\ From12
  \/ which = "rights"    /\ R!Init /\ Idle /\ From12
  \/ which = "menus"     /\ M!Init /\ Idle /\ From5 /\ From10
  \/ which = "settings"  /\ S!Init /\ Idle
  \/ which = "theme"     /\ T!Init /\ Idle /\ x11 = Blank /\ From12
  \/ which = "figures"   /\ F!Init /\ Idle /\ x13 = Blank
  \/ which = "wardrobe"  /\ B!Init /\ Idle /\ x8 = Blank /\ x9 = Blank /\ From10
  \/ which = "lapses"    /\ L!Init /\ Idle /\ x8 = Blank /\ x9 = Blank /\ From10

ExchangeNext ==
  \/ which = "orders"    /\ Next /\ UNCHANGED <<which, itemVars, shared>>
  \/ which = "items"     /\ ItemsNext /\ UNCHANGED <<which, vars, shared>>
  \/ which = "grants"    /\ G!Next /\ UNCHANGED <<which, vars, itemVars, x11, x12, x13>>
  \/ which = "drawer"    /\ D!Next /\ UNCHANGED <<which, vars, itemVars, x12, x13>>
  \/ which = "catalogue" /\ K!Next /\ UNCHANGED <<which, vars, itemVars, x11, x12, x13>>
  \/ which = "rights"    /\ R!Next /\ UNCHANGED <<which, vars, itemVars, x12, x13>>
  \/ which = "menus"     /\ M!Next /\ UNCHANGED <<which, vars, itemVars, x5, x6, x7, x8, x9, x10, x11, x12, x13>>
  \/ which = "settings"  /\ S!Next /\ UNCHANGED <<which, vars, itemVars>>
  \/ which = "theme"     /\ T!Next /\ UNCHANGED <<which, vars, itemVars, x11, x12, x13>>
  \/ which = "figures"   /\ F!Next /\ UNCHANGED <<which, vars, itemVars, x13>>
  \/ which = "wardrobe"  /\ B!Next /\ UNCHANGED <<which, vars, itemVars, x8, x9, x10, x11, x12, x13>>
  \/ which = "lapses"    /\ L!Next /\ UNCHANGED <<which, vars, itemVars, x8, x9, x10, x11, x12, x13>>

\* The players and administrators are alike, the items and pages, and the requests of
\* one player; the others go by other names.
Alike == Permutations({u1, u2}) \cup Permutations({i1, i2}) \cup Permutations({q1, q2})

ExchangeSpec == ExchangeInit /\ [][ExchangeNext]_exchangeVars
OrdersAlone  == which = "orders" /\ ExchangeSpec
BulkAlone    == which = "grants" /\ x1 = {"lost"} /\ x2 = "bulk" /\ ExchangeSpec

-----------------------------------------------------------------------------
(* The properties of the instances above; those of Orders and Instances are theirs. *)

\* admin-wallet.service.ts, pages/Economy/Ledger, pages/Player/index.tsx: what the
\* operator is told is so, and the balance shown is that of the player shown.
ReportIsTrue == (which = "grants" => G!ReportIsTrue) /\ (which = "drawer" => D!WalletIsOfShown)
\* utils/bizId.ts: a form that is sent again is not paid again.
OneIntentOneGrant == which = "grants" => G!OneIntentOneGrant
\* ledger.service.ts, admin-items.service.ts: what is minted is numbered as its row
\* in the catalogue says.
CatalogueSound == which = "catalogue" => K!CatalogueSound
\* admin/rbac, menu-tree.ts: rights are what those who manage them have made them; what
\* is seen can be entered, and nothing else.
AccessAsMeant == (which = "rights" => R!RightsAsMeant) /\ (which = "menus" => M!MenuIsWhole)
\* game-config.service.ts, pages/System/Theme: the numbers in force are those the
\* operator has set; form, row and operator agree on the theme.
SettingsHold == (which = "settings" => S!SettingsHold) /\ (which = "theme" => T!ThemeAsMeant)
\* reconcile.service.ts, pages/Dashboard: the days on record are whole, an alarm has a
\* cause, and the trend is that of the days chosen.
FiguresHold == which = "figures" => F!FiguresHold
\* holding-cleanup.service.ts, home.service.ts: nothing that is gone is worn or placed,
\* and the room is sound.
BelongingsHold ==
  (which = "wardrobe" => B!BelongingsHold) /\ (which = "lapses" => L!BelongingsHold)
=============================================================================
