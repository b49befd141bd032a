----------------------------- MODULE MCAccounts -----------------------------
(***************************************************************************)
(* A small ledger (two players and the fee account, one expiring currency, *)
(* and one voucher of every shape the services submit), and beside it, one *)
(* at a time, what it takes for granted: that a player is the same each    *)
(* time he signs in (SignIn), and that an account, once resolved, stays    *)
(* (Accounts).                                                             *)
(*                                                                         *)
(* `which` picks one at the start. They share no state: x1, x2, ... stand  *)
(* for the variables of the one that was picked.                           *)
(***************************************************************************)
EXTENDS Ledger, TLC

CONSTANTS u1, u2, fee, coin, k1, k2, k3, k4, r1, r2, o1, o2, d1, n1, n2, w1, p1, p2, t1, t2, union, None

VARIABLES which, x1, x2, x3, x4, x5, x6, x7

shared      == <<x1, x2, x3, x4, x5, x6, x7>>
accountVars == <<which, vars, shared>>

MCUsers    == {u1, u2}
MCSystems  == {fee}
MCAssets   == {coin}
MCBizKeys  == {k1, k2, k3, k4}
MCBizKeys3 == {k1, k2, k3}
MCRevKeys  == {r1, r2}
OneRevKey  == {r1}

\* The legs of a voucher, given as a set of <<account, delta, frozenDelta>>.
Legs(S) ==
  [k \in Rows |->
     IF \E t \in S : t[1] = k[1]
     THEN LET t == CHOOSE t \in S : t[1] = k[1] IN [d |-> t[2], f |-> t[3]]
     ELSE [d |-> 0, f |-> 0]]

V(kind, exempt, S) == [kind |-> kind, exempt |-> exempt, legs |-> Legs(S)]

MCVouchers ==
  { V("issue", FALSE, {<<u1, 3, 0>>}),
    V("issue", TRUE,  {<<u1, 1, 0>>}),                               \* admin_grant
    V("burn", FALSE, {<<u1, -2, 0>>}),
    V("freeze", FALSE, {<<u1, -2, 2>>}),
    V("freeze", FALSE, {<<u1, 1, -1>>}),                             \* unfreeze
    V("transfer", FALSE, {<<u1, -2, 0>>, <<u2, 1, 0>>, <<fee, 1, 0>>}),
    V("transfer", FALSE, {<<u1, 0, -2>>, <<u2, 1, 0>>, <<fee, 1, 0>>}),
    V("transfer", FALSE, {<<u1, -2, 0>>, <<u2, 2, 0>>, <<fee, 1, 0>>}) } \* fee not deducted

KeySymmetry == Permutations(MCBizKeys) \cup Permutations(MCRevKeys)

\* Two apps of one person and a device; two names for it; two requests at a time.
S == INSTANCE SignIn WITH
  Procs <- {p1, p2}, MaxUsers <- 2, Openids <- {o1, o2, d1},
  UnionOf <- o1 :> union @@ o2 :> union @@ d1 :> None, Names <- {n1, n2}, Words <- {w1},
  Regimes <- {{"unions"}, {"late", "overlap"}, {"accounts"}},
  regime <- x1, bound <- x2, user <- x3, run <- x4, seen <- x5, kept <- x6, shut <- x7

\* Two players, two transactions, one process, and an id for one that is rolled back.
A == INSTANCE Accounts WITH
  Owners <- {n1, n2}, Runs <- {t1, t2}, Processes <- {p1}, MaxId <- 3,
  account <- x1, next <- x2, open <- x3, used <- x4, on <- x5, cache <- x6, entries <- x7

ASSUME PlayersAssumption == S!SignInAssumption /\ A!AccountsAssumption

Blank == "blank"

AccountsInit ==
  \/ /\ which = "ledger" /\ Init
     /\ x1 = Blank /\ x2 = Blank /\ x3 = Blank /\ x4 = Blank /\ x5 = Blank /\ x6 = Blank /\ x7 = Blank
  \/ which = "signin"   /\ S!Init /\ Init
  \/ which = "accounts" /\ A!Init /\ Init

AccountsNext ==
  \/ which = "ledger"   /\ Next   /\ UNCHANGED <<which, shared>>
  \/ which = "signin"   /\ S!Next /\ UNCHANGED <<which, vars>>
  \/ which = "accounts" /\ A!Next /\ UNCHANGED <<which, vars>>

AccountsSpec == AccountsInit /\ [][AccountsNext]_accountVars
LedgerAlone  == which = "ledger" /\ AccountsSpec

-----------------------------------------------------------------------------
(* The properties of the instances above. *)

\* auth.service.ts, account.service.ts: who signs in is the player he was, keeps his name
\* and his ban; and the account of a player is one and stays.
PlayersAreKnown ==
  (which = "signin" => S!SignInHolds) /\ (which = "accounts" => A!KeptIdsStay)
=============================================================================
