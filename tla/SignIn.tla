------------------------------- MODULE SignIn -------------------------------
(***************************************************************************)
(* Who a player is (auth.service.ts, wechat.service.ts): he comes by       *)
(* WeChat, by device or by name and password; the back office bans him.    *)
(* Unique indexes on openid, unionid and username are all that stands      *)
(* between two requests at once. save() writes the whole row as it was     *)
(* read.                                                                   *)
(***************************************************************************)
EXTENDS Integers, Sequences, FiniteSets

CONSTANTS
  Procs, MaxUsers,
  Openids, UnionOf,      \* of WeChat; None for a device
  Names, Words,          \* of accounts, apart from Openids
  None,
  Regimes                \* which of "unions", "late", "accounts", "overlap" happen

SignInAssumption ==
  /\ MaxUsers \in Nat \ {0}
  /\ Openids \cap Names = {} /\ None \notin Openids \cup Names \cup Words
  /\ \A R \in Regimes : R \subseteq {"unions", "late", "accounts", "overlap"}

VARIABLES
  regime,
  bound,     \* WeChat tells the unionid
  user,
  run,       \* op, key (openid or name), proof (unionid or password), the row read
  seen,      \* ghost: who signed in as whom
  kept,      \* ghost: names and passwords that were saved, and for whom
  shut       \* ghost: who was banned last, not unbanned

vars == <<regime, bound, user, run, seen, kept, shut>>

Ids     == DOMAIN user
Idle    == [at |-> "idle"]
At(p, s) == run[p].at = s
Goes(p, s, x) == run' = [run EXCEPT ![p] = [@ EXCEPT !.at = s, !.row = x]]
Ends(p) == run' = [run EXCEPT ![p] = Idle]

Init ==
  /\ regime \in Regimes /\ bound = ("unions" \in regime)
  /\ user = <<>> /\ run = [p \in Procs |-> Idle]
  /\ seen = {} /\ kept = {} /\ shut = {}

-----------------------------------------------------------------------------
(* Requests. *)

Request(p, op, key, proof, id) ==
  /\ At(p, "idle")
  /\ run' = [run EXCEPT ![p] = [op |-> op, key |-> key, proof |-> proof, id |-> id,
                                at |-> "start", row |-> None]]
  /\ UNCHANGED <<regime, bound, user, seen, kept, shut>>

SignedIn == {x[2] : x \in seen}

Requests ==
  \E p \in Procs :
    \/ \E o \in Openids :
         /\ "accounts" \in regime => UnionOf[o] = None
         /\ Request(p, "login", o, IF bound THEN UnionOf[o] ELSE None, 0)
    \/ \E n \in Names, w \in Words :
         /\ "accounts" \in regime
         /\ \/ Request(p, "register", n, w, 0) \/ Request(p, "account", n, w, 0)
            \/ \E i \in SignedIn : Request(p, "bind", n, w, i)
    \/ \E i \in SignedIn : "accounts" \in regime /\ Request(p, "offline", None, None, i)
    \/ \E i \in Ids, op \in {"ban", "unban"} :
         /\ "accounts" \in regime
         /\ \A q \in Procs : ~At(q, "idle") => run[q].op \notin {"ban", "unban"} \/ run[q].id # i
         /\ Request(p, op, None, None, i)

-----------------------------------------------------------------------------
(* Reads. *)

With(field, x) == {i \in Ids : x # None /\ user[i][field] = x}

\* Unless handlers overlap, no other is about to save the row.
Settled(i) ==
  "overlap" \in regime \/ \A q \in Procs : At(q, "save") => run[q].id # i

Found(p, i, s) == run' = [run EXCEPT ![p] = [@ EXCEPT !.at = s, !.id = i, !.row = user[i]]]

ByUnion(p) == With("union", run[p].proof)

findUser(p) ==
  /\ At(p, "start") /\ run[p].op = "login"
  /\ \/ \E i \in ByUnion(p) : Found(p, i, "issue")
     \/ ByUnion(p) = {} /\ Goes(p, "openid", None)
  /\ UNCHANGED <<regime, bound, user, seen, kept, shut>>

Fresh(o, u, n, w) == [openid |-> o, union |-> u, name |-> n, word |-> w, banned |-> FALSE]

\* The unionid that has become known is put down.
OrCreateUser(p) ==
  LET mine == With("openid", run[p].key) IN
  /\ At(p, "openid")
  /\ \/ \E i \in mine : LET r == user[i] IN
          IF run[p].proof # None /\ r.union = None
          THEN /\ Settled(i)
               /\ run' = [run EXCEPT ![p] = [@ EXCEPT !.at = "save", !.id = i,
                                                      !.row = [r EXCEPT !.union = run[p].proof]]]
          ELSE Found(p, i, "issue")
     \/ mine = {} /\ Goes(p, "insert", Fresh(run[p].key, run[p].proof, None, None))
  /\ UNCHANGED <<regime, bound, user, seen, kept, shut>>

registerAccount(p) ==
  /\ At(p, "start") /\ run[p].op = "register"
  /\ IF With("name", run[p].key) = {}
     THEN Goes(p, "insert", Fresh(<<"account", run[p].key>>, None, run[p].key, run[p].proof))
     ELSE Ends(p)
  /\ UNCHANGED <<regime, bound, user, seen, kept, shut>>

loginWithAccount(p) ==
  /\ At(p, "start") /\ run[p].op = "account"
  /\ \/ \E i \in With("name", run[p].key) \cap With("word", run[p].proof) : Found(p, i, "issue")
     \/ With("name", run[p].key) \cap With("word", run[p].proof) = {} /\ Ends(p)
  /\ UNCHANGED <<regime, bound, user, seen, kept, shut>>

Edited(p, r) ==
  CASE run[p].op = "bind"    -> [r EXCEPT !.name = run[p].key, !.word = run[p].proof]
    [] run[p].op = "ban"     -> [r EXCEPT !.banned = TRUE]
    [] run[p].op = "unban"   -> [r EXCEPT !.banned = FALSE]
    [] run[p].op = "offline" -> r

\* Faulty: a name is put over another.
Rebinds(p, r) ==
  /\ run[p].op = "bind" => With("name", run[p].key) = {}
  /\ run[p].op = "offline" => ~r.banned

Allowed(p, r) ==
  /\ run[p].op = "bind" => r.name = None /\ With("name", run[p].key) = {}
  /\ run[p].op = "offline" => ~r.banned

\* bindAccount, ban, unban, collectOffline: a row is read, to be saved when hashed or paid.
Read(p) ==
  /\ At(p, "start") /\ run[p].op \in {"bind", "ban", "unban", "offline"} /\ Settled(run[p].id)
  /\ IF Allowed(p, user[run[p].id]) THEN Goes(p, "save", Edited(p, user[run[p].id])) ELSE Ends(p)
  /\ UNCHANGED <<regime, bound, user, seen, kept, shut>>

-----------------------------------------------------------------------------
(* Writes. *)

Unique(r, others) ==
  \A i \in others :
    /\ user[i].openid # r.openid
    /\ r.union # None => user[i].union # r.union
    /\ r.name # None => user[i].name # r.name

Remembers(p, i) ==
  IF run[p].op \in {"register", "bind"} THEN kept \cup {<<run[p].key, run[p].proof, i>>} ELSE kept

Insert(p) ==
  /\ At(p, "insert")
  /\ IF Unique(run[p].row, Ids)
     THEN /\ Cardinality(Ids) < MaxUsers
          /\ user' = Append(user, run[p].row)
          /\ kept' = Remembers(p, Len(user'))
          /\ run' = [run EXCEPT ![p] = [@ EXCEPT !.at = "issue", !.id = Len(user')]]
     ELSE Ends(p) /\ UNCHANGED <<user, kept>>
  /\ UNCHANGED <<regime, bound, seen, shut>>

Save(p) ==
  LET i == run[p].id IN
  /\ At(p, "save")
  /\ IF Unique(run[p].row, Ids \ {i})
     THEN /\ user' = [user EXCEPT ![i] = run[p].row]
          /\ kept' = Remembers(p, i)
          /\ shut' = CASE run[p].op = "ban" -> shut \cup {i} [] run[p].op = "unban" -> shut \ {i}
                       [] OTHER -> shut
          /\ IF run[p].op \in {"login", "bind"} THEN Goes(p, "issue", run[p].row) ELSE Ends(p)
     ELSE Ends(p) /\ UNCHANGED <<user, kept, shut>>
  /\ UNCHANGED <<regime, bound, seen>>

\* By the status that was read.
issueToken(p) ==
  /\ At(p, "issue") /\ Ends(p)
  /\ seen' = IF run[p].row.banned THEN seen ELSE seen \cup {<<run[p].key, run[p].id>>}
  /\ UNCHANGED <<regime, bound, user, kept, shut>>

Die(p) == ~At(p, "idle") /\ Ends(p) /\ UNCHANGED <<regime, bound, user, seen, kept, shut>>

\* The game is bound to the open platform.
Bound ==
  /\ "late" \in regime /\ ~bound /\ bound' = TRUE
  /\ UNCHANGED <<regime, user, run, seen, kept, shut>>

Next ==
  \/ Requests \/ Bound
  \/ \E p \in Procs :
       \/ findUser(p) \/ OrCreateUser(p) \/ registerAccount(p) \/ loginWithAccount(p) \/ Read(p)
       \/ Insert(p) \/ Save(p) \/ issueToken(p) \/ Die(p)

-----------------------------------------------------------------------------
(* Properties. *)

\* By what a player is one: his unionid if WeChat has told it from the start.
Person(key) == IF "unions" \in regime /\ key \in Openids /\ UnionOf[key] # None
               THEN UnionOf[key] ELSE key

\* No player has come by another openid of the same unionid.
Only(key) ==
  key \in Openids =>
    \A i \in Ids : LET o == user[i].openid IN
      o \in Openids \ {key} => UnionOf[o] = None \/ UnionOf[o] # UnionOf[key]

(* auth.service.ts:45-47: whoever signs in is the same player each time,   *)
(* by any app of his, however many of his requests come at once; when the  *)
(* unionid comes late, so long as he has one app.                          *)
OnePlayerEach ==
  \A x, y \in seen :
    /\ Person(x[1]) = Person(y[1]) /\ ("late" \in regime => Only(x[1]))
    /\ (x[1] \in Names => "overlap" \notin regime)
    => x[2] = y[2]

(* auth.service.ts:123-130: a name and password once saved remain the      *)
(* player's own, unless two handlers save his row at once.                 *)
NamesAreKept ==
  "overlap" \notin regime =>
    \A k \in kept : user[k[3]].name = k[1] /\ user[k[3]].word = k[2]

(* user.entity.ts:63: who is banned stays so until unbanned, unless a      *)
(* handler saves the row it read before.                                   *)
BansStay == "overlap" \notin regime => \A i \in Ids : user[i].banned <=> i \in shut

SignInHolds == OnePlayerEach /\ NamesAreKept /\ BansStay
=============================================================================
