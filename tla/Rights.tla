------------------------------- MODULE Rights -------------------------------
(***************************************************************************)
(* Who may do what in the back office: the permissions, one ordinary role, *)
(* the administrators (admin/rbac, admin-access.service.ts), the page that *)
(* edits the role (pages/System/Role), and the seeding at every start      *)
(* (admin-bootstrap.service.ts).                                           *)
(*                                                                         *)
(* save() of an entity whose permissions were read with it replaces the    *)
(* role's permissions by those, whatever they have become since; of an     *)
(* entity whose row is gone it inserts the row again. super_admin passes   *)
(* every check (RolesGuard), so its own rows of permissions do not matter. *)
(***************************************************************************)
EXTENDS Integers, FiniteSets

CONSTANTS
  Perms,      \* permissions there may ever be
  Seeded,     \* SEED_PERMISSIONS
  Admins,     \* administrators there may be
  Pages,      \* open pages
  Regimes     \* which of "pages", "staff", "edits", "overlap", "unlisted" happen

Manage == "admin:write"   \* the permission to change administrators

RightsAssumption ==
  /\ Manage \in Seeded /\ Seeded \subseteq Perms
  /\ \A R \in Regimes : R \subseteq {"pages", "staff", "edits", "overlap", "unlisted"}

VARIABLES
  regime,
  perms,     \* admin_permission
  role,      \* the row of the role exists
  has,       \* its permissions
  admin,     \* admin_user: status (or "none"), roles
  leaving,   \* administrators found not to be the last
  at, list, box,   \* of a page: its step, the permissions it has listed, the boxes ticked
  base,      \* the role as the page was told
  meant      \* ghost: what those who edited the role asked for, in the order of their saves

vars == <<regime, perms, role, has, admin, leaving, at, list, box, base, meant>>

Account == [status : {"none", "active", "disabled"}, super : BOOLEAN, holds : BOOLEAN]
NoAdmin  == [status |-> "none", super |-> FALSE, holds |-> FALSE]
First   == [status |-> "active", super |-> TRUE, holds |-> FALSE]

TypeOK ==
  /\ regime \in Regimes /\ perms \subseteq Perms /\ role \in BOOLEAN /\ has \subseteq perms
  /\ admin \in [Admins -> Account] /\ leaving \subseteq Admins
  /\ at \in [Pages -> {"idle", "open", "find", "save"}] /\ list \in [Pages -> SUBSET Perms]
  /\ box \in [Pages -> SUBSET Perms] /\ base \in [Pages -> SUBSET Perms] /\ meant \subseteq Perms

Init ==
  /\ regime \in Regimes
  /\ perms = Seeded /\ role \in BOOLEAN /\ has \in SUBSET perms /\ meant = has
  /\ ~role => has = {}
  /\ admin = [a \in Admins |-> NoAdmin] /\ leaving = {}
  /\ at = [o \in Pages |-> "idle"] /\ list = [o \in Pages |-> {}]
  /\ box = [o \in Pages |-> {}] /\ base = [o \in Pages |-> {}]

-----------------------------------------------------------------------------
\* RolesGuard and the buttons of the pages: super_admin, or the permission through a role.
Has(a, p) == admin[a].super \/ (admin[a].holds /\ p \in has)

\* resolveAccess: only of an administrator in use.
Allowed(p) == \E a \in Admins : admin[a].status = "active" /\ Has(a, p)

Goes(o, step) == at' = [at EXCEPT ![o] = step]
Page == <<at, list, box, base>>
Role == <<perms, role, has, meant>>
Staff == <<admin, leaving>>

\* Pages are at work, and nobody else is at the role, unless overlapping edits are looked at.
Free(o) == "pages" \in regime /\ ("overlap" \in regime \/ \A x \in Pages \ {o} : at[x] = "idle")

-----------------------------------------------------------------------------
(* The page of the role.                                                   *)

\* listPermissions: its failure is swallowed and leaves the list empty.
Mount(o) ==
  /\ "pages" \in regime /\ at[o] = "idle" /\ list' = [list EXCEPT ![o] = perms]
  /\ UNCHANGED <<regime, Role, Staff, at, box, base>>

\* Faulty: the role is not asked for again; the boxes are as they were left.
AsLeft(o) == box[o]

\* openPermModal asks for the role.
Fetched(o) == has

Open(o) ==
  /\ Allowed("role:write") /\ at[o] = "idle" /\ role /\ Free(o) /\ Goes(o, "open")
  /\ list[o] # perms => "unlisted" \in regime
  /\ box' = [box EXCEPT ![o] = Fetched(o)] /\ base' = [base EXCEPT ![o] = box'[o]]
  /\ UNCHANGED <<regime, Role, Staff, list>>

Tick(o, p) ==
  /\ at[o] = "open" /\ p \in list[o]
  /\ box' = [box EXCEPT ![o] = IF p \in @ THEN @ \ {p} ELSE @ \cup {p}]
  /\ UNCHANGED <<regime, Role, Staff, at, list, base>>

Cancel(o) ==
  /\ at[o] = "open" /\ Goes(o, "idle") /\ base' = [base EXCEPT ![o] = {}]
  /\ UNCHANGED <<regime, Role, Staff, list, box>>

\* onOk sends the ticked ones the page has listed.
Submit(o) ==
  /\ at[o] = "open" /\ Goes(o, "find")
  /\ box' = [box EXCEPT ![o] = @ \cap list[o]]
  /\ UNCHANGED <<regime, Role, Staff, list, base>>

\* setPermissions reads the role and the permissions that exist of those sent; update
\* (of the name) reads the role with its permissions.
Find(o) ==
  /\ at[o] = "find"
  /\ IF role THEN Goes(o, "save") /\ box' = [box EXCEPT ![o] = @ \cap perms] /\ UNCHANGED base
     ELSE Goes(o, "idle") /\ base' = [base EXCEPT ![o] = {}] /\ UNCHANGED box
  /\ UNCHANGED <<regime, Role, Staff, list>>

Rename(o) ==
  /\ Allowed("role:write") /\ at[o] = "idle" /\ role /\ Free(o) /\ Goes(o, "save")
  /\ box' = [box EXCEPT ![o] = has] /\ base' = [base EXCEPT ![o] = has]
  /\ UNCHANGED <<regime, Role, Staff, list>>

\* A permission deleted meanwhile breaks the foreign key: nothing is saved.
Save(o) ==
  /\ at[o] = "save" /\ Goes(o, "idle") /\ base' = [base EXCEPT ![o] = {}]
  /\ IF box[o] \subseteq perms
     THEN /\ has' = box[o] /\ role' = TRUE
          /\ meant' = (meant \ ((base[o] \cap list[o]) \ box[o])) \cup (box[o] \ base[o])
     ELSE UNCHANGED <<has, role, meant>>
  /\ UNCHANGED <<regime, perms, Staff, list, box>>

\* A new role has another id: bound, the pages have let go of the old one.
CreateRole ==
  /\ Allowed("role:write") /\ ~role /\ \A o \in Pages : at[o] = "idle"
  /\ role' = TRUE /\ has' = {} /\ meant' = {}
  /\ UNCHANGED <<regime, perms, Staff, Page>>

\* The rows that join it to permissions and administrators go with it.
RemoveRole ==
  /\ Allowed("role:write") /\ role /\ role' = FALSE /\ has' = {} /\ meant' = {}
  /\ "overlap" \in regime \/ \A o \in Pages : at[o] = "idle"
  /\ admin' = [a \in Admins |-> [admin[a] EXCEPT !.holds = FALSE]]
  /\ UNCHANGED <<regime, perms, leaving, Page>>

\* A permission made anew has another id: no page knows it.
Unknown(N) ==
  /\ list' = [o \in Pages |-> list[o] \ N]
  /\ box'  = [o \in Pages |-> box[o] \ N]

\* Bound: not between a page's Find and Save.
CreatePermission(p) ==
  /\ Allowed("permission:write") /\ p \notin perms /\ \A o \in Pages : at[o] # "save"
  /\ perms' = perms \cup {p} /\ Unknown({p})
  /\ base' = [o \in Pages |-> base[o] \ {p}]
  /\ UNCHANGED <<regime, role, has, meant, Staff, at>>

RemovePermission(p) ==
  /\ Allowed("permission:write") /\ p \in perms
  /\ perms' = perms \ {p} /\ has' = has \ {p} /\ meant' = meant \ {p}
  /\ UNCHANGED <<regime, role, Staff, Page>>

-----------------------------------------------------------------------------
(* The administrators.                                                     *)

CreateAdmin(a) ==
  /\ "staff" \in regime /\ Allowed(Manage) /\ admin[a].status = "none" /\ a \notin leaving
  /\ \E s \in BOOLEAN, h \in BOOLEAN :
       /\ h => role
       /\ admin' = [admin EXCEPT ![a] = [status |-> "active", super |-> s, holds |-> h]]
  /\ UNCHANGED <<regime, Role, leaving, Page>>

\* update and setRoles look at nobody else.
EditAdmin(a) ==
  /\ {"staff", "edits"} \subseteq regime /\ Allowed(Manage) /\ admin[a].status # "none"
  /\ \/ \E s \in {"active", "disabled"} : admin' = [admin EXCEPT ![a].status = s]
     \/ \E s \in BOOLEAN, h \in BOOLEAN :
          (h => role) /\ admin' = [admin EXCEPT ![a].super = s, ![a].holds = h]
  /\ UNCHANGED <<regime, Role, leaving, Page>>

\* Faulty: `<` for `<=`: the one who is to go is not counted.
FewerThanOne(n) == n < 1

\* countSuperAdmins counts those out of use as well.
Last(n) == n <= 1

CheckLast(a) ==
  /\ "staff" \in regime /\ Allowed(Manage) /\ admin[a].status # "none"
  /\ "overlap" \in regime \/ leaving = {}
  /\ admin[a].super => ~Last(Cardinality({x \in Admins : admin[x].super}))
  /\ leaving' = leaving \cup {a}
  /\ UNCHANGED <<regime, Role, admin, Page>>

Remove(a) ==
  /\ a \in leaving /\ leaving' = leaving \ {a}
  /\ admin' = [admin EXCEPT ![a] = NoAdmin]
  /\ UNCHANGED <<regime, Role, Page>>

\* Start of the process: requests under way are gone; the seeds that are missing are
\* put in, and an administrator if there is none. The pages stay open.
Boot ==
  /\ perms' = perms \cup Seeded /\ Unknown(Seeded \ perms)
  /\ \E a \in Admins :
       admin' = IF \A x \in Admins : admin[x].status = "none" THEN [admin EXCEPT ![a] = First] ELSE admin
  /\ leaving' = {}
  /\ at' = [o \in Pages |-> IF at[o] \in {"find", "save"} THEN "idle" ELSE at[o]]
  /\ base' = [o \in Pages |-> IF at'[o] = "idle" THEN {} ELSE base[o] \ (Seeded \ perms)]
  /\ UNCHANGED <<regime, role, has, meant>>

Next ==
  \/ Boot \/ CreateRole \/ RemoveRole
  \/ \E p \in Perms : CreatePermission(p) \/ RemovePermission(p)
  \/ \E a \in Admins : CreateAdmin(a) \/ EditAdmin(a) \/ CheckLast(a) \/ Remove(a)
  \/ \E o \in Pages :
       \/ Mount(o) \/ Open(o) \/ Cancel(o) \/ Submit(o) \/ Find(o) \/ Rename(o) \/ Save(o)
       \/ \E p \in Perms : Tick(o, p)

Spec == Init /\ [][Next]_vars

-----------------------------------------------------------------------------
(* Properties. *)

(* The role has the permissions it was given and not taken from it: an     *)
(* edit changes what its operator ticked and unticked, and nothing that    *)
(* was changed before he opened it (pages/System/Role/index.tsx:62-66).    *)
(* It does not hold when edits overlap (a renaming writes the permissions  *)
(* back that it has read) or when the page has not listed all permissions  *)
(* (what it does not know it takes away; the whole list, when it was not   *)
(* allowed to read it).                                                    *)
RoleAsMeant == regime \cap {"overlap", "unlisted"} = {} => has = meant

(* Administrators that are removed one after the other leave a super       *)
(* administrator in use, or nobody, and then the next start makes one      *)
(* (admin-user.service.ts:124-137). Nothing guards the changes of status   *)
(* and roles.                                                              *)
SomebodyManages ==
  /\ regime \cap {"edits", "overlap"} = {}
  /\ \E a \in Admins : admin[a].status # "none"
  => \E a \in Admins : admin[a].status = "active" /\ admin[a].super

(* Both: rights are what those who manage them have made them.             *)
RightsAsMeant == RoleAsMeant /\ SomebodyManages

=============================================================================
