-------------------------------- MODULE Menus --------------------------------
(***************************************************************************)
(* The menus of the back office: the rows of admin_menu and who changes    *)
(* them (admin-menu.service.ts, pages/System/Menu, admin-bootstrap.service *)
(* .ts), the rows an administrator is sent (admin-access.service.ts), and  *)
(* the tree and the paths the browser makes of them (utils/menu-tree.ts).  *)
(* sortOrder orders brothers and is left out.                              *)
(***************************************************************************)
EXTENDS Integers, Sequences, FiniteSets

CONSTANTS
  Ids,        \* rows there may be
  NoRow,      \* no parent, no row
  Perms,
  Open,       \* permission_code NULL
  Paths, Under,   \* paths, and which lie below which: pairs <<above, below>>
  Seeds,      \* SEED_MENUS, in their order: [path, up (a path or NoRow), type, perm]
  MaxEdits    \* bound: edits of operators

Row == [path : Paths, up : Ids \cup {NoRow}, type : {"catalog", "menu", "button"},
        perm : Perms \cup {Open}, visible : BOOLEAN]

MenusAssumption ==
  /\ NoRow \notin Ids \cup Paths /\ Open \notin Perms /\ Under \subseteq Paths \X Paths /\ MaxEdits \in Nat
  /\ \A i \in DOMAIN Seeds :
       /\ Seeds[i].path \in Paths /\ Seeds[i].type \in {"catalog", "menu"}
       /\ \A j \in 1 .. i - 1 : Seeds[j].path # Seeds[i].path
       /\ Seeds[i].up = NoRow \/ \E j \in 1 .. i - 1 : Seeds[j].path = Seeds[i].up

VARIABLES
  menu,      \* admin_menu: a row or NoRow
  editing,   \* rows an update has read
  childless, \* rows a removal has found to have no children
  edits

vars == <<menu, editing, childless, edits>>

TypeOK ==
  /\ \A m \in Ids : menu[m] = NoRow \/ menu[m] \in Row
  /\ editing \subseteq Ids /\ childless \subseteq Ids /\ edits \in 0 .. MaxEdits

Init == menu = [m \in Ids |-> NoRow] /\ editing = {} /\ childless = {} /\ edits = 0

-----------------------------------------------------------------------------
Rows(t)   == {m \in Ids : t[m] # NoRow}
IdOf(t, p) == IF \E m \in Rows(t) : t[m].path = p THEN CHOOSE m \in Rows(t) : t[m].path = p ELSE NoRow
Free      == Ids \ (Rows(menu) \cup editing \cup childless)

\* seedMissingMenus: the seeds whose path no row has, in their order.
Seeded ==
  LET filled[i \in 0 .. Len(Seeds)] ==
        IF i = 0 THEN menu
        ELSE LET t == filled[i - 1]
                 s == Seeds[i]
             IN  IF IdOf(t, s.path) # NoRow THEN t
                 ELSE [t EXCEPT ![CHOOSE m \in Free : t[m] = NoRow] =
                        [path |-> s.path, up |-> IF s.up = NoRow THEN NoRow ELSE IdOf(t, s.up),
                         type |-> s.type, perm |-> s.perm, visible |-> TRUE]]
  IN  filled[Len(Seeds)]

\* Start of the process: what was under way is lost. Bound: there is room for the seeds.
Boot ==
  /\ Cardinality({i \in DOMAIN Seeds : IdOf(menu, Seeds[i].path) = NoRow}) <= Cardinality(Free)
  /\ menu' = Seeded /\ editing' = {} /\ childless' = {}
  /\ UNCHANGED edits

Edits == edits < MaxEdits /\ edits' = edits + 1

Create(m) ==
  /\ Edits /\ m \in Free
  /\ \E r \in Row : r.up \in Rows(menu) \cup {NoRow} /\ menu' = [menu EXCEPT ![m] = r]
  /\ UNCHANGED <<editing, childless>>

\* update reads the row and saves it with all the fields of the form: any parent the
\* page offers, the row itself and those below it too. A row removed in between is put in again.
Find(m) ==
  /\ Edits /\ m \in Rows(menu) \ editing
  /\ editing' = editing \cup {m}
  /\ UNCHANGED <<menu, childless>>

Save(m) ==
  /\ m \in editing /\ editing' = editing \ {m}
  /\ \E r \in Row : r.up \in Rows(menu) \cup {m, NoRow} /\ menu' = [menu EXCEPT ![m] = r]
  /\ UNCHANGED <<childless, edits>>

\* remove counts the children, then removes; no foreign key holds a child to its parent.
Count(m) ==
  /\ Edits /\ m \in Rows(menu) \ childless /\ \A c \in Rows(menu) : menu[c].up # m
  /\ childless' = childless \cup {m}
  /\ UNCHANGED <<menu, editing>>

Remove(m) ==
  /\ m \in childless /\ childless' = childless \ {m}
  /\ menu' = [menu EXCEPT ![m] = NoRow]
  /\ UNCHANGED <<editing, edits>>

Next == Boot \/ \E m \in Ids : Create(m) \/ Find(m) \/ Save(m) \/ Count(m) \/ Remove(m)

Spec == Init /\ [][Next]_vars

-----------------------------------------------------------------------------
(* The tree.                                                               *)

\* An administrator: the set of his permissions, or "super".
Viewers == (SUBSET Perms) \cup {{Open}}
Super   == {Open}

\* resolveMenus
Sent(v) == {m \in Rows(menu) : v = Super \/ menu[m].perm \in v \cup {Open}}

\* buildPruned: nodes, and the parent of each among them.
Nodes(v) == {m \in Sent(v) : menu[m].visible /\ menu[m].type # "button"}

Parent(v, m) == IF menu[m].up \in Nodes(v) THEN menu[m].up ELSE NoRow

Children(v, m) == {c \in Nodes(v) : Parent(v, c) = m}

\* prune, from the top down: what is left of the subtrees of S.
RECURSIVE Pruned(_, _)
Pruned(v, S) ==
  UNION {LET below == Pruned(v, Children(v, m))
         IN  IF menu[m].type = "catalog" /\ below = {} THEN {} ELSE {m} \cup below : m \in S}

Tree(v) == Pruned(v, Children(v, NoRow))

\* isPathAllowed
PathAllowed(v, p) ==
  \E m \in Tree(v) :
    \/ menu[m].path = p
    \/ menu[m].type # "catalog" /\ <<menu[m].path, p>> \in Under

-----------------------------------------------------------------------------
(* Properties. *)

\* Ancestors by parent links among the nodes.
Above(v, m) ==
  LET up[i \in 0 .. Cardinality(Ids)] ==
        IF i = 0 THEN {m} ELSE up[i - 1] \cup {Parent(v, c) : c \in up[i - 1] \ {NoRow}}
  IN  up[Cardinality(Ids)]

Hangs(v, m) == NoRow \in Above(v, m)

(* Whatever operators do to the rows, in whatever order, every page whose  *)
(* row an administrator is sent is in his tree, at the top when its parent *)
(* was kept from him, unless its parents go round in a circle; a catalogue *)
(* is there just when a page is left below it; and a path opens for him    *)
(* just when a page he is sent stands at it or above it, or a catalogue of *)
(* the tree has it exactly: what is seen can be entered, and nothing is    *)
(* entered through a catalogue (menu-tree.ts:20-26, 79-84).                *)
MenuIsWhole ==
  \A v \in Viewers :
    LET pages == {m \in Nodes(v) : menu[m].type = "menu" /\ Hangs(v, m)}
        catalogs == {m \in Nodes(v) : /\ menu[m].type = "catalog"
                                      /\ \E p \in pages : m \in Above(v, p)}
    IN  /\ Tree(v) = pages \cup catalogs
        /\ {p \in Paths : PathAllowed(v, p)} =
             {p \in Paths : \/ \E m \in pages \cup catalogs : menu[m].path = p
                            \/ \E m \in pages : <<menu[m].path, p>> \in Under}

=============================================================================
