---------------------------- MODULE MenuAuthority ----------------------------
(***************************************************************************)
(* Several administrators change the menus, the links between roles and    *)
(* menus, and the elements of the menus at the same time                   *)
(* (MenuFunctionServiceImpl, RoleMenuFunctionServiceImpl, RoleServiceImpl, *)
(* MenuElementServiceImpl and the SQL of their mappers).                   *)
(*                                                                         *)
(* An operation that reads first and writes later is two actions.  Its     *)
(* reads see the committed tables as they are when it begins, which is     *)
(* what InnoDB's default isolation gives a transaction; its statements     *)
(* that write see and lock the committed rows of the moment, so that they  *)
(* take effect together.  A write by one statement is one action.          *)
(*                                                                         *)
(* The messages that these operations publish, and what the consumers make *)
(* of the tables, are in FilterChains.                                     *)
(***************************************************************************)
EXTENDS Integers, Sequences, SequencesExt

CONSTANTS Admin,        \* threads of the provider that serve administrators
          Menu,         \* ids of menus
          FirstMenus,   \* the forest at the beginning: a function to the fathers
          FirstPaths,   \* the paths they have been given
          Role,         \* ids of roles
          FirstLinks,   \* the menus every role has at the beginning
          Element,      \* ids of elements
          MaxOps        \* bound: how many operations are called

Top == -1               \* the pid of a menu of the first level

ASSUME AuthorityAssumption ==
    /\ Menu \subseteq Nat \ {0}
    /\ FirstMenus \in [DOMAIN FirstMenus -> DOMAIN FirstMenus \union {Top}]
    /\ DOMAIN FirstMenus \subseteq Menu
    /\ FirstPaths \in [DOMAIN FirstMenus -> Seq(Menu)]
    /\ \A m \in DOMAIN FirstMenus :
          FirstPaths[m] = IF FirstMenus[m] = Top THEN <<m>> ELSE Append(FirstPaths[FirstMenus[m]], m)
    /\ FirstLinks \subseteq DOMAIN FirstMenus
    /\ MaxOps \in Nat

VARIABLES
    menus,       \* sys_menu_function: state, pid and path of each id
    roles,       \* the roles that are not deleted
    links,       \* sys_role_menu_function: its live rows, and whether it has deleted ones
    elements,    \* sys_menu_element: the menu of each live element
    admin,       \* the operation each administrator has open
    ops,         \* how many operations have been called
    \* What the properties remember:
    raced,       \* menus written by an operation that a deletion overlapped
    repeated,    \* links that were added though another had added them
    saves        \* for each role, what the saves that overlap each other asked for
vars == <<menus, roles, links, elements, admin, ops, raced, repeated, saves>>
tables == <<menus, roles, links, elements>>

-----------------------------------------------------------------------------
(* The tables                                                              *)

NoPath == <<>>
Absent == [state |-> "absent", pid |-> Top, path |-> NoPath]
Row(pid, path) == [state |-> "live", pid |-> pid, path |-> path]

Live(m) == m # Top /\ menus[m].state = "live"
LiveMenus == {m \in Menu : Live(m)}

\* The path of menu m under menu f, as both addMenuFunction and
\* updateMenuFunctionById make it.
PathUnder(f, m) == IF f = Top THEN <<m>> ELSE Append(menus[f].path, m)

\* Wrong: the children only.
ChildersOfFather(m) == {k \in LiveMenus : k = m \/ menus[k].pid = m}
\* FIND_IN_SET(id, path) of the menus that are not deleted.
GetMenuFunctionChilders(m) == {k \in LiveMenus : m \in ToSet(menus[k].path)}

LinkedTo(r) == {m \in Menu : links[r][m].live > 0}
NoRows == [live |-> 0, deleted |-> FALSE]
Inserted(rows) == [rows EXCEPT !.live = @ + 1]
LogicallyDeleted(rows) == [live |-> 0, deleted |-> rows.deleted \/ rows.live > 0]

NoElement == 0

-----------------------------------------------------------------------------
(* The operations of an administrator                                      *)

\* What the operation was called with and what it has read; crossed: the kinds
\* of the operations that were committed since.
Idle == [op |-> "none", role |-> Top, asked |-> {}, add |-> {}, del |-> {},
         menu |-> Top, pid |-> Top, path |-> NoPath, ids |-> {}, crossed |-> {}]
IsSave(b, r) == admin[b].op = "save" /\ admin[b].role = r

Begin(a, record) ==
    /\ ops < MaxOps
    /\ ops' = ops + 1
    /\ admin' = [admin EXCEPT ![a] = record]

\* The operations of kind `kind` that are committed are noted with those that
\* are open meanwhile.
Crossing(kind) ==
    [b \in Admin |-> IF admin[b] = Idle THEN Idle ELSE [admin[b] EXCEPT !.crossed = @ \union {kind}]]
End(a, kind) == admin' = [Crossing(kind) EXCEPT ![a] = Idle]
OneStatement(kind) ==
    /\ ops < MaxOps
    /\ ops' = ops + 1
    /\ admin' = Crossing(kind)

\* A transaction that throws, or whose connection is lost, leaves nothing; and
\* so does an operation that has only read.
Rollback(a) ==
    /\ admin[a] # Idle
    /\ admin' = [admin EXCEPT ![a] = Idle]
    /\ UNCHANGED <<tables, ops, raced, repeated, saves>>

-----------------------------------------------------------------------------
(* saveRoleMenuFunction: the role gets the menus that are ticked.          *)

NoSaves == [all |-> Menu, some |-> {}, calm |-> TRUE]
\* The links of role r change by another operation than a save.
Disturb(which) == saves' = [r \in Role |-> IF r \in which THEN [saves[r] EXCEPT !.calm = FALSE] ELSE saves[r]]

\* Wrong: every menu that is ticked.
AddListAll(asked, linked) == asked
AddList(asked, linked) == asked \ linked
\* Wrong: the operands exchanged.
DelListSwapped(asked, linked) == asked \ linked
DelList(asked, linked) == linked \ asked

BeginSave(a, r, asked) ==
    /\ admin[a] = Idle
    /\ r \in roles /\ asked # {} /\ asked \subseteq LiveMenus
    /\ Begin(a, [Idle EXCEPT !.op = "save", !.role = r, !.asked = asked,
                              !.add = AddList(asked, LinkedTo(r)), !.del = DelList(asked, LinkedTo(r))])
    /\ saves' = IF \E b \in Admin : IsSave(b, r) THEN saves ELSE [saves EXCEPT ![r] = NoSaves]
    /\ UNCHANGED <<tables, raced, repeated>>

\* Wrong: every row of the role.
BatchDeleteRole(rows, list) == [m \in Menu |-> NoRows]
\* The rows of the list, deleted ones too, are removed from the table.
BatchDelete(rows, list) == [m \in Menu |-> IF m \in list THEN NoRows ELSE rows[m]]
BatchInsert(rows, list) == [m \in Menu |-> IF m \in list THEN Inserted(rows[m]) ELSE rows[m]]

\* batchDelete removes no row: the save throws.
FindsNoRow(a) ==
    /\ admin[a].del # {}
    /\ \A m \in admin[a].del : links[admin[a].role][m] = NoRows

CommitSave(a) ==
    /\ admin[a].op = "save"
    /\ ~FindsNoRow(a)
    /\ LET s == admin[a]
           r == s.role
       IN  /\ links' = [links EXCEPT ![r] = BatchInsert(BatchDelete(@, s.del), s.add)]
           /\ saves' = [saves EXCEPT ![r].all = @ \intersect s.asked, ![r].some = @ \union s.asked]
           /\ raced' = IF "delete" \in s.crossed THEN raced \union s.add ELSE raced
           /\ repeated' = IF s.crossed \intersect {"save", "link"} # {} THEN repeated \union ({r} \X s.add) ELSE repeated
    /\ End(a, "save")
    /\ UNCHANGED <<menus, roles, elements, ops>>

-----------------------------------------------------------------------------
(* One link, one role                                                      *)

AddRoleMenufunction(r, m) ==
    /\ r \in roles /\ Live(m)
    /\ OneStatement("link")
    /\ links' = [links EXCEPT ![r][m] = Inserted(@)]
    /\ repeated' = IF m \in LinkedTo(r) THEN repeated \union {<<r, m>>} ELSE repeated
    /\ Disturb({r})
    /\ UNCHANGED <<menus, roles, elements, raced>>

\* Wrong: without counting the rows that are not deleted.
LogicalDeletedUnchecked(r, m) ==
    /\ OneStatement("link")
    /\ links' = [links EXCEPT ![r][m] = [live |-> @.live - 1, deleted |-> TRUE]]
    /\ Disturb({r})
    /\ UNCHANGED <<menus, roles, elements, raced, repeated>>

\* The caller names one row by its id.
LogicalDeletedRoleMenufunctionById(r, m) ==
    /\ m \in LinkedTo(r)
    /\ OneStatement("link")
    /\ links' = [links EXCEPT ![r][m] = [live |-> @.live - 1, deleted |-> TRUE]]
    /\ Disturb({r})
    /\ UNCHANGED <<menus, roles, elements, raced, repeated>>

LogicallyDeleteRoleById(r) ==
    /\ r \in roles
    /\ OneStatement("link")
    /\ roles' = roles \ {r}
    /\ links' = [links EXCEPT ![r] = [m \in Menu |-> LogicallyDeleted(@[m])]]
    /\ Disturb({r})
    /\ UNCHANGED <<menus, elements, raced, repeated>>

-----------------------------------------------------------------------------
(* Menus                                                                   *)

\* addMenuFunction: the count that begins the transaction fixes what its later
\* reads see, the father's row among it.  The id is new.
BeginAdd(a, m, f) ==
    /\ admin[a] = Idle
    /\ menus[m] = Absent
    /\ \A b \in Admin : admin[b].op = "add" => admin[b].menu # m
    /\ f = Top \/ Live(f)
    /\ Begin(a, [Idle EXCEPT !.op = "add", !.menu = m, !.pid = f, !.path = PathUnder(f, m)])
    /\ UNCHANGED <<tables, raced, repeated, saves>>

\* The insert with the path "-" and the update of the path, committed together.
CommitAdd(a) ==
    /\ admin[a].op = "add"
    /\ menus' = [menus EXCEPT ![admin[a].menu] = Row(admin[a].pid, admin[a].path)]
    /\ raced' = IF "delete" \in admin[a].crossed THEN raced \union {admin[a].menu} ELSE raced
    /\ End(a, "add")
    /\ UNCHANGED <<roles, links, elements, ops, repeated, saves>>

\* updateMenuFunctionById with a new pid: the father is read, and then the one
\* row is written, without a transaction around the two.  Of the menus below it
\* none is a father.
BeginMove(a, m, f) ==
    /\ admin[a] = Idle
    /\ Live(m) /\ f # m
    /\ f = Top \/ (Live(f) /\ m \notin ToSet(menus[f].path))
    /\ Begin(a, [Idle EXCEPT !.op = "move", !.menu = m, !.pid = f, !.path = PathUnder(f, m)])
    /\ UNCHANGED <<tables, raced, repeated, saves>>

\* updateById writes only a row that is not deleted; if there is none, the
\* operation throws.
WriteMove(a) ==
    /\ admin[a].op = "move"
    /\ Live(admin[a].menu)
    /\ menus' = [menus EXCEPT ![admin[a].menu] = Row(admin[a].pid, admin[a].path)]
    /\ raced' = IF "delete" \in admin[a].crossed THEN raced \union {admin[a].menu} ELSE raced
    /\ End(a, "move")
    /\ UNCHANGED <<roles, links, elements, ops, repeated, saves>>

\* deleteMenuFunctionById: the ids with the menu in their path,
BeginDelete(a, m) ==
    /\ admin[a] = Idle
    /\ GetMenuFunctionChilders(m) # {}
    /\ Begin(a, [Idle EXCEPT !.op = "delete", !.menu = m, !.ids = GetMenuFunctionChilders(m)])
    /\ UNCHANGED <<tables, raced, repeated, saves>>

\* Wrong: the elements and links of the menu itself only.
CommitDeleteOne(a) ==
    /\ admin[a].op = "delete"
    /\ LET now == GetMenuFunctionChilders(admin[a].menu)
           ids == {admin[a].menu}
       IN  /\ now # {}
           /\ menus' = [m \in Menu |-> IF m \in now THEN [menus[m] EXCEPT !.state = "deleted"] ELSE menus[m]]
           /\ links' = [r \in Role |-> [m \in Menu |-> IF m \in ids THEN LogicallyDeleted(links[r][m]) ELSE links[r][m]]]
           /\ elements' = [e \in Element |-> IF elements[e] \in ids THEN NoElement ELSE elements[e]]
           /\ raced' = raced \union (now \ admin[a].ids)
    /\ Disturb(Role)
    /\ End(a, "delete")
    /\ UNCHANGED <<roles, ops, repeated>>

\* and then the menus that have it in their path now; the links (twice: the
\* statement for the links of roles and elements is one on the same table) and
\* the elements of the ids that were read.
CommitDelete(a) ==
    /\ admin[a].op = "delete"
    /\ LET now == GetMenuFunctionChilders(admin[a].menu)
           ids == admin[a].ids
       IN  /\ now # {}
           /\ menus' = [m \in Menu |-> IF m \in now THEN [menus[m] EXCEPT !.state = "deleted"] ELSE menus[m]]
           /\ links' = [r \in Role |-> [m \in Menu |-> IF m \in ids THEN LogicallyDeleted(links[r][m]) ELSE links[r][m]]]
           /\ elements' = [e \in Element |-> IF elements[e] \in ids THEN NoElement ELSE elements[e]]
           /\ raced' = raced \union (now \ ids)
    /\ Disturb(Role)
    /\ End(a, "delete")
    /\ UNCHANGED <<roles, ops, repeated>>

-----------------------------------------------------------------------------
(* Elements: one statement each; the page offers the menus there are.      *)

PutElement(e, m) ==
    /\ elements' = [elements EXCEPT ![e] = m]
    /\ OneStatement("element")
    /\ UNCHANGED <<menus, roles, links, raced, repeated, saves>>
AddMenuElement(e, m) == elements[e] = NoElement /\ Live(m) /\ PutElement(e, m)
UpdateMenuElementById(e, m) == elements[e] \notin {NoElement, m} /\ Live(m) /\ PutElement(e, m)
DeleteMenuElementById(e) == elements[e] # NoElement /\ PutElement(e, NoElement)

-----------------------------------------------------------------------------
Init ==
    /\ menus = [m \in Menu |-> IF m \in DOMAIN FirstMenus THEN Row(FirstMenus[m], FirstPaths[m]) ELSE Absent]
    /\ roles = Role
    /\ links = [r \in Role |-> [m \in Menu |-> IF m \in FirstLinks THEN Inserted(NoRows) ELSE NoRows]]
    /\ elements = [e \in Element |-> NoElement]
    /\ admin = [a \in Admin |-> Idle]
    /\ ops = 0
    /\ raced = {} /\ repeated = {}
    /\ saves = [r \in Role |-> [NoSaves EXCEPT !.calm = FALSE]]

Steps(a) ==
    \/ \E r \in Role, asked \in SUBSET Menu : BeginSave(a, r, asked)
    \/ \E m \in Menu, f \in Menu \union {Top} : BeginAdd(a, m, f) \/ BeginMove(a, m, f)
    \/ \E m \in Menu : BeginDelete(a, m)
    \/ CommitSave(a) \/ CommitAdd(a) \/ WriteMove(a) \/ CommitDelete(a)
    \/ Rollback(a)
OneStep ==
    \/ \E r \in Role, m \in Menu : AddRoleMenufunction(r, m) \/ LogicalDeletedRoleMenufunctionById(r, m)
    \/ \E r \in Role : LogicallyDeleteRoleById(r)
    \/ \E e \in Element, m \in Menu : AddMenuElement(e, m) \/ UpdateMenuElementById(e, m)
    \/ \E e \in Element : DeleteMenuElementById(e)
Next == OneStep \/ \E a \in Admin : Steps(a)
Spec == Init /\ [][Next]_vars

-----------------------------------------------------------------------------
Kinds == {"save", "link", "add", "move", "delete", "element"}
Operation ==
    [op : {"none", "save", "add", "move", "delete"}, role : Role \union {Top},
     asked : SUBSET Menu, add : SUBSET Menu, del : SUBSET Menu,
     menu : Menu \union {Top}, pid : Menu \union {Top}, path : Seq(Menu), ids : SUBSET Menu,
     crossed : SUBSET Kinds]
Rows == [live : Nat, deleted : BOOLEAN]
AuthorityTypeOK ==
    /\ menus \in [Menu -> [state : {"absent", "live", "deleted"}, pid : Menu \union {Top}, path : Seq(Menu)]]
    /\ roles \in SUBSET Role
    /\ links \in [Role -> [Menu -> Rows]]
    /\ elements \in [Element -> Menu \union {NoElement}]
    /\ admin \in [Admin -> Operation]
    /\ \A a \in Admin : /\ admin[a].op = "save" => admin[a].role \in Role
                        /\ admin[a].op \in {"add", "move", "delete"} => admin[a].menu \in Menu
    /\ ops \in 0 .. MaxOps
    /\ raced \in SUBSET Menu /\ repeated \in SUBSET (Role \X Menu)
    /\ saves \in [Role -> [all : SUBSET Menu, some : SUBSET Menu, calm : BOOLEAN]]

\* Saves of one role that overlap do not undo each other: from the first of
\* their commits on, the role has every menu that all of them ticked and none
\* that no one of them ticked; a save that runs alone leaves exactly what it was
\* asked for (saveRoleMenuFunction, RoleMenuFunctionServiceImpl.java:122-177).
OverlappingSavesAgree ==
    \A r \in Role : saves[r].calm /\ saves[r].some # {} =>
        saves[r].all \subseteq LinkedTo(r) /\ LinkedTo(r) \subseteq saves[r].some

\* A link has a second live row only if it was added by two operations of
\* which one could not see the other's row, or by addRoleMenufunction, which
\* does not look.
OneRowUnlessRepeated ==
    \A r \in Role, m \in Menu : links[r][m].live > 1 => <<r, m>> \in repeated

\* A save that no other save overlaps always finds rows to delete when it
\* expects some, though they may have been deleted logically in between, and
\* so does not fail with SYS_ERROR_DATABASEFAIL
\* (RoleMenuFunctionServiceImpl.java:159-163).
LoneSaveFindsItsRows ==
    \A a \in Admin : admin[a].op = "save" /\ "save" \notin admin[a].crossed => ~FindsNoRow(a)

\* A menu is left under a deleted father only if it was added or moved while
\* the deletion ran, or if the father was moved and the menu's path still
\* leads elsewhere (deleteMenuFunctionById finds what is below by the paths,
\* SysMenuFunctionMapper.java:90-102).
OrphansHaveAReason ==
    \A m \in LiveMenus :
        LET f == menus[m].pid
        IN  f # Top /\ ~Live(f) => m \in raced \/ menus[m].path # PathUnder(f, m)

\* What was deleted with its father has no live link and no element left, if
\* no operation that read the tables before wrote to it since.
DeletedMenusKeepNothing ==
    \A m \in Menu \ raced :
        menus[m].state = "deleted" =>
            /\ \A r \in Role : m \notin LinkedTo(r)
            /\ \A e \in Element : elements[e] # m
=============================================================================
