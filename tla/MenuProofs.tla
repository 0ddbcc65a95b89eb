----------------------------- MODULE MenuProofs -----------------------------
(***************************************************************************)
(* Proofs about the menus of the administration.                           *)
(*                                                                         *)
(* First MenuAuthority, for any administrators, menus, roles and elements, *)
(* and any number of operations; then MenuTree, for any number of menus,   *)
(* any forest and any values of the columns: what the rows say of each     *)
(* other, what the lists of the two queries are, and what the loop makes   *)
(* of such a list.                                                         *)
(***************************************************************************)
EXTENDS MenuAuthority, MenuTree, FiniteSetTheorems, FunctionTheorems, NatSets, TLAPS

Fields == [state : {"absent", "live", "deleted"}, pid : Menu \union {Top}, path : Seq(Menu)]
Claims == [all : SUBSET Menu, some : SUBSET Menu, calm : BOOLEAN]

-----------------------------------------------------------------------------
(* Types                                                                   *)

\* A link that has got one more row, or whose rows were all deleted logically.
LEMMA RowsTyped ==
    /\ NoRows \in Rows
    /\ \A x \in Rows : Inserted(x) \in Rows /\ Inserted(x).live = x.live + 1
    /\ \A x \in Rows : LogicallyDeleted(x) \in Rows /\ LogicallyDeleted(x).live = 0
                      /\ (x # NoRows => LogicallyDeleted(x) # NoRows)
<1>1. NoRows \in Rows
  BY DEF NoRows, Rows
<1>2. ASSUME NEW x \in Rows PROVE Inserted(x) \in Rows /\ Inserted(x).live = x.live + 1
  BY DEF Inserted, Rows
<1>3. ASSUME NEW x \in Rows
      PROVE  LogicallyDeleted(x) \in Rows /\ LogicallyDeleted(x).live = 0 /\ (x # NoRows => LogicallyDeleted(x) # NoRows)
  <2>1. PICK n \in Nat, b \in BOOLEAN : x = [live |-> n, deleted |-> b]
    BY DEF Rows
  <2>2. LogicallyDeleted(x) = [live |-> 0, deleted |-> b \/ n > 0]
    BY <2>1 DEF LogicallyDeleted
  <2>3. CASE b = TRUE
    <3>1. LogicallyDeleted(x) = [live |-> 0, deleted |-> TRUE]
      BY <2>2, <2>3
    <3> QED
      BY <3>1 DEF Rows, NoRows
  <2>4. CASE n > 0
    <3>1. LogicallyDeleted(x) = [live |-> 0, deleted |-> TRUE]
      BY <2>2, <2>4
    <3> QED
      BY <3>1 DEF Rows, NoRows
  <2>5. CASE b = FALSE /\ n = 0
    <3>1. ~(n > 0)
      BY <2>5
    <3>2. LogicallyDeleted(x) = [live |-> 0, deleted |-> FALSE] /\ x = [live |-> 0, deleted |-> FALSE]
      BY <2>1, <2>2, <2>5, <3>1, Zenon
    <3> QED
      BY <3>2 DEF Rows, NoRows
  <2>6. b = TRUE \/ b = FALSE
    BY <2>1, Zenon
  <2>7. n > 0 \/ n = 0
    BY <2>1
  <2> QED
    BY <2>3, <2>4, <2>5, <2>6, <2>7, Zenon
<1> QED
  BY <1>1, <1>2, <1>3

LEMMA InitTyped == Init => AuthorityTypeOK
<1> SUFFICES ASSUME Init PROVE AuthorityTypeOK
  OBVIOUS
<1>1. menus \in [Menu -> Fields]
  <2>1. \A m \in DOMAIN FirstMenus : FirstMenus[m] \in Menu \union {Top} /\ FirstPaths[m] \in Seq(Menu)
    BY AuthorityAssumption
  <2>2. Absent \in Fields /\ \A m \in DOMAIN FirstMenus : Row(FirstMenus[m], FirstPaths[m]) \in Fields
    BY <2>1 DEF Absent, Row, Fields, NoPath
  <2> QED
    BY <2>2 DEF Init
<1>2. links \in [Role -> [Menu -> Rows]]
  <2>1. NoRows \in Rows /\ Inserted(NoRows) \in Rows
    BY RowsTyped
  <2> QED
    BY <2>1 DEF Init
<1>3. admin \in [Admin -> Operation] /\ \A a \in Admin : admin[a].op = "none"
  BY DEF Init, Idle, Operation, Kinds, NoPath
<1>4. saves \in [Role -> Claims]
  BY DEF Init, NoSaves, Claims
<1>5. roles \in SUBSET Role /\ elements \in [Element -> Menu \union {NoElement}] /\ ops \in 0 .. MaxOps
      /\ raced \in SUBSET Menu /\ repeated \in SUBSET (Role \X Menu)
  BY AuthorityAssumption DEF Init
<1> QED
  BY <1>1, <1>2, <1>3, <1>4, <1>5 DEF AuthorityTypeOK, Fields, Claims

\* An operation that is committed leaves what the others were called with and
\* have read; those that are open remember it.
Same(c, d) ==
    /\ c.op = d.op /\ c.role = d.role /\ c.asked = d.asked /\ c.add = d.add /\ c.del = d.del
    /\ c.menu = d.menu /\ c.pid = d.pid /\ c.path = d.path /\ c.ids = d.ids

LEMMA IdleTyped == Idle \in Operation /\ Idle.op = "none"
  BY DEF Idle, Operation, NoPath

\* One more kind is remembered by operation c.
LEMMA Noted ==
    ASSUME NEW c \in Operation, NEW kind \in Kinds, NEW d, d = [c EXCEPT !.crossed = @ \union {kind}]
    PROVE  d \in Operation /\ Same(d, c) /\ c.crossed \subseteq d.crossed /\ kind \in d.crossed
<1>1. c.crossed \subseteq Kinds
  BY DEF Operation
<1>2. d.crossed = c.crossed \union {kind}
  BY DEF Operation
<1>3. Same(d, c)
  BY DEF Operation, Same
<1>4. d \in Operation
  <2>1. c.crossed \union {kind} \in SUBSET Kinds
    BY <1>1
  <2> QED
    BY <2>1 DEF Operation
<1> QED
  BY <1>2, <1>3, <1>4

LEMMA CrossingKeeps ==
    ASSUME admin \in [Admin -> Operation], NEW kind \in Kinds
    PROVE  /\ Crossing(kind) \in [Admin -> Operation]
           /\ \A b \in Admin : Same(Crossing(kind)[b], admin[b]) /\ admin[b].crossed \subseteq Crossing(kind)[b].crossed
           /\ \A b \in Admin : admin[b].op # "none" => kind \in Crossing(kind)[b].crossed
<1> SUFFICES ASSUME NEW b \in Admin
             PROVE  /\ Crossing(kind)[b] \in Operation
                    /\ Same(Crossing(kind)[b], admin[b]) /\ admin[b].crossed \subseteq Crossing(kind)[b].crossed
                    /\ admin[b].op # "none" => kind \in Crossing(kind)[b].crossed
  BY DEF Crossing
<1>1. admin[b] \in Operation
  OBVIOUS
<1>2. CASE admin[b] = Idle
  <2>1. Crossing(kind)[b] = admin[b]
    BY <1>2 DEF Crossing
  <2> QED
    BY <1>1, <1>2, <2>1, IdleTyped DEF Same
<1>3. CASE admin[b] # Idle
  <2>1. Crossing(kind)[b] = [admin[b] EXCEPT !.crossed = @ \union {kind}]
    BY <1>3 DEF Crossing
  <2> QED
    BY <1>1, <2>1, Noted
<1> QED
  BY <1>2, <1>3

\* What the end of an operation does to the operations that are open.
LEMMA EndKeeps ==
    ASSUME admin \in [Admin -> Operation], NEW a \in Admin, NEW kind \in Kinds, End(a, kind)
    PROVE  /\ admin' \in [Admin -> Operation]
           /\ admin'[a].op = "none"
           /\ \A b \in Admin : admin'[b].op # "none" =>
                 b # a /\ Same(admin'[b], admin[b]) /\ admin[b].crossed \subseteq admin'[b].crossed /\ kind \in admin'[b].crossed
<1>1. admin' = [Crossing(kind) EXCEPT ![a] = Idle]
  BY DEF End
<1> QED
  BY <1>1, IdleTyped, CrossingKeeps DEF Same

LEMMA OneStatementKeeps ==
    ASSUME admin \in [Admin -> Operation], NEW kind \in Kinds, OneStatement(kind)
    PROVE  /\ admin' \in [Admin -> Operation]
           /\ \A b \in Admin : admin'[b].op # "none" =>
                 Same(admin'[b], admin[b]) /\ admin[b].crossed \subseteq admin'[b].crossed /\ kind \in admin'[b].crossed
  BY CrossingKeeps DEF OneStatement, Same

\* An operation that begins is typed and crossed by nothing; the others stay.
LEMMA BeginKeeps ==
    ASSUME admin \in [Admin -> Operation], NEW a \in Admin, NEW record \in Operation, ops \in 0 .. MaxOps, Begin(a, record)
    PROVE  /\ admin' \in [Admin -> Operation] /\ ops' \in 0 .. MaxOps
           /\ admin'[a] = record /\ \A b \in Admin : b # a => admin'[b] = admin[b]
  BY AuthorityAssumption DEF Begin

LEMMA OpsCount ==
    ASSUME ops \in 0 .. MaxOps, NEW kind, OneStatement(kind)
    PROVE  ops' \in 0 .. MaxOps
  BY AuthorityAssumption DEF OneStatement

LEMMA Disturbed ==
    ASSUME saves \in [Role -> Claims], NEW which, Disturb(which)
    PROVE  /\ saves' \in [Role -> Claims]
           /\ \A r \in Role \ which : saves'[r] = saves[r]
           /\ \A r \in Role \intersect which : saves'[r].calm = FALSE
<1>1. \A r \in Role : [saves[r] EXCEPT !.calm = FALSE] \in Claims /\ [saves[r] EXCEPT !.calm = FALSE].calm = FALSE
  BY DEF Claims
<1> QED
  BY <1>1 DEF Disturb

\* What the pieces of the state are, for the proofs that need one of them.
LEMMA Typed ==
    AuthorityTypeOK <=>
    /\ menus \in [Menu -> Fields] /\ roles \in SUBSET Role /\ links \in [Role -> [Menu -> Rows]]
    /\ elements \in [Element -> Menu \union {NoElement}] /\ admin \in [Admin -> Operation]
    /\ \A a \in Admin : /\ admin[a].op = "save" => admin[a].role \in Role
                        /\ admin[a].op \in {"add", "move", "delete"} => admin[a].menu \in Menu
    /\ ops \in 0 .. MaxOps
    /\ raced \in SUBSET Menu /\ repeated \in SUBSET (Role \X Menu) /\ saves \in [Role -> Claims]
  BY DEF AuthorityTypeOK, Fields, Claims

LEMMA TypedThen ==
    ASSUME menus' \in [Menu -> Fields], roles' \in SUBSET Role, links' \in [Role -> [Menu -> Rows]],
           elements' \in [Element -> Menu \union {NoElement}], admin' \in [Admin -> Operation],
           \A a \in Admin : /\ admin'[a].op = "save" => admin'[a].role \in Role
                            /\ admin'[a].op \in {"add", "move", "delete"} => admin'[a].menu \in Menu,
           ops' \in 0 .. MaxOps, raced' \in SUBSET Menu, repeated' \in SUBSET (Role \X Menu),
           saves' \in [Role -> Claims]
    PROVE  AuthorityTypeOK'
  BY DEF AuthorityTypeOK, Fields, Claims

LEMMA PathTyped ==
    ASSUME menus \in [Menu -> Fields], NEW f \in Menu \union {Top}, NEW m \in Menu
    PROVE  PathUnder(f, m) \in Seq(Menu)
  BY DEF PathUnder, Fields

LEMMA RowTyped ==
    ASSUME NEW f \in Menu \union {Top}, NEW p \in Seq(Menu)
    PROVE  Row(f, p) \in Fields
  BY DEF Row, Fields

\* The links that a save or a deletion leaves are rows of the table.
LEMMA BatchesTyped ==
    ASSUME NEW rows \in [Menu -> Rows], NEW add, NEW del
    PROVE  BatchInsert(BatchDelete(rows, del), add) \in [Menu -> Rows]
  BY RowsTyped DEF BatchInsert, BatchDelete

\* What the saves of a role claim once a save that asked for `asked` commits.
Claimed(c, asked) == [c EXCEPT !.all = @ \intersect asked, !.some = @ \union asked]
LEMMA ClaimedTyped ==
    ASSUME NEW c \in Claims, NEW asked \in SUBSET Menu
    PROVE  /\ Claimed(c, asked) \in Claims /\ Claimed(c, asked).calm = c.calm
           /\ Claimed(c, asked).all = c.all \intersect asked /\ Claimed(c, asked).some = c.some \union asked
<1>1. c.all \intersect asked \in SUBSET Menu /\ c.some \union asked \in SUBSET Menu
  BY DEF Claims
<1> QED
  BY <1>1 DEF Claimed, Claims

LEMMA BeginTyped ==
    ASSUME NEW a \in Admin, NEW kind \in {"save", "add", "move", "delete"}, NEW record \in Operation,
           record.op = kind, kind = "save" => record.role \in Role, kind # "save" => record.menu \in Menu,
           AuthorityTypeOK, Begin(a, record)
    PROVE  /\ admin' \in [Admin -> Operation] /\ ops' \in 0 .. MaxOps
           /\ \A b \in Admin : /\ admin'[b].op = "save" => admin'[b].role \in Role
                               /\ admin'[b].op \in {"add", "move", "delete"} => admin'[b].menu \in Menu
<1>1. admin' \in [Admin -> Operation] /\ ops' \in 0 .. MaxOps
      /\ admin'[a] = record /\ \A b \in Admin : b # a => admin'[b] = admin[b]
  BY BeginKeeps, Typed
<1> QED
  BY <1>1, Typed

\* Every operation that changes a table ends itself or is one statement.
LEMMA CrossTyped ==
    ASSUME AuthorityTypeOK, NEW kind \in Kinds, (\E a \in Admin : End(a, kind)) \/ OneStatement(kind)
    PROVE  /\ admin' \in [Admin -> Operation]
           /\ \A b \in Admin : /\ admin'[b].op = "save" => admin'[b].role \in Role
                               /\ admin'[b].op \in {"add", "move", "delete"} => admin'[b].menu \in Menu
<1>1. admin' \in [Admin -> Operation] /\ \A b \in Admin : admin'[b].op # "none" => Same(admin'[b], admin[b])
  BY EndKeeps, OneStatementKeeps, Typed
<1> QED
  BY <1>1, Typed DEF Same

LEMMA TypeStep == AuthorityTypeOK /\ [Next]_vars => AuthorityTypeOK'
<1> SUFFICES ASSUME AuthorityTypeOK, [Next]_vars PROVE AuthorityTypeOK'
  OBVIOUS
<1> USE DEF tables
<1>0. {"save", "link", "add", "move", "delete", "element"} = Kinds
  BY DEF Kinds
<1>1. ASSUME NEW a \in Admin, NEW r \in Role, NEW asked \in SUBSET Menu, BeginSave(a, r, asked) PROVE AuthorityTypeOK'
  <2> DEFINE record == [Idle EXCEPT !.op = "save", !.role = r, !.asked = asked,
                                    !.add = AddList(asked, LinkedTo(r)), !.del = DelList(asked, LinkedTo(r))]
  <2>1. record \in Operation /\ record.op = "save" /\ record.role \in Role
    BY IdleTyped DEF Operation, AddList, DelList, LinkedTo, Idle
  <2>2. saves' \in [Role -> Claims]
    BY <1>1, Typed DEF BeginSave, NoSaves, Claims
  <2> QED
    BY <1>1, <2>1, <2>2, BeginTyped, Typed, TypedThen DEF BeginSave
<1>2. ASSUME NEW a \in Admin, NEW m \in Menu, NEW f \in Menu \union {Top}, BeginAdd(a, m, f) \/ BeginMove(a, m, f)
      PROVE  AuthorityTypeOK'
  <2>1. PICK kind \in {"add", "move"} : Begin(a, [Idle EXCEPT !.op = kind, !.menu = m, !.pid = f, !.path = PathUnder(f, m)])
    BY <1>2 DEF BeginAdd, BeginMove
  <2> DEFINE record == [Idle EXCEPT !.op = kind, !.menu = m, !.pid = f, !.path = PathUnder(f, m)]
  <2>2. record \in Operation /\ record.op = kind /\ record.menu \in Menu
    BY IdleTyped, PathTyped, Typed DEF Operation, Idle
  <2> QED
    BY <1>2, <2>1, <2>2, BeginTyped, Typed, TypedThen DEF BeginAdd, BeginMove
<1>3. ASSUME NEW a \in Admin, NEW m \in Menu, BeginDelete(a, m) PROVE AuthorityTypeOK'
  <2> DEFINE record == [Idle EXCEPT !.op = "delete", !.menu = m, !.ids = GetMenuFunctionChilders(m)]
  <2>1. record \in Operation /\ record.op = "delete" /\ record.menu \in Menu
    BY IdleTyped DEF Operation, Idle, GetMenuFunctionChilders, LiveMenus
  <2>2. Begin(a, record) /\ UNCHANGED <<tables, raced, repeated, saves>>
    BY <1>3 DEF BeginDelete
  <2> HIDE DEF record
  <2>3. admin' \in [Admin -> Operation] /\ ops' \in 0 .. MaxOps
        /\ \A b \in Admin : /\ admin'[b].op = "save" => admin'[b].role \in Role
                            /\ admin'[b].op \in {"add", "move", "delete"} => admin'[b].menu \in Menu
    BY <2>1, <2>2, BeginTyped
  <2> QED
    BY <2>2, <2>3, Typed, TypedThen
<1>4. ASSUME NEW a \in Admin, CommitSave(a) PROVE AuthorityTypeOK'
  <2> DEFINE s == admin[a]
             r == s.role
  <2>1. r \in Role /\ s.add \in SUBSET Menu /\ s.asked \in SUBSET Menu
    BY <1>4, Typed DEF CommitSave, Operation
  <2>2. links' \in [Role -> [Menu -> Rows]]
    BY <1>4, <2>1, BatchesTyped, Typed DEF CommitSave
  <2>3. saves' \in [Role -> Claims]
    <3>1. saves' = [saves EXCEPT ![r] = Claimed(saves[r], s.asked)]
      BY <1>4 DEF CommitSave, Claimed
    <3>2. Claimed(saves[r], s.asked) \in Claims
      BY <2>1, Typed, ClaimedTyped
    <3> QED
      BY <3>1, <3>2, Typed
  <2>4. raced' \in SUBSET Menu /\ repeated' \in SUBSET (Role \X Menu)
    BY <1>4, <2>1, Typed DEF CommitSave
  <2>5. End(a, "save") /\ UNCHANGED <<menus, roles, elements, ops>>
    BY <1>4 DEF CommitSave
  <2> QED
    BY <1>0, <2>2, <2>3, <2>4, <2>5, CrossTyped, Typed, TypedThen
<1>5. ASSUME NEW r \in Role, NEW m \in Menu, AddRoleMenufunction(r, m) \/ LogicalDeletedRoleMenufunctionById(r, m)
      PROVE  AuthorityTypeOK'
  <2>1. links' \in [Role -> [Menu -> Rows]]
    <3>1. CASE AddRoleMenufunction(r, m)
      BY <3>1, RowsTyped, Typed DEF AddRoleMenufunction
    <3>2. CASE LogicalDeletedRoleMenufunctionById(r, m)
      <4>1. links[r][m] \in Rows /\ links[r][m].live > 0
        BY <3>2, Typed DEF LogicalDeletedRoleMenufunctionById, LinkedTo
      <4>2. [live |-> links[r][m].live - 1, deleted |-> TRUE] \in Rows
        BY <4>1 DEF Rows
      <4> QED
        BY <3>2, <4>2, Typed DEF LogicalDeletedRoleMenufunctionById
    <3> QED
      BY <1>5, <3>1, <3>2
  <2>2. repeated' \in SUBSET (Role \X Menu)
    BY <1>5, Typed DEF AddRoleMenufunction, LogicalDeletedRoleMenufunctionById
  <2>3. OneStatement("link") /\ Disturb({r}) /\ UNCHANGED <<menus, roles, elements, raced>>
    BY <1>5 DEF AddRoleMenufunction, LogicalDeletedRoleMenufunctionById
  <2> QED
    BY <1>0, <2>1, <2>2, <2>3, CrossTyped, OpsCount, Disturbed, Typed, TypedThen
<1>6. ASSUME NEW r \in Role, LogicallyDeleteRoleById(r) PROVE AuthorityTypeOK'
  <2>1. links' \in [Role -> [Menu -> Rows]] /\ roles' \in SUBSET Role
    BY <1>6, RowsTyped, Typed DEF LogicallyDeleteRoleById
  <2>2. OneStatement("link") /\ Disturb({r}) /\ UNCHANGED <<menus, elements, raced, repeated>>
    BY <1>6 DEF LogicallyDeleteRoleById
  <2> QED
    BY <1>0, <2>1, <2>2, CrossTyped, OpsCount, Disturbed, Typed, TypedThen
<1>7. ASSUME NEW a \in Admin, CommitAdd(a) \/ WriteMove(a) PROVE AuthorityTypeOK'
  <2>1. admin[a].menu \in Menu /\ Row(admin[a].pid, admin[a].path) \in Fields
    BY <1>7, RowTyped, Typed DEF CommitAdd, WriteMove, Operation
  <2>2. menus' \in [Menu -> Fields] /\ raced' \in SUBSET Menu
    BY <1>7, <2>1, Typed DEF CommitAdd, WriteMove
  <2>3. \E kind \in Kinds : End(a, kind)
    BY <1>0, <1>7 DEF CommitAdd, WriteMove
  <2>4. UNCHANGED <<roles, links, elements, ops, repeated, saves>>
    BY <1>7 DEF CommitAdd, WriteMove
  <2> QED
    BY <2>2, <2>3, <2>4, CrossTyped, Typed, TypedThen
<1>8. ASSUME NEW a \in Admin, CommitDelete(a) PROVE AuthorityTypeOK'
  <2>1. menus' \in [Menu -> Fields]
    <3>1. \A m \in Menu : [menus[m] EXCEPT !.state = "deleted"] \in Fields
      BY Typed DEF Fields
    <3> QED
      BY <1>8, <3>1, Typed DEF CommitDelete
  <2>2. links' \in [Role -> [Menu -> Rows]]
    BY <1>8, RowsTyped, Typed DEF CommitDelete
  <2>3. elements' \in [Element -> Menu \union {NoElement}] /\ raced' \in SUBSET Menu
    BY <1>8, Typed DEF CommitDelete, GetMenuFunctionChilders, LiveMenus
  <2>4. End(a, "delete") /\ Disturb(Role) /\ UNCHANGED <<roles, ops, repeated>>
    BY <1>8 DEF CommitDelete
  <2> QED
    BY <1>0, <2>1, <2>2, <2>3, <2>4, CrossTyped, Disturbed, Typed, TypedThen
<1>9. ASSUME NEW a \in Admin, Rollback(a) PROVE AuthorityTypeOK'
  BY <1>9, IdleTyped, Typed, TypedThen DEF Rollback
<1>10. ASSUME NEW e \in Element, NEW m \in Menu \union {NoElement}, PutElement(e, m) PROVE AuthorityTypeOK'
  <2>1. OneStatement("element") /\ elements' \in [Element -> Menu \union {NoElement}]
        /\ UNCHANGED <<menus, roles, links, raced, repeated, saves>>
    BY <1>10, Typed DEF PutElement
  <2> QED
    BY <1>0, <2>1, CrossTyped, OpsCount, Typed, TypedThen
<1>11. CASE UNCHANGED vars
  BY <1>11, Typed, TypedThen DEF vars
<1> QED
  BY <1>1, <1>2, <1>3, <1>4, <1>5, <1>6, <1>7, <1>8, <1>9, <1>10, <1>11
     DEF Next, OneStep, Steps, AddMenuElement, UpdateMenuElementById, DeleteMenuElementById

\* Every state of the tables and of the operations that are open is well typed,
\* for any administrators, menus, roles and elements and any number of operations.
THEOREM TypeCorrect == Spec => []AuthorityTypeOK
  BY InitTyped, TypeStep, PTL DEF Spec

-----------------------------------------------------------------------------
(* What the open operations hold on to.  These invariants relate what an    *)
(* operation has read to the tables as they have become.                    *)

Saving(a) == admin[a].op = "save"

\* As long as nothing has been written to the links of the role, a save would
\* still replace them by what it was asked for.
SavesRead == \A a \in Admin, r \in Role : IsSave(a, r) =>
    /\ admin[a].asked # {} /\ admin[a].add \subseteq admin[a].asked /\ admin[a].del \intersect admin[a].asked = {}
    /\ saves[r].calm /\ saves[r].some = {} =>
          admin[a].add = admin[a].asked \ LinkedTo(r) /\ admin[a].del = LinkedTo(r) \ admin[a].asked
\* A link that a save will add has no live row, unless another save or link came in between.
AddsAreNew == \A a \in Admin, r \in Role :
    IsSave(a, r) /\ admin[a].crossed \intersect {"save", "link"} = {} => \A m \in admin[a].add : links[r][m].live = 0
\* Only a save removes rows from the table.
RowsRemain == \A a \in Admin, r \in Role :
    IsSave(a, r) /\ "save" \notin admin[a].crossed => \A m \in admin[a].del : links[r][m] # NoRows
\* The menus that an operation relies on are there, unless a deletion came in between.
MenusRemain == \A a \in Admin : "delete" \notin admin[a].crossed =>
    /\ Saving(a) => admin[a].asked \subseteq LiveMenus
    /\ admin[a].op \in {"add", "move"} => admin[a].pid = Top \/ Live(admin[a].pid)


\* What an operation that stays open remembers of itself.
Kept(b) == admin'[b].op # "none" => Same(admin'[b], admin[b]) /\ admin[b].crossed \subseteq admin'[b].crossed
KeptWith(b, kind) == admin'[b].op # "none" => Kept(b) /\ kind \in admin'[b].crossed

LEMMA EndKept == ASSUME AuthorityTypeOK, NEW a \in Admin, NEW kind \in Kinds, End(a, kind)
                 PROVE  admin'[a].op = "none" /\ \A b \in Admin : KeptWith(b, kind)
  BY EndKeeps, Typed DEF Kept, KeptWith
LEMMA StatementKept == ASSUME AuthorityTypeOK, NEW kind \in Kinds, OneStatement(kind)
                       PROVE  \A b \in Admin : KeptWith(b, kind)
  BY OneStatementKeeps, Typed DEF Kept, KeptWith

\* The steps that leave the links of the roles and the saves alone.
Quiet ==
    /\ UNCHANGED <<links, repeated, saves>>
    /\ \A b \in Admin : Saving(b)' => Saving(b) /\ Kept(b)

\* The steps that matter to the links.
LEMMA LinkSteps ==
    ASSUME AuthorityTypeOK, [Next]_vars
    PROVE  \/ \E a \in Admin, r \in Role, asked \in SUBSET Menu : BeginSave(a, r, asked)
           \/ \E a \in Admin : CommitSave(a) \/ CommitDelete(a)
           \/ \E r \in Role, m \in Menu : AddRoleMenufunction(r, m) \/ LogicalDeletedRoleMenufunctionById(r, m)
           \/ \E r \in Role : LogicallyDeleteRoleById(r)
           \/ Quiet
<1> USE DEF tables
<1>0. {"add", "move", "element"} \subseteq Kinds
  BY DEF Kinds
<1>1. ASSUME NEW a \in Admin, NEW record, record.op # "save", Begin(a, record), UNCHANGED <<links, repeated, saves>> PROVE Quiet
  <2>1. \A b \in Admin : admin'[b] = IF b = a THEN record ELSE admin[b]
    BY <1>1, Typed DEF Begin
  <2> QED
    BY <1>1, <2>1 DEF Quiet, Saving, Kept, Same
<1>2. ASSUME NEW a \in Admin, NEW m, NEW f, BeginAdd(a, m, f) \/ BeginMove(a, m, f) PROVE Quiet
  <2>1. CASE BeginAdd(a, m, f)
    <3> DEFINE record == [Idle EXCEPT !.op = "add", !.menu = m, !.pid = f, !.path = PathUnder(f, m)]
    <3>1. record.op # "save"
      BY DEF Idle
    <3>2. Begin(a, record) /\ UNCHANGED <<links, repeated, saves>>
      BY <2>1 DEF BeginAdd
    <3> HIDE DEF record
    <3> QED
      BY <1>1, <3>1, <3>2
  <2>2. CASE BeginMove(a, m, f)
    <3> DEFINE record == [Idle EXCEPT !.op = "move", !.menu = m, !.pid = f, !.path = PathUnder(f, m)]
    <3>1. record.op # "save"
      BY DEF Idle
    <3>2. Begin(a, record) /\ UNCHANGED <<links, repeated, saves>>
      BY <2>2 DEF BeginMove
    <3> HIDE DEF record
    <3> QED
      BY <1>1, <3>1, <3>2
  <2> QED
    BY <1>2, <2>1, <2>2
<1>3. ASSUME NEW a \in Admin, NEW m, BeginDelete(a, m) PROVE Quiet
  <2> DEFINE record == [Idle EXCEPT !.op = "delete", !.menu = m, !.ids = GetMenuFunctionChilders(m)]
  <2>1. record.op # "save"
    BY DEF Idle
  <2>2. Begin(a, record) /\ UNCHANGED <<links, repeated, saves>>
    BY <1>3 DEF BeginDelete
  <2> HIDE DEF record
  <2> QED
    BY <1>1, <2>1, <2>2
<1>4. ASSUME NEW a \in Admin, CommitAdd(a) \/ WriteMove(a) PROVE Quiet
  <2>1. UNCHANGED <<links, repeated, saves>> /\ \E kind \in Kinds : End(a, kind)
    BY <1>0, <1>4 DEF CommitAdd, WriteMove
  <2> QED
    BY <2>1, EndKept DEF Quiet, Saving, Kept, KeptWith, Same
<1>5. ASSUME NEW a \in Admin, Rollback(a) PROVE Quiet
  <2>1. \A b \in Admin : admin'[b] = IF b = a THEN Idle ELSE admin[b]
    BY <1>5, Typed DEF Rollback
  <2> QED
    BY <1>5, <2>1, IdleTyped DEF Rollback, Quiet, Saving, Kept, Same
<1>6. ASSUME NEW e, NEW m, PutElement(e, m) PROVE Quiet
  <2>1. UNCHANGED <<links, repeated, saves>> /\ OneStatement("element")
    BY <1>6 DEF PutElement
  <2> QED
    BY <1>0, <2>1, StatementKept DEF Quiet, Saving, Kept, KeptWith, Same
<1>7. CASE UNCHANGED vars
  BY <1>7 DEF vars, Quiet, Saving, Kept, Same
<1> QED
  BY <1>2, <1>3, <1>4, <1>5, <1>6, <1>7
     DEF Next, OneStep, Steps, AddMenuElement, UpdateMenuElementById, DeleteMenuElementById

\* What a save finds when it begins, as its record holds it.
LEMMA SaveBegins ==
    ASSUME AuthorityTypeOK, NEW a \in Admin, NEW r \in Role, NEW asked \in SUBSET Menu, BeginSave(a, r, asked)
    PROVE  /\ asked # {} /\ asked \subseteq LiveMenus
           /\ admin'[a].op = "save" /\ admin'[a].role = r /\ admin'[a].asked = asked /\ admin'[a].crossed = {}
           /\ admin'[a].add = asked \ LinkedTo(r) /\ admin'[a].del = LinkedTo(r) \ asked
           /\ \A b \in Admin : b # a => admin'[b] = admin[b]
           /\ UNCHANGED <<menus, links, raced, repeated>>
<1> DEFINE record == [Idle EXCEPT !.op = "save", !.role = r, !.asked = asked,
                                  !.add = AddList(asked, LinkedTo(r)), !.del = DelList(asked, LinkedTo(r))]
<1>1. Begin(a, record) /\ asked # {} /\ asked \subseteq LiveMenus /\ UNCHANGED <<menus, links, raced, repeated>>
  BY DEF BeginSave, tables
<1>2. /\ record.op = "save" /\ record.role = r /\ record.asked = asked /\ record.crossed = {}
      /\ record.add = asked \ LinkedTo(r) /\ record.del = LinkedTo(r) \ asked
  BY DEF Idle, AddList, DelList
<1> HIDE DEF record
<1>3. admin'[a] = record /\ \A b \in Admin : b # a => admin'[b] = admin[b]
  BY <1>1, Typed DEF Begin
<1> QED
  BY <1>1, <1>2, <1>3

\* The menus a role has after a save.
LEMMA SaveLeaves ==
    ASSUME AuthorityTypeOK, NEW a \in Admin, CommitSave(a)
    PROVE  LET s == admin[a]
               r == s.role
           IN  /\ Saving(a) /\ r \in Role /\ s \in Operation
               /\ \A q \in Role \ {r} : links'[q] = links[q] /\ saves'[q] = saves[q]
               /\ \A m \in Menu : links'[r][m] =
                     LET row == IF m \in s.del THEN NoRows ELSE links[r][m]
                     IN  IF m \in s.add THEN Inserted(row) ELSE row
               /\ saves'[r] = Claimed(saves[r], s.asked)
               /\ repeated' = IF s.crossed \intersect {"save", "link"} # {} THEN repeated \union ({r} \X s.add) ELSE repeated
               /\ End(a, "save")
<1> DEFINE s == admin[a]
           r == s.role
<1>1. Saving(a) /\ r \in Role /\ s \in Operation
  BY Typed DEF CommitSave, Saving
<1>2. links' = [links EXCEPT ![r] = BatchInsert(BatchDelete(@, s.del), s.add)] /\ saves' = [saves EXCEPT ![r] = Claimed(@, s.asked)]
  BY DEF CommitSave, Claimed
<1>3. \A m \in Menu : links'[r][m] = LET row == IF m \in s.del THEN NoRows ELSE links[r][m]
                                     IN  IF m \in s.add THEN Inserted(row) ELSE row
  BY <1>1, <1>2, Typed DEF BatchInsert, BatchDelete
<1> QED
  BY <1>1, <1>2, <1>3, Typed DEF CommitSave

LEMMA LinkedAfterSave ==
    ASSUME AuthorityTypeOK, NEW a \in Admin, NEW r \in Role, IsSave(a, r), CommitSave(a)
    PROVE  LinkedTo(r)' = (LinkedTo(r) \ admin[a].del) \union admin[a].add
<1>1. ASSUME NEW m \in Menu
      PROVE  links'[r][m].live > 0 <=> (links[r][m].live > 0 /\ m \notin admin[a].del) \/ m \in admin[a].add
  <2>1. links[r][m] \in Rows /\ links[r][m].live \in Nat /\ NoRows.live = 0
    BY SaveLeaves, Typed DEF Rows, NoRows
  <2>2. Inserted(links[r][m]).live > 0 /\ Inserted(NoRows).live > 0
    BY <2>1, RowsTyped DEF Rows
  <2>3. links'[r][m] = LET row == IF m \in admin[a].del THEN NoRows ELSE links[r][m]
                       IN  IF m \in admin[a].add THEN Inserted(row) ELSE row
    BY SaveLeaves DEF IsSave
  <2> QED
    BY <2>1, <2>2, <2>3
<1>2. admin[a].add \subseteq Menu
  BY SaveLeaves DEF Operation
<1> QED
  BY <1>1, <1>2 DEF LinkedTo

LEMMA AgreeInit == Init => SavesRead /\ OverlappingSavesAgree
<1> SUFFICES ASSUME Init PROVE SavesRead /\ OverlappingSavesAgree
  OBVIOUS
<1>1. \A a \in Admin : ~Saving(a)
  BY IdleTyped DEF Init, Saving
<1>2. \A r \in Role : saves[r].some = {}
  BY DEF Init, NoSaves
<1> QED
  BY <1>1, <1>2 DEF SavesRead, IsSave, Saving, OverlappingSavesAgree

\* Operations other than saves only take the premise away.
LEMMA AgreeDisturbed ==
    ASSUME AuthorityTypeOK, SavesRead, OverlappingSavesAgree, NEW which, Disturb(which),
           \A q \in Role \ which : links'[q] = links[q], \A b \in Admin : Saving(b)' => Saving(b) /\ Kept(b)
    PROVE  SavesRead' /\ OverlappingSavesAgree'
<1>1. \A r \in Role \ which : saves'[r] = saves[r] /\ LinkedTo(r)' = LinkedTo(r)
  BY Disturbed, Typed DEF LinkedTo
<1>2. \A r \in Role \intersect which : ~saves'[r].calm
  BY Disturbed, Typed
<1>3. SavesRead'
  <2> SUFFICES ASSUME NEW b \in Admin, NEW r \in Role, IsSave(b, r)'
               PROVE  /\ admin'[b].asked # {} /\ admin'[b].add \subseteq admin'[b].asked
                      /\ admin'[b].del \intersect admin'[b].asked = {}
                      /\ saves'[r].calm /\ saves'[r].some = {} =>
                            /\ admin'[b].add = admin'[b].asked \ LinkedTo(r)'
                            /\ admin'[b].del = LinkedTo(r)' \ admin'[b].asked
    BY DEF SavesRead
  <2>1. IsSave(b, r) /\ Same(admin'[b], admin[b])
    BY DEF Kept, Saving, Same, IsSave
  <2> QED
    BY <1>1, <1>2, <2>1 DEF SavesRead, Same
<1>4. OverlappingSavesAgree'
  BY <1>1, <1>2 DEF OverlappingSavesAgree
<1> QED
  BY <1>3, <1>4

LEMMA AgreeBegin ==
    ASSUME AuthorityTypeOK, SavesRead, OverlappingSavesAgree,
           NEW a \in Admin, NEW r \in Role, NEW asked \in SUBSET Menu, BeginSave(a, r, asked)
    PROVE  SavesRead' /\ OverlappingSavesAgree'
<1>1. saves' = IF \E b \in Admin : IsSave(b, r) THEN saves ELSE [saves EXCEPT ![r] = NoSaves]
  BY DEF BeginSave
<1>2. \A q \in Role : LinkedTo(q)' = LinkedTo(q)
  BY SaveBegins DEF LinkedTo
<1>3. NoSaves.some = {} /\ \A q \in Role : saves'[q] = saves[q] \/ (q = r /\ saves'[q] = NoSaves /\ \A b \in Admin : ~IsSave(b, q))
  BY <1>1, Typed DEF NoSaves
<1>4. OverlappingSavesAgree'
  BY <1>2, <1>3 DEF OverlappingSavesAgree
<1>5. ASSUME NEW b \in Admin, NEW q \in Role, IsSave(b, q)'
      PROVE  /\ admin'[b].asked # {} /\ admin'[b].add \subseteq admin'[b].asked
             /\ admin'[b].del \intersect admin'[b].asked = {}
             /\ saves'[q].calm /\ saves'[q].some = {} =>
                   /\ admin'[b].add = admin'[b].asked \ LinkedTo(q)'
                   /\ admin'[b].del = LinkedTo(q)' \ admin'[b].asked
  <2>1. CASE b = a
    BY <1>2, <1>5, <2>1, SaveBegins DEF IsSave
  <2>2. CASE b # a
    <3>1. IsSave(b, q) /\ admin'[b] = admin[b]
      BY <1>5, <2>2, SaveBegins DEF IsSave
    <3>2. saves'[q] = saves[q]
      BY <1>3, <3>1
    <3> QED
      BY <1>2, <3>1, <3>2 DEF SavesRead
  <2> QED
    BY <2>1, <2>2
<1> QED
  BY <1>4, <1>5 DEF SavesRead

LEMMA AgreeCommit ==
    ASSUME AuthorityTypeOK, SavesRead, OverlappingSavesAgree, NEW a \in Admin, CommitSave(a)
    PROVE  SavesRead' /\ OverlappingSavesAgree'
<1>0. PICK r \in Role : IsSave(a, r)
  BY SaveLeaves DEF Saving, IsSave
<1> DEFINE asked == admin[a].asked
<1>1. asked # {} /\ asked \subseteq Menu /\ admin[a].add \subseteq asked /\ admin[a].del \intersect asked = {}
  BY <1>0, SaveLeaves DEF SavesRead, Operation
<1>2. saves'[r].some = saves[r].some \union asked /\ saves'[r].all = saves[r].all \intersect asked /\ saves'[r].calm = saves[r].calm
  BY <1>0, <1>1, SaveLeaves, ClaimedTyped, Typed DEF IsSave
<1>3. \A q \in Role \ {r} : saves'[q] = saves[q] /\ LinkedTo(q)' = LinkedTo(q)
  BY <1>0, SaveLeaves DEF IsSave, LinkedTo
<1>4. LinkedTo(r)' = (LinkedTo(r) \ admin[a].del) \union admin[a].add
  BY <1>0, LinkedAfterSave
<1>5. OverlappingSavesAgree'
  <2> SUFFICES ASSUME saves'[r].calm
               PROVE  saves'[r].all \subseteq LinkedTo(r)' /\ LinkedTo(r)' \subseteq saves'[r].some
    BY <1>3 DEF OverlappingSavesAgree
  <2>1. saves[r].calm
    BY <1>2
  <2>2. CASE saves[r].some = {}
    <3>1. admin[a].add = asked \ LinkedTo(r) /\ admin[a].del = LinkedTo(r) \ asked
      BY <1>0, <2>1, <2>2 DEF SavesRead
    <3>2. LinkedTo(r)' = asked
      BY <1>4, <3>1
    <3> QED
      BY <1>2, <3>2
  <2>3. CASE saves[r].some # {}
    <3>1. saves[r].all \subseteq LinkedTo(r) /\ LinkedTo(r) \subseteq saves[r].some
      BY <2>1, <2>3 DEF OverlappingSavesAgree
    <3> QED
      BY <1>1, <1>2, <1>4, <3>1
  <2> QED
    BY <2>2, <2>3
<1>6. ASSUME NEW b \in Admin, NEW q \in Role, IsSave(b, q)'
      PROVE  /\ admin'[b].asked # {} /\ admin'[b].add \subseteq admin'[b].asked
             /\ admin'[b].del \intersect admin'[b].asked = {}
             /\ saves'[q].calm /\ saves'[q].some = {} =>
                   /\ admin'[b].add = admin'[b].asked \ LinkedTo(q)'
                   /\ admin'[b].del = LinkedTo(q)' \ admin'[b].asked
  <2>1. End(a, "save") /\ "save" \in Kinds
    BY SaveLeaves DEF Kinds
  <2>2. IsSave(b, q) /\ Same(admin'[b], admin[b])
    BY <1>6, <2>1, EndKept DEF IsSave, KeptWith, Kept, Same
  <2>3. saves'[r].some # {}
    BY <1>1, <1>2
  <2> QED
    BY <1>3, <2>2, <2>3 DEF SavesRead, Same
<1> QED
  BY <1>5, <1>6 DEF SavesRead

LEMMA AgreeStep == AuthorityTypeOK /\ SavesRead /\ OverlappingSavesAgree /\ [Next]_vars => SavesRead' /\ OverlappingSavesAgree'
<1> SUFFICES ASSUME AuthorityTypeOK, SavesRead, OverlappingSavesAgree, [Next]_vars PROVE SavesRead' /\ OverlappingSavesAgree'
  OBVIOUS
<1>0. {"link", "delete"} \subseteq Kinds
  BY DEF Kinds
<1>1. ASSUME NEW a \in Admin, CommitDelete(a) PROVE SavesRead' /\ OverlappingSavesAgree'
  <2>1. Disturb(Role) /\ End(a, "delete")
    BY <1>1 DEF CommitDelete
  <2>2. \A b \in Admin : Saving(b)' => Saving(b) /\ Kept(b)
    BY <1>0, <2>1, EndKept DEF Saving, KeptWith, Kept, Same
  <2> QED
    BY <2>1, <2>2, AgreeDisturbed
<1>2. ASSUME NEW r \in Role, NEW m \in Menu, AddRoleMenufunction(r, m) \/ LogicalDeletedRoleMenufunctionById(r, m)
      PROVE  SavesRead' /\ OverlappingSavesAgree'
  <2>1. Disturb({r}) /\ OneStatement("link") /\ \A q \in Role \ {r} : links'[q] = links[q]
    BY <1>2, Typed DEF AddRoleMenufunction, LogicalDeletedRoleMenufunctionById
  <2>2. \A b \in Admin : Saving(b)' => Saving(b) /\ Kept(b)
    BY <1>0, <2>1, StatementKept DEF Saving, KeptWith, Kept, Same
  <2> QED
    BY <2>1, <2>2, AgreeDisturbed
<1>3. ASSUME NEW r \in Role, LogicallyDeleteRoleById(r) PROVE SavesRead' /\ OverlappingSavesAgree'
  <2>1. Disturb({r}) /\ OneStatement("link") /\ \A q \in Role \ {r} : links'[q] = links[q]
    BY <1>3, Typed DEF LogicallyDeleteRoleById
  <2>2. \A b \in Admin : Saving(b)' => Saving(b) /\ Kept(b)
    BY <1>0, <2>1, StatementKept DEF Saving, KeptWith, Kept, Same
  <2> QED
    BY <2>1, <2>2, AgreeDisturbed
<1>4. CASE Quiet
  <2>1. \A r \in Role : LinkedTo(r)' = LinkedTo(r) /\ saves' = saves
    BY <1>4 DEF Quiet, LinkedTo
  <2>2. \A b \in Admin, r \in Role : IsSave(b, r)' => IsSave(b, r) /\ Same(admin'[b], admin[b])
    BY <1>4 DEF Quiet, Saving, IsSave, Kept, Same
  <2> QED
    BY <2>1, <2>2 DEF SavesRead, OverlappingSavesAgree, Same
<1> QED
  BY <1>1, <1>2, <1>3, <1>4, AgreeBegin, AgreeCommit, LinkSteps

\* Saves of one role that overlap do not undo each other, however many
\* administrators save at once and whatever they tick.
THEOREM SavesAgree == Spec => []OverlappingSavesAgree
<1>1. Spec => [](SavesRead /\ OverlappingSavesAgree)
  BY AgreeInit, AgreeStep, TypeCorrect, PTL DEF Spec
<1> QED
  BY <1>1, PTL

-----------------------------------------------------------------------------
(* The rows of a link                                                      *)

RowsInv == AddsAreNew /\ RowsRemain /\ OneRowUnlessRepeated

\* What an operation that is no save makes of the rows of a link: it leaves
\* them, removes live ones but keeps a row, or adds one, and is then noted.
LEMMA RowsChanged ==
    ASSUME AuthorityTypeOK, SavesRead, RowsInv,
           \A b \in Admin : Saving(b)' => Saving(b) /\ Kept(b),
           \A r \in Role, m \in Menu :
              \/ links'[r][m] = links[r][m]
              \/ links'[r][m].live \in Nat /\ links'[r][m].live < links[r][m].live /\ links'[r][m] # NoRows
              \/ links'[r][m] = LogicallyDeleted(links[r][m])
              \/ /\ links'[r][m] = Inserted(links[r][m])
                 /\ links[r][m].live > 0 => <<r, m>> \in repeated'
                 /\ \A b \in Admin : KeptWith(b, "link"),
           repeated \subseteq repeated'
    PROVE  RowsInv'
<1>1. ASSUME NEW r \in Role, NEW m \in Menu
      PROVE  /\ links[r][m] \in Rows /\ links[r][m].live \in Nat
             /\ Inserted(links[r][m]).live = links[r][m].live + 1
             /\ LogicallyDeleted(links[r][m]).live = 0
             /\ links[r][m] # NoRows => LogicallyDeleted(links[r][m]) # NoRows
             /\ NoRows.live = 0
  BY RowsTyped, Typed DEF Rows, NoRows
<1>2. ASSUME NEW b \in Admin, NEW r \in Role, IsSave(b, r)'
      PROVE  /\ IsSave(b, r) /\ admin'[b].add = admin[b].add /\ admin'[b].del = admin[b].del
             /\ admin[b].crossed \subseteq admin'[b].crossed
             /\ admin[b].add \subseteq Menu /\ admin[b].del \subseteq Menu
  <2>1. Saving(b)' /\ Saving(b) /\ Kept(b)
    BY <1>2 DEF IsSave, Saving
  <2>2. Same(admin'[b], admin[b]) /\ admin[b].crossed \subseteq admin'[b].crossed
    BY <2>1 DEF Kept, Saving
  <2>3. admin[b].add \subseteq Menu /\ admin[b].del \subseteq Menu
    BY Typed DEF Operation
  <2> QED
    BY <1>2, <2>2, <2>3 DEF IsSave, Same
<1>3. AddsAreNew'
  <2> SUFFICES ASSUME NEW b \in Admin, NEW r \in Role, IsSave(b, r)', admin'[b].crossed \intersect {"save", "link"} = {},
                      NEW m \in admin'[b].add
               PROVE  links'[r][m].live = 0
    BY DEF AddsAreNew
  <2>1. IsSave(b, r) /\ m \in admin[b].add /\ m \in Menu /\ admin[b].crossed \intersect {"save", "link"} = {}
    BY <1>2
  <2>2. links[r][m].live = 0
    BY <2>1 DEF RowsInv, AddsAreNew
  <2>3. ~KeptWith(b, "link")
    BY DEF KeptWith, IsSave
  <2>4. LogicallyDeleted(links[r][m]).live = 0
    BY <1>1, <2>1
  <2>5. ~(links'[r][m] = Inserted(links[r][m]) /\ \A c \in Admin : KeptWith(c, "link"))
    BY <2>3
  <2>6. ~(links'[r][m].live \in Nat /\ links'[r][m].live < links[r][m].live)
    BY <2>2
  <2> QED
    BY <2>1, <2>2, <2>4, <2>5, <2>6
<1>4. RowsRemain'
  <2> SUFFICES ASSUME NEW b \in Admin, NEW r \in Role, IsSave(b, r)', "save" \notin admin'[b].crossed, NEW m \in admin'[b].del
               PROVE  links'[r][m] # NoRows
    BY DEF RowsRemain
  <2>1. IsSave(b, r) /\ m \in admin[b].del /\ m \in Menu /\ "save" \notin admin[b].crossed
    BY <1>2
  <2>2. links[r][m] # NoRows
    BY <2>1 DEF RowsInv, RowsRemain
  <2>3. Inserted(links[r][m]) # NoRows
    BY <1>1, <2>1
  <2> QED
    BY <1>1, <2>1, <2>2, <2>3
<1>5. OneRowUnlessRepeated'
  <2> SUFFICES ASSUME NEW r \in Role, NEW m \in Menu, links'[r][m].live > 1
               PROVE  <<r, m>> \in repeated'
    BY DEF OneRowUnlessRepeated
  <2>1. links[r][m].live > 1 => <<r, m>> \in repeated
    BY DEF RowsInv, OneRowUnlessRepeated
  <2> QED
    BY <1>1, <2>1
<1> QED
  BY <1>3, <1>4, <1>5 DEF RowsInv

LEMMA RowsInit == Init => RowsInv
<1> SUFFICES ASSUME Init PROVE RowsInv
  OBVIOUS
<1>1. \A a \in Admin, r \in Role : ~IsSave(a, r)
  BY IdleTyped DEF Init, IsSave
<1>2. NoRows.live = 0 /\ Inserted(NoRows).live = 1
  BY RowsTyped DEF NoRows
<1>3. \A r \in Role, m \in Menu : links[r][m].live \in {0, 1}
  BY <1>2 DEF Init
<1> QED
  BY <1>1, <1>3 DEF RowsInv, AddsAreNew, RowsRemain, OneRowUnlessRepeated

LEMMA RowsBegin ==
    ASSUME AuthorityTypeOK, RowsInv, NEW a \in Admin, NEW r \in Role, NEW asked \in SUBSET Menu, BeginSave(a, r, asked)
    PROVE  RowsInv'
<1>1. OneRowUnlessRepeated'
  BY SaveBegins DEF RowsInv, OneRowUnlessRepeated
<1>2. ASSUME NEW b \in Admin, NEW q \in Role, IsSave(b, q)'
      PROVE  /\ admin'[b].crossed \intersect {"save", "link"} = {} => \A m \in admin'[b].add : links'[q][m].live = 0
             /\ "save" \notin admin'[b].crossed => \A m \in admin'[b].del : links'[q][m] # NoRows
  <2>1. CASE b = a
    <3>1. q = r /\ admin'[b].add = asked \ LinkedTo(r) /\ admin'[b].del = LinkedTo(r) \ asked
      BY <1>2, <2>1, SaveBegins DEF IsSave
    <3>2. \A m \in Menu : links[r][m].live \in Nat /\ NoRows.live = 0
      BY Typed DEF Rows, NoRows
    <3>3. \A m \in asked \ LinkedTo(r) : links[r][m].live = 0
      BY <3>2 DEF LinkedTo
    <3>4. \A m \in LinkedTo(r) \ asked : links[r][m] # NoRows
      BY <3>2 DEF LinkedTo
    <3> QED
      BY <3>1, <3>3, <3>4, SaveBegins
  <2>2. CASE b # a
    BY <1>2, <2>2, SaveBegins DEF IsSave, RowsInv, AddsAreNew, RowsRemain
  <2> QED
    BY <2>1, <2>2
<1> QED
  BY <1>1, <1>2 DEF RowsInv, AddsAreNew, RowsRemain

LEMMA RowsCommit ==
    ASSUME AuthorityTypeOK, SavesRead, RowsInv, NEW a \in Admin, CommitSave(a)
    PROVE  RowsInv'
<1>0. PICK r \in Role : IsSave(a, r)
  BY SaveLeaves DEF Saving, IsSave
<1>1. End(a, "save") /\ "save" \in Kinds
  BY SaveLeaves DEF Kinds
<1>2. \A b \in Admin, q \in Role : IsSave(b, q)' => "save" \in admin'[b].crossed
  BY <1>1, EndKept DEF IsSave, KeptWith
<1>3. AddsAreNew' /\ RowsRemain'
  BY <1>2 DEF AddsAreNew, RowsRemain
<1>4. ASSUME NEW q \in Role, NEW m \in Menu, links'[q][m].live > 1 PROVE <<q, m>> \in repeated'
  <2>1. repeated \subseteq repeated'
    BY SaveLeaves
  <2>2. links[q][m].live > 1 => <<q, m>> \in repeated
    BY DEF RowsInv, OneRowUnlessRepeated
  <2>3. CASE q # r
    BY <1>0, <1>4, <2>1, <2>2, <2>3, SaveLeaves DEF IsSave
  <2>4. CASE q = r
    <3>1. links'[r][m] = LET row == IF m \in admin[a].del THEN NoRows ELSE links[r][m]
                         IN  IF m \in admin[a].add THEN Inserted(row) ELSE row
      BY <1>0, SaveLeaves DEF IsSave
    <3>2. links[r][m].live \in Nat /\ NoRows.live = 0 /\ Inserted(NoRows).live = 1
          /\ Inserted(links[r][m]).live = links[r][m].live + 1
      <4>1. links[r][m] \in Rows /\ NoRows \in Rows /\ NoRows.live = 0
        BY RowsTyped, Typed DEF NoRows
      <4>2. links[r][m].live \in Nat
        BY <4>1 DEF Rows
      <4> QED
        BY <4>1, <4>2, RowsTyped
    <3>3. CASE m \in admin[a].add
      <4>1. links[r][m].live > 0
        BY <1>4, <2>4, <3>1, <3>2, <3>3
      <4>2. admin[a].crossed \intersect {"save", "link"} # {}
        BY <1>0, <3>3, <4>1 DEF RowsInv, AddsAreNew
      <4> QED
        BY <1>0, <2>4, <3>3, <4>2, SaveLeaves DEF IsSave
    <3>4. CASE m \notin admin[a].add
      BY <1>4, <2>1, <2>2, <2>4, <3>1, <3>2, <3>4
    <3> QED
      BY <3>3, <3>4
  <2> QED
    BY <2>3, <2>4
<1> QED
  BY <1>3, <1>4 DEF RowsInv, OneRowUnlessRepeated

LEMMA RowsStep == AuthorityTypeOK /\ SavesRead /\ RowsInv /\ [Next]_vars => RowsInv'
<1> SUFFICES ASSUME AuthorityTypeOK, SavesRead, RowsInv, [Next]_vars PROVE RowsInv'
  OBVIOUS
<1>0. {"link", "delete"} \subseteq Kinds
  BY DEF Kinds
<1>1. ASSUME NEW a \in Admin, CommitDelete(a) PROVE RowsInv'
  <2>1. End(a, "delete") /\ repeated' = repeated
    BY <1>1 DEF CommitDelete
  <2>2. \A b \in Admin : Saving(b)' => Saving(b) /\ Kept(b)
    BY <1>0, <2>1, EndKept DEF Saving, KeptWith, Kept, Same
  <2>3. \A r \in Role, m \in Menu : links'[r][m] = links[r][m] \/ links'[r][m] = LogicallyDeleted(links[r][m])
    BY <1>1 DEF CommitDelete
  <2> QED
    BY <2>1, <2>2, <2>3, RowsChanged
<1>2. ASSUME NEW r \in Role, NEW m \in Menu, AddRoleMenufunction(r, m) PROVE RowsInv'
  <2>1. OneStatement("link") /\ repeated \subseteq repeated' /\ (m \in LinkedTo(r) => <<r, m>> \in repeated')
    BY <1>2 DEF AddRoleMenufunction
  <2>2. \A b \in Admin : KeptWith(b, "link") /\ (Saving(b)' => Saving(b) /\ Kept(b))
    BY <1>0, <2>1, StatementKept DEF Saving, KeptWith, Kept, Same
  <2>3. \A q \in Role, k \in Menu : links'[q][k] = links[q][k] \/ (q = r /\ k = m /\ links'[q][k] = Inserted(links[q][k]))
    BY <1>2, Typed DEF AddRoleMenufunction
  <2> QED
    BY <2>1, <2>2, <2>3, RowsChanged DEF LinkedTo
<1>3. ASSUME NEW r \in Role, NEW m \in Menu, LogicalDeletedRoleMenufunctionById(r, m) PROVE RowsInv'
  <2>1. OneStatement("link") /\ repeated' = repeated /\ m \in LinkedTo(r)
    BY <1>3 DEF LogicalDeletedRoleMenufunctionById
  <2>2. \A b \in Admin : Saving(b)' => Saving(b) /\ Kept(b)
    BY <1>0, <2>1, StatementKept DEF Saving, KeptWith, Kept, Same
  <2>3. \A q \in Role, k \in Menu :
           links'[q][k] = links[q][k] \/ (q = r /\ k = m /\ links'[q][k] = [live |-> links[r][m].live - 1, deleted |-> TRUE])
    BY <1>3, Typed DEF LogicalDeletedRoleMenufunctionById
  <2>4. links[r][m].live \in Nat /\ links[r][m].live > 0
    BY <2>1, Typed DEF LinkedTo, Rows
  <2>5. ASSUME NEW row, row = [live |-> links[r][m].live - 1, deleted |-> TRUE]
        PROVE  row.live \in Nat /\ row.live < links[r][m].live /\ row # NoRows
    BY <2>4, <2>5 DEF NoRows
  <2> QED
    BY <2>1, <2>2, <2>3, <2>5, RowsChanged
<1>4. ASSUME NEW r \in Role, LogicallyDeleteRoleById(r) PROVE RowsInv'
  <2>1. OneStatement("link") /\ repeated' = repeated
    BY <1>4 DEF LogicallyDeleteRoleById
  <2>2. \A b \in Admin : Saving(b)' => Saving(b) /\ Kept(b)
    BY <1>0, <2>1, StatementKept DEF Saving, KeptWith, Kept, Same
  <2>3. \A q \in Role, k \in Menu : links'[q][k] = links[q][k] \/ links'[q][k] = LogicallyDeleted(links[q][k])
    BY <1>4, Typed DEF LogicallyDeleteRoleById
  <2> QED
    BY <2>1, <2>2, <2>3, RowsChanged
<1>5. CASE Quiet
  BY <1>5, RowsChanged DEF Quiet
<1> QED
  BY <1>1, <1>2, <1>3, <1>4, <1>5, RowsBegin, RowsCommit, LinkSteps

LEMMA RowsAlways == Spec => [](AuthorityTypeOK /\ RowsInv)
<1>1. Init => SavesRead /\ OverlappingSavesAgree /\ RowsInv
  BY AgreeInit, RowsInit
<1>2. AuthorityTypeOK /\ SavesRead /\ OverlappingSavesAgree /\ RowsInv /\ [Next]_vars
      => SavesRead' /\ OverlappingSavesAgree' /\ RowsInv'
  BY AgreeStep, RowsStep
<1>3. Spec => [](SavesRead /\ OverlappingSavesAgree /\ RowsInv)
  BY <1>1, <1>2, TypeCorrect, PTL DEF Spec
<1> QED
  BY <1>3, TypeCorrect, PTL

\* A link has a second live row only if two operations added it of which one
\* could not see, or did not look for, the other's row.
THEOREM OneRow == Spec => []OneRowUnlessRepeated
<1>1. RowsInv => OneRowUnlessRepeated
  BY DEF RowsInv
<1> QED
  BY <1>1, RowsAlways, PTL

\* A save that no other save overlaps finds rows to delete when it expects some,
\* whatever is deleted logically in between.
THEOREM LoneSaveSucceeds == Spec => []LoneSaveFindsItsRows
<1>1. AuthorityTypeOK /\ RowsInv => LoneSaveFindsItsRows
  <2> SUFFICES ASSUME AuthorityTypeOK, RowsRemain, NEW a \in Admin, admin[a].op = "save", "save" \notin admin[a].crossed
               PROVE  ~FindsNoRow(a)
    BY DEF LoneSaveFindsItsRows, RowsInv
  <2>1. IsSave(a, admin[a].role) /\ admin[a].role \in Role
    BY Typed DEF IsSave
  <2> QED
    BY <2>1 DEF RowsRemain, FindsNoRow
<1> QED
  BY <1>1, RowsAlways, PTL

-----------------------------------------------------------------------------
(* The menus below a menu that is deleted                                  *)

\* The steps that leave the menus alone and begin nothing that relies on one.
Still ==
    /\ menus' = menus /\ raced \subseteq raced'
    /\ \A b \in Admin : admin'[b].op \in {"save", "add", "move"} => admin[b].op # "none" /\ Kept(b)

\* The steps that matter to the menus.
LEMMA MenuSteps ==
    ASSUME AuthorityTypeOK, [Next]_vars
    PROVE  \/ \E a \in Admin, r \in Role, asked \in SUBSET Menu : BeginSave(a, r, asked)
           \/ \E a \in Admin, m \in Menu, f \in Menu \union {Top} : BeginAdd(a, m, f) \/ BeginMove(a, m, f)
           \/ \E a \in Admin : CommitAdd(a) \/ WriteMove(a) \/ CommitDelete(a)
           \/ Still
<1> USE DEF tables
<1>0. {"save", "link", "element"} \subseteq Kinds
  BY DEF Kinds
<1>1. ASSUME NEW kind \in Kinds, menus' = menus, raced \subseteq raced',
             (\E a \in Admin : End(a, kind)) \/ OneStatement(kind)
      PROVE  Still
  <2>1. \A b \in Admin : KeptWith(b, kind)
    BY <1>1, EndKept, StatementKept
  <2> QED
    BY <1>1, <2>1 DEF Still, KeptWith, Kept, Same
<1>2. ASSUME NEW a \in Admin, NEW m, BeginDelete(a, m) PROVE Still
  <2> DEFINE record == [Idle EXCEPT !.op = "delete", !.menu = m, !.ids = GetMenuFunctionChilders(m)]
  <2>1. record.op = "delete"
    BY DEF Idle
  <2>2. Begin(a, record) /\ UNCHANGED <<menus, raced>>
    BY <1>2 DEF BeginDelete
  <2> HIDE DEF record
  <2>3. \A b \in Admin : admin'[b] = IF b = a THEN record ELSE admin[b]
    BY <2>2, Typed DEF Begin
  <2> QED
    BY <2>1, <2>2, <2>3 DEF Still, Kept, Same
<1>3. ASSUME NEW a \in Admin, CommitSave(a) PROVE Still
  <2>1. menus' = menus /\ raced \subseteq raced' /\ End(a, "save")
    BY <1>3 DEF CommitSave
  <2> QED
    BY <1>0, <1>1, <2>1
<1>4. ASSUME NEW r \in Role, NEW m \in Menu, AddRoleMenufunction(r, m) \/ LogicalDeletedRoleMenufunctionById(r, m)
      PROVE  Still
  <2>1. menus' = menus /\ raced' = raced /\ OneStatement("link")
    BY <1>4 DEF AddRoleMenufunction, LogicalDeletedRoleMenufunctionById
  <2> QED
    BY <1>0, <1>1, <2>1
<1>5. ASSUME NEW r \in Role, LogicallyDeleteRoleById(r) PROVE Still
  <2>1. menus' = menus /\ raced' = raced /\ OneStatement("link")
    BY <1>5 DEF LogicallyDeleteRoleById
  <2> QED
    BY <1>0, <1>1, <2>1
<1>6. ASSUME NEW a \in Admin, Rollback(a) PROVE Still
  <2>1. \A b \in Admin : admin'[b] = IF b = a THEN Idle ELSE admin[b]
    BY <1>6, Typed DEF Rollback
  <2> QED
    BY <1>6, <2>1, IdleTyped DEF Rollback, Still, Kept, Same
<1>7. ASSUME NEW e, NEW m, PutElement(e, m) PROVE Still
  <2>1. menus' = menus /\ raced' = raced /\ OneStatement("element")
    BY <1>7 DEF PutElement
  <2> QED
    BY <1>0, <1>1, <2>1
<1>8. CASE UNCHANGED vars
  BY <1>8 DEF vars, Still, Kept, Same
<1> QED
  BY <1>2, <1>3, <1>4, <1>5, <1>6, <1>7, <1>8
     DEF Next, OneStep, Steps, AddMenuElement, UpdateMenuElementById, DeleteMenuElementById

\* What an addition or a move finds when it begins.
LEMMA PlaceBegins ==
    ASSUME AuthorityTypeOK, NEW a \in Admin, NEW m \in Menu, NEW f \in Menu \union {Top}, BeginAdd(a, m, f) \/ BeginMove(a, m, f)
    PROVE  /\ f = Top \/ Live(f)
           /\ admin'[a].op \in {"add", "move"} /\ admin'[a].pid = f
           /\ \A b \in Admin : b # a => admin'[b] = admin[b]
           /\ UNCHANGED <<menus, links, elements, raced>>
<1>1. PICK kind \in {"add", "move"} : Begin(a, [Idle EXCEPT !.op = kind, !.menu = m, !.pid = f, !.path = PathUnder(f, m)])
  BY DEF BeginAdd, BeginMove
<1> DEFINE record == [Idle EXCEPT !.op = kind, !.menu = m, !.pid = f, !.path = PathUnder(f, m)]
<1>2. record.op = kind /\ record.pid = f
  BY DEF Idle
<1> HIDE DEF record
<1>3. \A b \in Admin : admin'[b] = IF b = a THEN record ELSE admin[b]
  BY <1>1, Typed DEF Begin, record
<1> QED
  BY <1>2, <1>3 DEF BeginAdd, BeginMove, tables

LEMMA RowFields ==
    /\ \A f, p : Row(f, p).state = "live" /\ Row(f, p).pid = f /\ Row(f, p).path = p
    /\ Absent.state = "absent"
  BY DEF Row, Absent

\* What an addition or a move writes.
LEMMA PlaceEnds ==
    ASSUME AuthorityTypeOK, NEW a \in Admin, CommitAdd(a) \/ WriteMove(a)
    PROVE  /\ admin[a].op \in {"add", "move"} /\ admin[a].menu \in Menu /\ admin[a].pid \in Menu \union {Top}
           /\ \A m \in Menu : menus'[m] = IF m = admin[a].menu THEN Row(admin[a].pid, admin[a].path) ELSE menus[m]
           /\ raced' = IF "delete" \in admin[a].crossed THEN raced \union {admin[a].menu} ELSE raced
           /\ admin'[a].op = "none" /\ \A b \in Admin : Kept(b)
           /\ UNCHANGED <<links, elements>>
<1>0. {"add", "move"} \subseteq Kinds
  BY DEF Kinds
<1>1. \E kind \in Kinds : End(a, kind)
  BY <1>0 DEF CommitAdd, WriteMove
<1>2. admin'[a].op = "none" /\ \A b \in Admin : Kept(b)
  BY <1>1, EndKept DEF KeptWith, Kept
<1>3. admin[a].op \in {"add", "move"} /\ admin[a].menu \in Menu /\ admin[a].pid \in Menu \union {Top}
  BY Typed DEF CommitAdd, WriteMove, Operation
<1> QED
  BY <1>2, <1>3, Typed DEF CommitAdd, WriteMove

\* No menu is lost by a step that is no deletion.
LEMMA LiveAfterPlace ==
    ASSUME AuthorityTypeOK, NEW a \in Admin, CommitAdd(a) \/ WriteMove(a)
    PROVE  \A m \in Menu \union {Top} : Live(m) => Live(m)'
<1>1. Top \notin Menu
  BY AuthorityAssumption DEF Top
<1> QED
  BY <1>1, RowFields, PlaceEnds DEF Live

LEMMA RemainStep == AuthorityTypeOK /\ MenusRemain /\ [Next]_vars => MenusRemain'
<1> SUFFICES ASSUME AuthorityTypeOK, MenusRemain, [Next]_vars PROVE MenusRemain'
  OBVIOUS
<1>0. \A b \in Admin : admin[b].asked \subseteq Menu /\ admin[b].pid \in Menu \union {Top}
  BY Typed DEF Operation
<1>1. ASSUME \A m \in Menu \union {Top} : Live(m) => Live(m)',
             \A b \in Admin : admin'[b].op \in {"save", "add", "move"} => admin[b].op # "none" /\ Kept(b)
      PROVE  MenusRemain'
  <2>1. ASSUME NEW b \in Admin, "delete" \notin admin'[b].crossed, Saving(b)'
        PROVE  admin'[b].asked \subseteq LiveMenus'
    <3>1. Saving(b) /\ admin'[b].asked = admin[b].asked /\ "delete" \notin admin[b].crossed
      BY <1>1, <2>1 DEF Saving, Kept, Same
    <3> QED
      BY <1>0, <1>1, <3>1 DEF MenusRemain, LiveMenus
  <2>2. ASSUME NEW b \in Admin, "delete" \notin admin'[b].crossed, admin'[b].op \in {"add", "move"}, NEW f, f = admin'[b].pid, f # Top
        PROVE  menus'[f].state = "live"
    <3>1. admin[b].op \in {"add", "move"} /\ f = admin[b].pid /\ "delete" \notin admin[b].crossed
      BY <1>1, <2>2 DEF Kept, Same
    <3>2. Live(f) /\ f \in Menu
      BY <1>0, <2>2, <3>1 DEF MenusRemain
    <3> QED
      BY <1>1, <3>2 DEF Live
  <2> QED
    BY <2>1, <2>2 DEF MenusRemain, Live
<1>2. ASSUME NEW a \in Admin, NEW r \in Role, NEW asked \in SUBSET Menu, BeginSave(a, r, asked) PROVE MenusRemain'
  BY <1>2, SaveBegins DEF MenusRemain, Saving, LiveMenus, Live
<1>3. ASSUME NEW a \in Admin, NEW m \in Menu, NEW f \in Menu \union {Top}, BeginAdd(a, m, f) \/ BeginMove(a, m, f) PROVE MenusRemain'
  BY <1>3, PlaceBegins DEF MenusRemain, Saving, LiveMenus, Live
<1>4. ASSUME NEW a \in Admin, CommitAdd(a) \/ WriteMove(a) PROVE MenusRemain'
  <2>1. \A b \in Admin : admin'[b].op \in {"save", "add", "move"} => admin[b].op # "none" /\ Kept(b)
    BY <1>4, PlaceEnds DEF Kept, Same
  <2> QED
    BY <1>1, <1>4, <2>1, LiveAfterPlace
<1>5. ASSUME NEW a \in Admin, CommitDelete(a) PROVE MenusRemain'
  <2>1. End(a, "delete") /\ "delete" \in Kinds
    BY <1>5 DEF CommitDelete, Kinds
  <2>2. \A b \in Admin : admin'[b].op = "none" \/ "delete" \in admin'[b].crossed
    BY <2>1, EndKept DEF KeptWith
  <2> QED
    BY <2>2 DEF MenusRemain, Saving
<1>6. CASE Still
  BY <1>1, <1>6 DEF Still, Live
<1> QED
  BY <1>2, <1>3, <1>4, <1>5, <1>6, MenuSteps

\* OrphansHaveAReason, menu by menu and father by father.
Orphan(m, f) == menus[m].state = "live" /\ menus[m].pid = f /\ menus[f].state # "live" /\ m \notin raced
Reason(m, f) == menus[m].path # Append(menus[f].path, m)
LEMMA OrphanRule ==
    AuthorityTypeOK => (OrphansHaveAReason <=> \A m \in Menu, f \in Menu : Orphan(m, f) => Reason(m, f))
<1> SUFFICES ASSUME AuthorityTypeOK
             PROVE  OrphansHaveAReason <=> \A m \in Menu, f \in Menu : Orphan(m, f) => Reason(m, f)
  OBVIOUS
<1>1. Top \notin Menu
  BY AuthorityAssumption DEF Top
<1>2. \A m \in Menu : menus[m].pid \in Menu \union {Top}
  BY Typed DEF Fields
<1> QED
  BY <1>1, <1>2 DEF OrphansHaveAReason, Orphan, Reason, LiveMenus, Live, PathUnder
LEMMA OrphanRuleThen ==
    AuthorityTypeOK' /\ (\A m \in Menu, f \in Menu : Orphan(m, f)' => Reason(m, f)') => OrphansHaveAReason'
<1> SUFFICES ASSUME AuthorityTypeOK', \A m \in Menu, f \in Menu : Orphan(m, f)' => Reason(m, f)'
             PROVE  OrphansHaveAReason'
  OBVIOUS
<1>1. Top \notin Menu
  BY AuthorityAssumption DEF Top
<1>2. \A m \in Menu : menus'[m].pid \in Menu \union {Top}
  BY DEF AuthorityTypeOK
<1> QED
  BY <1>1, <1>2 DEF OrphansHaveAReason, Orphan, Reason, LiveMenus, Live, PathUnder

\* What is in a path is in the path of every menu that was put under it.
LEMMA PathGrows ==
    ASSUME NEW p \in Seq(Menu), NEW m \in Menu, NEW k \in ToSet(p)
    PROVE  k \in ToSet(Append(p, m))
<1>1. PICK n \in DOMAIN p : p[n] = k
  BY DEF ToSet
<1>2. n \in DOMAIN Append(p, m) /\ Append(p, m)[n] = k
  BY <1>1
<1> QED
  BY <1>2 DEF ToSet

\* What a deletion does to the menus, links and elements.
LEMMA DeletionLeaves ==
    ASSUME AuthorityTypeOK, NEW a \in Admin, CommitDelete(a)
    PROVE  LET now == GetMenuFunctionChilders(admin[a].menu)
               ids == admin[a].ids
           IN  /\ \A m \in Menu : menus'[m] = IF m \in now THEN [menus[m] EXCEPT !.state = "deleted"] ELSE menus[m]
               /\ \A r \in Role, m \in Menu : links'[r][m] = IF m \in ids THEN LogicallyDeleted(links[r][m]) ELSE links[r][m]
               /\ \A e \in Element : elements'[e] = IF elements[e] \in ids THEN NoElement ELSE elements[e]
               /\ raced' = raced \union (now \ ids)
  BY Typed DEF CommitDelete

LEMMA OrphanStep ==
    AuthorityTypeOK /\ AuthorityTypeOK' /\ MenusRemain /\ OrphansHaveAReason /\ [Next]_vars => OrphansHaveAReason'
<1> SUFFICES ASSUME AuthorityTypeOK, AuthorityTypeOK', MenusRemain, OrphansHaveAReason, [Next]_vars,
                    NEW m \in Menu, NEW f \in Menu, Orphan(m, f)'
             PROVE  Reason(m, f)'
  BY OrphanRuleThen
<1>0. Orphan(m, f) => Reason(m, f)
  BY OrphanRule
<1>1. CASE menus' = menus /\ raced \subseteq raced'
  BY <1>0, <1>1 DEF Orphan, Reason
<1>2. ASSUME NEW a \in Admin, CommitAdd(a) \/ WriteMove(a) PROVE Reason(m, f)'
  <2> DEFINE put == admin[a].menu
  <2>1. put \in Menu /\ menus'[put] = Row(admin[a].pid, admin[a].path)
        /\ \A k \in Menu \ {put} : menus'[k] = menus[k]
    BY <1>2, PlaceEnds
  <2>2. f # put
    BY <2>1 DEF Orphan, Row
  <2>3. m # put
    <3>1. SUFFICES ASSUME m = put PROVE FALSE
      OBVIOUS
    <3>2. admin[a].pid = f
      BY <2>1, <3>1 DEF Orphan, Row
    <3>3. ~Live(f) /\ f # Top
      BY <2>1, <2>2, AuthorityAssumption DEF Orphan, Live, Top
    <3>4. "delete" \in admin[a].crossed
      BY <1>2, <3>2, <3>3, PlaceEnds DEF MenusRemain
    <3> QED
      BY <1>2, <3>1, <3>4, PlaceEnds DEF Orphan
  <2>4. raced \subseteq raced'
    BY <1>2, PlaceEnds
  <2> QED
    BY <1>0, <2>1, <2>2, <2>3, <2>4 DEF Orphan, Reason
<1>3. ASSUME NEW a \in Admin, CommitDelete(a) PROVE Reason(m, f)'
  <2> DEFINE root == admin[a].menu
             now == GetMenuFunctionChilders(root)
  <2>1. menus[m] \in Fields /\ menus[f] \in Fields /\ raced \subseteq raced'
    BY <1>3, DeletionLeaves, Typed
  <2>2. m \notin now /\ menus'[m] = menus[m]
    BY <1>3, <2>1, DeletionLeaves DEF Orphan, Fields
  <2>3. menus'[f].path = menus[f].path
    BY <1>3, <2>1, DeletionLeaves DEF Fields
  <2>4. CASE f \notin now
    <3>1. menus'[f] = menus[f]
      BY <1>3, <2>4, DeletionLeaves
    <3> QED
      BY <1>0, <2>1, <2>2, <3>1 DEF Orphan, Reason
  <2>5. CASE f \in now
    <3>1. root \in ToSet(menus[f].path) /\ menus[f].path \in Seq(Menu)
      BY <2>1, <2>5 DEF GetMenuFunctionChilders, Fields
    <3>2. root \in ToSet(Append(menus[f].path, m))
      BY <3>1, PathGrows
    <3>3. m \in LiveMenus
      BY <2>2, AuthorityAssumption DEF Orphan, LiveMenus, Live, Top
    <3>4. menus[m].path # Append(menus[f].path, m)
      BY <2>2, <3>2, <3>3 DEF GetMenuFunctionChilders
    <3> QED
      BY <2>2, <2>3, <3>4 DEF Reason
  <2> QED
    BY <2>4, <2>5
<1> QED
  BY <1>1, <1>2, <1>3, MenuSteps, SaveBegins, PlaceBegins DEF Still

\* A step that adds no link, no element and no deleted menu, but for menus
\* whose operation was raced, keeps the deleted menus bare.
LEMMA BareKept ==
    ASSUME DeletedMenusKeepNothing, raced \subseteq raced',
           \A m \in Menu \ raced' : menus'[m].state = "deleted" =>
              /\ menus[m].state = "deleted"
              /\ \A r \in Role : m \in LinkedTo(r)' => m \in LinkedTo(r)
              /\ \A e \in Element : elements'[e] = m => elements[e] = m
    PROVE  DeletedMenusKeepNothing'
  BY DEF DeletedMenusKeepNothing

LEMMA BareStep ==
    AuthorityTypeOK /\ SavesRead /\ MenusRemain /\ DeletedMenusKeepNothing /\ [Next]_vars => DeletedMenusKeepNothing'
<1> SUFFICES ASSUME AuthorityTypeOK, SavesRead, MenusRemain, DeletedMenusKeepNothing, [Next]_vars PROVE DeletedMenusKeepNothing'
  OBVIOUS
<1> USE DEF tables
<1>1. CASE UNCHANGED <<menus, links, elements, raced>>
  BY <1>1, BareKept DEF LinkedTo
<1>2. ASSUME NEW a \in Admin, CommitAdd(a) \/ WriteMove(a) PROVE DeletedMenusKeepNothing'
  <2>1. \A m \in Menu : menus'[m].state = "deleted" => menus'[m] = menus[m]
    BY <1>2, PlaceEnds, RowFields
  <2>2. UNCHANGED <<links, elements>> /\ raced \subseteq raced'
    BY <1>2, PlaceEnds
  <2> QED
    BY <2>1, <2>2, BareKept DEF LinkedTo
<1>3. ASSUME NEW a \in Admin, CommitSave(a) PROVE DeletedMenusKeepNothing'
  <2> USE DEF Saving
  <2>1. PICK r \in Role : IsSave(a, r)
    BY <1>3, SaveLeaves DEF IsSave
  <2>2. UNCHANGED <<menus, elements>> /\ raced' = IF "delete" \in admin[a].crossed THEN raced \union admin[a].add ELSE raced
    BY <1>3 DEF CommitSave
  <2>3. \A q \in Role \ {r} : LinkedTo(q)' = LinkedTo(q)
    BY <1>3, <2>1, SaveLeaves DEF IsSave, LinkedTo
  <2>4. LinkedTo(r)' = (LinkedTo(r) \ admin[a].del) \union admin[a].add
    BY <1>3, <2>1, LinkedAfterSave
  <2>5. \A m \in admin[a].add : m \in raced' \/ menus[m].state = "live"
    <3>1. CASE "delete" \in admin[a].crossed
      BY <2>2, <3>1
    <3>2. CASE "delete" \notin admin[a].crossed
      <4>1. admin[a].asked \subseteq LiveMenus
        BY <2>1, <3>2 DEF MenusRemain, IsSave
      <4>2. admin[a].add \subseteq admin[a].asked
        BY <2>1 DEF SavesRead
      <4> QED
        BY <4>1, <4>2 DEF LiveMenus, Live
    <3> QED
      BY <3>1, <3>2
  <2>6. raced \subseteq raced'
    BY <2>2
  <2> QED
    BY <2>2, <2>3, <2>4, <2>5, <2>6, BareKept
<1>4. ASSUME NEW r \in Role, NEW m \in Menu, AddRoleMenufunction(r, m) PROVE DeletedMenusKeepNothing'
  <2>1. UNCHANGED <<menus, elements, raced>> /\ menus[m].state = "live"
    BY <1>4 DEF AddRoleMenufunction, Live
  <2>2. \A q \in Role, k \in Menu \ {m} : k \in LinkedTo(q)' => k \in LinkedTo(q)
    BY <1>4, Typed DEF AddRoleMenufunction, LinkedTo
  <2> QED
    BY <2>1, <2>2, BareKept
<1>5. ASSUME NEW r \in Role, NEW m \in Menu, LogicalDeletedRoleMenufunctionById(r, m) PROVE DeletedMenusKeepNothing'
  <2>1. UNCHANGED <<menus, elements, raced>> /\ m \in LinkedTo(r)
    BY <1>5 DEF LogicalDeletedRoleMenufunctionById
  <2>2. \A q \in Role, k \in Menu : k \in LinkedTo(q)' => k \in LinkedTo(q)
    BY <1>5, <2>1, Typed DEF LogicalDeletedRoleMenufunctionById, LinkedTo
  <2> QED
    BY <2>1, <2>2, BareKept
<1>6. ASSUME NEW r \in Role, LogicallyDeleteRoleById(r) PROVE DeletedMenusKeepNothing'
  <2>1. UNCHANGED <<menus, elements, raced>>
    BY <1>6 DEF LogicallyDeleteRoleById
  <2>2. \A q \in Role, k \in Menu : k \in LinkedTo(q)' => k \in LinkedTo(q)
    BY <1>6, RowsTyped, Typed DEF LogicallyDeleteRoleById, LinkedTo
  <2> QED
    BY <2>1, <2>2, BareKept
<1>7. ASSUME NEW a \in Admin, CommitDelete(a) PROVE DeletedMenusKeepNothing'
  <2> DEFINE now == GetMenuFunctionChilders(admin[a].menu)
             ids == admin[a].ids
  <2> SUFFICES ASSUME NEW m \in Menu \ raced', menus'[m].state = "deleted"
               PROVE  /\ \A r \in Role : ~(links'[r][m].live > 0)
                      /\ \A e \in Element : elements'[e] # m
    BY DEF DeletedMenusKeepNothing, LinkedTo
  <2>1. m \in now => m \in ids
    BY <1>7, DeletionLeaves
  <2>2. CASE m \in ids
    <3>1. \A r \in Role : links'[r][m] = LogicallyDeleted(links[r][m]) /\ links[r][m] \in Rows
      BY <1>7, <2>2, DeletionLeaves, Typed
    <3>2. \A r \in Role : ~(links'[r][m].live > 0)
      BY <3>1, RowsTyped
    <3>3. m # NoElement
      BY AuthorityAssumption DEF NoElement
    <3> QED
      BY <1>7, <2>2, <3>2, <3>3, DeletionLeaves
  <2>3. CASE m \notin ids
    <3>1. menus[m].state = "deleted" /\ m \notin raced
      BY <1>7, <2>1, <2>3, DeletionLeaves
    <3>2. \A r \in Role : ~(links[r][m].live > 0) /\ links'[r][m] = links[r][m]
      BY <1>7, <2>3, <3>1, DeletionLeaves DEF DeletedMenusKeepNothing, LinkedTo
    <3>3. \A e \in Element : elements[e] # m
      BY <3>1 DEF DeletedMenusKeepNothing
    <3>4. m # NoElement
      BY AuthorityAssumption DEF NoElement
    <3> QED
      BY <1>7, <3>2, <3>3, <3>4, DeletionLeaves
  <2> QED
    BY <2>2, <2>3
<1>8. ASSUME NEW e \in Element, NEW m, PutElement(e, m), m = NoElement \/ Live(m) PROVE DeletedMenusKeepNothing'
  <2>1. UNCHANGED <<menus, links, raced>>
    BY <1>8 DEF PutElement
  <2>2. \A d \in Element : elements'[d] = elements[d] \/ elements'[d] = m
    BY <1>8, Typed DEF PutElement
  <2>3. \A k \in Menu : k = m => menus[k].state # "deleted"
    BY <1>8, AuthorityAssumption DEF Live, NoElement
  <2> QED
    BY <2>1, <2>2, <2>3, BareKept DEF LinkedTo
<1>9. ASSUME NEW a \in Admin, Rollback(a) \/ \E m \in Menu : BeginDelete(a, m) PROVE DeletedMenusKeepNothing'
  BY <1>1, <1>9 DEF Rollback, BeginDelete
<1> QED
  BY <1>1, <1>2, <1>3, <1>4, <1>5, <1>6, <1>7, <1>8, <1>9
     DEF Next, OneStep, Steps, AddMenuElement, UpdateMenuElementById, DeleteMenuElementById, BeginSave, BeginAdd, BeginMove, vars

LEMMA MenusInit == Init => MenusRemain /\ OrphansHaveAReason /\ DeletedMenusKeepNothing
<1> SUFFICES ASSUME Init PROVE MenusRemain /\ OrphansHaveAReason /\ DeletedMenusKeepNothing
  OBVIOUS
<1>1. \A a \in Admin : admin[a].op = "none"
  BY IdleTyped DEF Init
<1>2. \A m \in Menu : menus[m] = (IF m \in DOMAIN FirstMenus THEN Row(FirstMenus[m], FirstPaths[m]) ELSE Absent)
  BY DEF Init
<1>3. \A m \in Menu : menus[m].state # "deleted"
  BY <1>2, RowFields
<1>4. \A m \in LiveMenus : menus[m].pid = Top \/ Live(menus[m].pid)
  <2> SUFFICES ASSUME NEW m \in LiveMenus PROVE menus[m].pid = Top \/ Live(menus[m].pid)
    OBVIOUS
  <2>1. m \in Menu /\ m \in DOMAIN FirstMenus /\ menus[m].pid = FirstMenus[m]
    BY <1>2, RowFields DEF LiveMenus, Live
  <2>2. FirstMenus[m] = Top \/ (FirstMenus[m] \in DOMAIN FirstMenus /\ FirstMenus[m] \in Menu)
    BY <2>1, AuthorityAssumption
  <2>3. \A k \in Menu : k \in DOMAIN FirstMenus => menus[k].state = "live"
    BY <1>2, RowFields
  <2> QED
    BY <2>1, <2>2, <2>3, AuthorityAssumption DEF Live, Top
<1> QED
  BY <1>1, <1>3, <1>4 DEF MenusRemain, Saving, OrphansHaveAReason, DeletedMenusKeepNothing

LEMMA MenusAlways == Spec => [](OrphansHaveAReason /\ DeletedMenusKeepNothing)
<1>1. Init => SavesRead /\ OverlappingSavesAgree
  BY AgreeInit
<1>2. Spec => []MenusRemain
  BY MenusInit, RemainStep, TypeCorrect, PTL DEF Spec
<1>3. Spec => []OrphansHaveAReason
  BY <1>2, MenusInit, OrphanStep, TypeCorrect, PTL DEF Spec
<1>4. Spec => [](SavesRead /\ OverlappingSavesAgree)
  BY <1>1, AgreeStep, TypeCorrect, PTL DEF Spec
<1>5. Spec => []DeletedMenusKeepNothing
  BY <1>2, <1>4, MenusInit, BareStep, TypeCorrect, PTL DEF Spec
<1> QED
  BY <1>3, <1>5, PTL

\* A menu is left under a deleted father only if its addition or move
\* overlapped a deletion, or a move of the father left its path behind.
THEOREM OrphansExplained == Spec => []OrphansHaveAReason
  BY MenusAlways, PTL

\* What is deleted together with its father keeps no link and no element, but
\* for menus that an operation overlapping the deletion wrote.
THEOREM DeletedAreBare == Spec => []DeletedMenusKeepNothing
  BY MenusAlways, PTL

-----------------------------------------------------------------------------
(* The rows *)

\* What holds of the roots of a forest, and of a menu whenever of its father,
\* holds of every menu.
LEMMA ForestInduction ==
    ASSUME NEW pid \in Forests, NEW S,
           \A m \in MenuId : pid[m] = Root \/ pid[m] \in S => m \in S
    PROVE  MenuId \subseteq S
<1> DEFINE N == Cardinality(MenuId)
<1>1. N \in Nat
  BY MenuAssumption, FS_CardinalityType
<1>2. PICK rank \in [MenuId -> 1 .. N] : \A m \in MenuId : pid[m] # Root => rank[pid[m]] < rank[m]
  BY DEF Forests
<1>3. \A m \in MenuId : pid[m] # Root => pid[m] \in MenuId
  BY DEF Forests
<1> DEFINE T == {n \in 0 .. N : \A m \in MenuId : rank[m] <= n => m \in S}
<1>4. 0 \in T
  <2>1. \A m \in MenuId : ~(rank[m] <= 0)
    BY <1>2
  <2> QED
    BY <1>1, <2>1
<1>5. ASSUME NEW n \in 0 .. N - 1, n \in T PROVE n + 1 \in T
  <2>1. ASSUME NEW m \in MenuId, rank[m] <= n + 1 PROVE m \in S
    <3>1. pid[m] # Root => pid[m] \in MenuId /\ rank[pid[m]] <= n
      BY <1>2, <1>3, <2>1
    <3> QED
      BY <1>5, <3>1
  <2> QED
    BY <1>1, <2>1
<1> HIDE DEF T
<1>6. 0 .. N \subseteq T
  BY <1>1, <1>4, <1>5, RangeInduction
<1>7. N \in T
  BY <1>1, <1>6
<1> QED
  BY <1>1, <1>2, <1>7 DEF T

\* f is defined along the fathers: from base at a root, and by next elsewhere.
Along(f, pid, base, next) ==
    \A m \in MenuId : f[m] = IF pid[m] = Root THEN base[m] ELSE next[<<f[pid[m]], m>>]

\* There is such a function, for every forest.
LEMMA ForestRecursion ==
    ASSUME NEW pid \in Forests, NEW V, NEW base \in [MenuId -> V], NEW next \in [V \X MenuId -> V]
    PROVE  \E f \in [MenuId -> V] : Along(f, pid, base, next)
<1> DEFINE N == Cardinality(MenuId)
           Step(f, m) == f[m] = IF pid[m] = Root THEN base[m] ELSE next[<<f[pid[m]], m>>]
<1>1. N \in Nat
  BY MenuAssumption, FS_CardinalityType
<1>2. PICK rank \in [MenuId -> 1 .. N] : \A m \in MenuId : pid[m] # Root => rank[pid[m]] < rank[m]
  BY DEF Forests
<1>3. \A m \in MenuId : pid[m] # Root => pid[m] \in MenuId
  BY DEF Forests
<1> DEFINE S == {n \in 0 .. N : \E f \in [MenuId -> V] : \A m \in MenuId : rank[m] <= n => Step(f, m)}
<1>4. 0 \in S
  <2>1. \A m \in MenuId : ~(rank[m] <= 0)
    BY <1>2
  <2> QED
    BY <1>1, <2>1
<1>5. ASSUME NEW n \in 0 .. N - 1, n \in S PROVE n + 1 \in S
  <2>1. PICK f \in [MenuId -> V] : \A m \in MenuId : rank[m] <= n => Step(f, m)
    BY <1>5
  <2> DEFINE h == [m \in MenuId |-> IF rank[m] <= n THEN f[m]
                                  ELSE IF pid[m] = Root THEN base[m] ELSE next[<<f[pid[m]], m>>]]
  <2>2. h \in [MenuId -> V]
    BY <1>3
  <2>3. ASSUME NEW m \in MenuId, rank[m] <= n + 1 PROVE Step(h, m)
    <3>1. CASE pid[m] = Root
      BY <2>1, <3>1
    <3>2. CASE pid[m] # Root
      <4>1. pid[m] \in MenuId /\ rank[pid[m]] <= n
        BY <1>2, <1>3, <2>3, <3>2
      <4>2. h[pid[m]] = f[pid[m]]
        BY <4>1
      <4> QED
        BY <2>1, <3>2, <4>2
    <3> QED
      BY <3>1, <3>2
  <2> HIDE DEF h
  <2> QED
    BY <1>1, <2>2, <2>3
<1> HIDE DEF S
<1>6. 0 .. N \subseteq S
  BY <1>1, <1>4, <1>5, RangeInduction
<1>7. N \in S
  BY <1>1, <1>6
<1>8. PICK f \in [MenuId -> V] : \A m \in MenuId : rank[m] <= N => Step(f, m)
  BY <1>7 DEF S
<1> QED
  BY <1>1, <1>2, <1>8 DEF Along

\* What the columns path and dept say when no path is stale.
Consistent(t) ==
    \A m \in MenuId :
      /\ t.path[m] = IF t.pid[m] = Root THEN {m} ELSE t.path[t.pid[m]] \union {m}
      /\ t.dept[m] = IF t.pid[m] = Root THEN 1 ELSE t.dept[t.pid[m]] + 1

\* Menus as they were created.
LEMMA AddedTables ==
    ASSUME NEW pid \in Forests, NEW sort \in [MenuId -> SortKey]
    PROVE  Added(pid, sort) \in Tables /\ Consistent(Added(pid, sort))
<1> DEFINE t == Added(pid, sort)
<1>0. pid \in [MenuId -> MenuId \union {Root}]
  BY DEF Forests
<1>1. /\ AddPaths(pid) \in [MenuId -> SUBSET MenuId]
      /\ AddPaths(pid) = [m \in MenuId |-> IF pid[m] = Root THEN {m}
                                         ELSE AddPaths(pid)[pid[m]] \union {m}]
  <2> DEFINE V == SUBSET MenuId
             base == [m \in MenuId |-> {m}]
             next == [x \in V \X MenuId |-> x[1] \union {x[2]}]
             F == CHOOSE f : f = [m \in MenuId |-> IF pid[m] = Root THEN {m} ELSE f[pid[m]] \union {m}]
  <2>1. base \in [MenuId -> V] /\ next \in [V \X MenuId -> V]
    OBVIOUS
  <2>2. PICK f \in [MenuId -> V] : Along(f, pid, base, next)
    <3> HIDE DEF V, base, next
    <3> QED
      BY <2>1, ForestRecursion
  <2>3. ASSUME NEW m \in MenuId PROVE f[m] = IF pid[m] = Root THEN {m} ELSE f[pid[m]] \union {m}
    <3>1. pid[m] # Root => <<f[pid[m]], m>> \in V \X MenuId
      BY <1>0
    <3> QED
      BY <2>2, <3>1 DEF Along
  <2>4. f = [m \in MenuId |-> IF pid[m] = Root THEN {m} ELSE f[pid[m]] \union {m}]
    BY <2>3
  <2>5. F = [m \in MenuId |-> IF pid[m] = Root THEN {m} ELSE F[pid[m]] \union {m}]
    BY <2>4, Zenon
  <2>6. AddPaths(pid) = F
    BY Zenon DEF AddPaths
  <2> HIDE DEF F
  <2>7. \A m \in MenuId : F[m] = IF pid[m] = Root THEN {m} ELSE F[pid[m]] \union {m}
    BY <2>5
  <2> DEFINE S == {m \in MenuId : F[m] \subseteq MenuId}
  <2>8. ASSUME NEW m \in MenuId, pid[m] = Root \/ pid[m] \in S PROVE m \in S
    <3>1. CASE pid[m] = Root
      <4>1. F[m] = {m}
        BY <2>7, <3>1
      <4> QED
        BY <4>1
    <3>2. CASE pid[m] # Root
      <4>1. F[m] = F[pid[m]] \union {m} /\ F[pid[m]] \subseteq MenuId
        BY <2>7, <2>8, <3>2
      <4> QED
        BY <4>1
    <3> QED
      BY <3>1, <3>2
  <2>9. MenuId \subseteq S
    <3> HIDE DEF S
    <3> QED
      BY <2>8, ForestInduction
  <2> QED
    BY <2>5, <2>6, <2>9
<1>2. /\ Depths(pid) \in [MenuId -> Nat]
      /\ \A m \in MenuId : Depths(pid)[m] = IF pid[m] = Root THEN 1 ELSE Depths(pid)[pid[m]] + 1
  <2> DEFINE base == [m \in MenuId |-> 1]
             next == [x \in Nat \X MenuId |-> x[1] + 1]
             F == CHOOSE f : f = [m \in MenuId |-> IF pid[m] = Root THEN 1 ELSE f[pid[m]] + 1]
  <2>1. base \in [MenuId -> Nat] /\ next \in [Nat \X MenuId -> Nat]
    OBVIOUS
  <2>2. PICK f \in [MenuId -> Nat] : Along(f, pid, base, next)
    <3> HIDE DEF base, next
    <3> QED
      BY <2>1, ForestRecursion
  <2>3. ASSUME NEW m \in MenuId PROVE f[m] = IF pid[m] = Root THEN 1 ELSE f[pid[m]] + 1
    <3>1. pid[m] # Root => <<f[pid[m]], m>> \in Nat \X MenuId
      BY <1>0
    <3> QED
      BY <2>2, <3>1 DEF Along
  <2>4. f = [m \in MenuId |-> IF pid[m] = Root THEN 1 ELSE f[pid[m]] + 1]
    BY <2>3
  <2>5. F = [m \in MenuId |-> IF pid[m] = Root THEN 1 ELSE F[pid[m]] + 1]
    BY <2>4, Zenon
  <2>6. Depths(pid) = F
    BY Zenon DEF Depths
  <2> HIDE DEF F
  <2>7. \A m \in MenuId : F[m] = IF pid[m] = Root THEN 1 ELSE F[pid[m]] + 1
    BY <2>5
  <2> DEFINE S == {m \in MenuId : F[m] \in Nat}
  <2>8. \A m \in MenuId : pid[m] = Root \/ pid[m] \in S => m \in S
    BY <2>7
  <2>9. MenuId \subseteq S
    <3> HIDE DEF S
    <3> QED
      BY <2>8, ForestInduction
  <2> QED
    BY <2>5, <2>6, <2>7, <2>9
<1> HIDE DEF t
<1>3. t = [pid |-> pid, dept |-> Depths(pid), path |-> AddPaths(pid), sort |-> sort, current |-> TRUE]
  BY DEF t, Added
<1>4. t \in Tables
  BY <1>0, <1>1, <1>2, <1>3 DEF Tables
<1>5. Consistent(t)
  <2>1. \A m \in MenuId : AddPaths(pid)[m] = IF pid[m] = Root THEN {m}
                                           ELSE AddPaths(pid)[pid[m]] \union {m}
    BY <1>1
  <2> QED
    BY <1>2, <1>3, <2>1 DEF Consistent
<1> QED
  BY <1>4, <1>5 DEF t

\* A menu is in its own path.
LEMMA OwnPath ==
    ASSUME NEW t, Consistent(t), NEW m \in MenuId
    PROVE  m \in t.path[m]
<1>1. t.path[m] = IF t.pid[m] = Root THEN {m} ELSE t.path[t.pid[m]] \union {m}
  BY DEF Consistent
<1>2. CASE t.pid[m] = Root
  BY <1>1, <1>2
<1>3. CASE t.pid[m] # Root
  BY <1>1, <1>3
<1> QED
  BY <1>2, <1>3

\* A menu that has been moved, not below itself: if nothing is below it, no path
\* is stale.
LEMMA MovedTables ==
    ASSUME NEW t \in Tables, Consistent(t), NEW m \in MenuId, NEW f \in MenuId \union {Root},
           f # Root => m \notin t.path[f]
    PROVE  /\ Moved(t, m, f) \in Tables
           /\ Moved(t, m, f).current => Consistent(Moved(t, m, f))
<1> DEFINE u == Moved(t, m, f)
           dept == IF f = Root THEN 1 ELSE t.dept[f] + 1
           path == IF f = Root THEN {m} ELSE t.path[f] \union {m}
           current == \A k \in MenuId \ {m} : m \notin t.path[k]
<1>0. /\ t = [pid |-> t.pid, dept |-> t.dept, path |-> t.path, sort |-> t.sort, current |-> t.current]
      /\ t.pid \in [MenuId -> MenuId \union {Root}] /\ t.dept \in [MenuId -> Nat]
      /\ t.path \in [MenuId -> SUBSET MenuId] /\ t.sort \in [MenuId -> SortKey]
  BY DEF Tables
<1>1. u = [t EXCEPT !.pid[m] = f, !.dept[m] = dept, !.path[m] = path, !.current = current]
  BY DEF Moved
<1>2. dept \in Nat /\ path \in SUBSET MenuId /\ current \in BOOLEAN
  BY <1>0
<1> HIDE DEF dept, path, current, u
<1>3. u = [pid |-> [t.pid EXCEPT ![m] = f], dept |-> [t.dept EXCEPT ![m] = dept],
           path |-> [t.path EXCEPT ![m] = path], sort |-> t.sort, current |-> current]
  BY <1>0, <1>1
<1>4. u \in Tables
  BY <1>0, <1>2, <1>3 DEF Tables
<1>5. ASSUME current PROVE Consistent(u)
  <2>1. \A k \in MenuId \ {m} : m \notin t.path[k]
    BY <1>5 DEF current
  <2>2. /\ u.pid[m] = f /\ u.dept[m] = dept /\ u.path[m] = path
        /\ \A k \in MenuId \ {m} : u.pid[k] = t.pid[k] /\ u.dept[k] = t.dept[k] /\ u.path[k] = t.path[k]
    BY <1>0, <1>3
  <2> SUFFICES ASSUME NEW k \in MenuId
               PROVE  /\ u.path[k] = IF u.pid[k] = Root THEN {k} ELSE u.path[u.pid[k]] \union {k}
                      /\ u.dept[k] = IF u.pid[k] = Root THEN 1 ELSE u.dept[u.pid[k]] + 1
    BY DEF Consistent
  <2>3. CASE k = m
    <3>1. CASE f = Root
      BY <2>2, <2>3, <3>1 DEF path, dept
    <3>2. CASE f # Root
      <4>1. f \in MenuId \ {m}
        BY <3>2, OwnPath
      <4> QED
        BY <2>2, <2>3, <3>2, <4>1 DEF path, dept
    <3> QED
      BY <3>1, <3>2
  <2>4. CASE k # m
    <3>1. /\ t.path[k] = IF t.pid[k] = Root THEN {k} ELSE t.path[t.pid[k]] \union {k}
          /\ t.dept[k] = IF t.pid[k] = Root THEN 1 ELSE t.dept[t.pid[k]] + 1
      BY DEF Consistent
    <3>2. CASE t.pid[k] = Root
      BY <2>2, <2>4, <3>1, <3>2
    <3>3. CASE t.pid[k] # Root
      <4>1. t.pid[k] \in MenuId
        BY <1>0, <3>3
      <4>2. t.pid[k] # m
        BY <2>1, <2>4, <3>1, <3>3, OwnPath
      <4> QED
        BY <2>2, <2>4, <3>1, <3>3, <4>1, <4>2
    <3> QED
      BY <3>2, <3>3
  <2> QED
    BY <2>3, <2>4
<1>6. u.current <=> current
  BY <1>2, <1>3
<1> QED
  BY <1>4, <1>5, <1>6 DEF u

LEMMA StoredTables ==
    ASSUME NEW t \in Stored
    PROVE  t \in Tables /\ (t.current => Consistent(t))
<1>1. ASSUME NEW a \in Created PROVE a \in Tables /\ Consistent(a)
  BY AddedTables DEF Created
<1>2. CASE t \in Created
  BY <1>1, <1>2
<1>3. CASE t \in {Moved(tm[1], tm[2], Root) : tm \in Created \X MenuId}
  <2>1. PICK a \in Created, m \in MenuId : t = Moved(a, m, Root)
    BY <1>3
  <2> QED
    BY <1>1, <2>1, MovedTables
<1>4. CASE t \in {Moved(x[1], x[2], x[3]) :
                    x \in {y \in Created \X MenuId \X MenuId : y[2] \notin y[1].path[y[3]]}}
  <2>1. PICK a \in Created, m \in MenuId, f \in MenuId : m \notin a.path[f] /\ t = Moved(a, m, f)
    BY <1>4
  <2> QED
    BY <1>1, <2>1, MovedTables
<1> QED
  BY <1>2, <1>3, <1>4 DEF Stored

\* Only one menu of the first level is above a menu.
LEMMA OneTop ==
    ASSUME NEW t \in Tables, Consistent(t), NEW a \in MenuId, NEW b \in MenuId,
           t.pid[a] = Root, t.pid[b] = Root, NEW m \in MenuId, a \in t.path[m], b \in t.path[m]
    PROVE  a = b
<1> SUFFICES ASSUME a # b PROVE FALSE
  OBVIOUS
<1>0. t.dept \in [MenuId -> Nat] /\ t.pid \in [MenuId -> MenuId \union {Root}]
  BY DEF Tables
<1> DEFINE Both(k) == a \in t.path[k] /\ b \in t.path[k]
           S == {n \in Nat : \E k \in MenuId : Both(k) /\ t.dept[k] = n}
<1>1. t.dept[m] \in S
  BY <1>0
<1>2. PICK n \in S : \A j \in S : n <= j
  BY <1>1, LeastNatural, S \in SUBSET Nat
<1>3. PICK k \in MenuId : Both(k) /\ t.dept[k] = n
  BY <1>2
<1>4. /\ t.path[k] = IF t.pid[k] = Root THEN {k} ELSE t.path[t.pid[k]] \union {k}
      /\ t.dept[k] = IF t.pid[k] = Root THEN 1 ELSE t.dept[t.pid[k]] + 1
  BY DEF Consistent
<1>5. t.pid[k] # Root
  BY <1>3, <1>4
<1>6. t.pid[k] \in MenuId /\ Both(t.pid[k])
  BY <1>0, <1>3, <1>4, <1>5
<1>7. t.dept[t.pid[k]] \in S /\ t.dept[t.pid[k]] < n
  BY <1>0, <1>3, <1>4, <1>5, <1>6
<1> QED
  BY <1>0, <1>2, <1>7

-----------------------------------------------------------------------------
(* Sequences of menus *)

\* s has every member of S once, and nothing else.
Enumerates(s, S) ==
    /\ s \in Seq(MenuId) /\ ToSet(s) = S
    /\ \A j, k \in 1 .. Len(s) : s[j] = s[k] => j = k

LEMMA SetToSeqsEnumerate ==
    ASSUME NEW S \in SUBSET MenuId, NEW s \in SetToSeqs(S)
    PROVE  Enumerates(s, S) /\ Len(s) = Cardinality(S)
<1> DEFINE n == Cardinality(S)
<1>1. IsFiniteSet(S) /\ n \in Nat
  BY MenuAssumption, FS_Subset, FS_CardinalityType
<1>2. s \in [1 .. n -> S] /\ \A j, k \in 1 .. n : j # k => s[j] # s[k]
  BY DEF SetToSeqs
<1> HIDE DEF n
<1>3. Len(s) = n /\ DOMAIN s = 1 .. n /\ s \in Seq(MenuId)
  BY <1>1, <1>2
<1>4. s \in Injection(1 .. n, S)
  BY <1>2 DEF Injection, IsInjective
<1>5. Cardinality(1 .. n) = n
  BY <1>1, FS_Interval
<1>6. s \in Surjection(1 .. n, S)
  BY <1>1, <1>4, <1>5, FS_Injection DEF n
<1>7. ToSet(s) = S
  BY <1>2, <1>3, <1>6 DEF ToSet, Surjection
<1> QED
  BY <1>2, <1>3, <1>7 DEF Enumerates, n

\* Menus can be put in the order of compareTo: the place of one is the number of
\* those that are not behind it.
LEMMA SortedMenus ==
    ASSUME table \in Tables, NEW S \in SUBSET MenuId
    PROVE  /\ SortMenus(S) \in SetToSeqs(S)
           /\ \A j, k \in 1 .. Len(SortMenus(S)) :
                j < k => ~CompareTo(SortMenus(S)[k], SortMenus(S)[j])
<1> DEFINE n == Cardinality(S)
           Upto(m) == {k \in S : k = m \/ CompareTo(k, m)}
           place == [m \in S |-> Cardinality(Upto(m))]
           s == [j \in 1 .. n |-> CHOOSE m \in S : place[m] = j]
<1>0. \A m \in S : m \in Int /\ table.sort[m] \in Int
  <2>1. table.sort \in [MenuId -> SortKey]
    BY DEF Tables
  <2> TAKE m \in S
  <2>2. m \in MenuId /\ table.sort[m] \in SortKey
    BY <2>1
  <2> QED
    <3>1. m \in Nat
      BY <2>2, MenuAssumption
    <3>2. table.sort[m] \in Int
      BY <2>2, SortKeyAssumption
    <3> QED
      BY <3>1, <3>2
<1>1. IsFiniteSet(S) /\ n \in Nat
  BY MenuAssumption, FS_Subset, FS_CardinalityType
<1>2. \A m \in S : IsFiniteSet(Upto(m)) /\ place[m] \in Nat
  <2> TAKE m \in S
  <2>1. IsFiniteSet(Upto(m))
    BY <1>1, FS_Subset, Upto(m) \in SUBSET S
  <2> HIDE DEF Upto
  <2> QED
    BY <2>1, FS_CardinalityType
<1>3. ASSUME NEW a \in S, NEW b \in S, CompareTo(a, b) PROVE place[a] < place[b]
  <2>0. \A k \in S : CompareTo(k, a) => CompareTo(k, b)
    BY <1>0, <1>3 DEF CompareTo
  <2>1. /\ Upto(a) \in SUBSET Upto(b)
        /\ b \in Upto(b)
        /\ b \notin Upto(a)
    <3>1. ~CompareTo(b, a) /\ a # b
      BY <1>0, <1>3 DEF CompareTo
    <3> QED
      BY <1>3, <2>0, <3>1
  <2>2. /\ Cardinality(Upto(a)) <= Cardinality(Upto(b))
        /\ Cardinality(Upto(a)) # Cardinality(Upto(b))
    <3> HIDE DEF Upto
    <3> QED
      BY <1>2, <2>1, FS_Subset
  <2> HIDE DEF Upto
  <2> QED
    BY <1>2, <2>2
<1>4. \A a, b \in S : a # b => CompareTo(a, b) \/ CompareTo(b, a)
  <2> TAKE a, b \in S
  <2>1. a \in Int /\ b \in Int /\ table.sort[a] \in Int /\ table.sort[b] \in Int
    BY <1>0
  <2> QED
    BY <2>1 DEF CompareTo
<1>5. \A m \in S : place[m] \in 1 .. n
  <2> TAKE m \in S
  <2>1. Upto(m) \in SUBSET S /\ m \in Upto(m)
    OBVIOUS
  <2> HIDE DEF Upto
  <2>2. Cardinality(Upto(m)) <= n
    BY <1>1, <2>1, FS_Subset
  <2>3. Cardinality(Upto(m)) # 0
    BY <1>2, <2>1, FS_EmptySet
  <2> QED
    BY <1>1, <1>2, <2>2, <2>3
<1> HIDE DEF n, Upto
<1>6. place \in Injection(S, 1 .. n)
  <2>1. place \in [S -> 1 .. n]
    BY <1>5
  <2>2. \A a, b \in S : place[a] = place[b] => a = b
    <3> HIDE DEF place
    <3> QED
      BY <1>2, <1>3, <1>4
  <2> HIDE DEF place
  <2> QED
    BY <2>1, <2>2 DEF Injection, IsInjective
<1>7. place \in Surjection(S, 1 .. n)
  <2>1. IsFiniteSet(1 .. n) /\ Cardinality(1 .. n) = n
    BY <1>1, FS_Interval
  <2> HIDE DEF place
  <2> QED
    BY <1>1, <1>6, <2>1, FS_Injection DEF n
<1>8. \A j \in 1 .. n : s[j] \in S /\ place[s[j]] = j
  <2> TAKE j \in 1 .. n
  <2>1. \E m \in S : place[m] = j
    <3> HIDE DEF place
    <3> QED
      BY <1>7 DEF Surjection
  <2>2. s[j] = CHOOSE m \in S : place[m] = j
    OBVIOUS
  <2> HIDE DEF place, s
  <2> QED
    BY <2>1, <2>2
<1>9. s \in [1 .. n -> S] /\ Len(s) = n
  <2>1. s \in [1 .. n -> S]
    BY <1>8
  <2> HIDE DEF s
  <2> QED
    BY <1>1, <2>1
<1> HIDE DEF s, place
<1>10. s \in SetToSeqs(S)
  BY <1>8, <1>9 DEF SetToSeqs, n
<1>11. \A j, k \in 1 .. Len(s) : j < k => ~CompareTo(s[k], s[j])
  BY <1>3, <1>8, <1>9
<1>12. s \in Ordered(S, CompareTo)
  BY <1>10, <1>11 DEF Ordered
<1>13. SortMenus(S) \in Ordered(S, CompareTo)
  BY <1>12 DEF SortMenus
<1> QED
  BY <1>13 DEF Ordered

-----------------------------------------------------------------------------
(* The lists of the queries *)

\* b may come after a in a list that getMenuFunctionTree can nest: it is another
\* menu, not a child of a, and not a sibling that is to be shown before a.
Follows(t, a, b) ==
    /\ a # b
    /\ t.pid[b] # a
    /\ t.pid[a] = t.pid[b] /\ t.pid[a] # Root => t.sort[a] >= t.sort[b]

LEMMA TreeList ==
    ASSUME NEW t \in Tables, NEW r, NEW s \in SelectMenuFunctionTreeById(t, r)
    PROVE  /\ Enumerates(s, {m \in MenuId : r \in t.path[m]})
           /\ Consistent(t) => \A j, k \in 1 .. Len(s) : j < k => Follows(t, s[j], s[k])
<1> DEFINE S == {m \in MenuId : r \in t.path[m]}
<1>1. /\ s \in SetToSeqs(S)
      /\ \A j, k \in 1 .. Len(s) :
           j < k => ~ \/ t.dept[s[k]] > t.dept[s[j]]
                      \/ t.dept[s[k]] = t.dept[s[j]] /\ t.sort[s[k]] > t.sort[s[j]]
  BY DEF SelectMenuFunctionTreeById, Ordered
<1>2. Enumerates(s, S)
  BY <1>1, SetToSeqsEnumerate, S \in SUBSET MenuId
<1>3. ASSUME Consistent(t), NEW j \in 1 .. Len(s), NEW k \in 1 .. Len(s), j < k
      PROVE  Follows(t, s[j], s[k])
  <2> DEFINE a == s[j]
             b == s[k]
  <2>1. a \in MenuId /\ b \in MenuId /\ a # b
    BY <1>2, <1>3 DEF Enumerates
  <2>2. /\ t.dept[a] \in Nat /\ t.dept[b] \in Nat /\ t.sort[a] \in Int /\ t.sort[b] \in Int
        /\ t.pid[a] # Root => t.dept[t.pid[a]] \in Nat
    BY <2>1, SortKeyAssumption DEF Tables
  <2>3. /\ t.dept[a] = IF t.pid[a] = Root THEN 1 ELSE t.dept[t.pid[a]] + 1
        /\ t.dept[b] = IF t.pid[b] = Root THEN 1 ELSE t.dept[t.pid[b]] + 1
    BY <1>3, <2>1 DEF Consistent
  <2>4. ~(t.dept[b] > t.dept[a]) /\ ~(t.dept[b] = t.dept[a] /\ t.sort[b] > t.sort[a])
    BY <1>1, <1>3
  <2> HIDE DEF a, b
  <2>5. t.pid[b] # a
    BY <2>1, <2>2, <2>3, <2>4, MenuAssumption
  <2>6. t.pid[a] = t.pid[b] => t.sort[a] >= t.sort[b]
    BY <2>2, <2>3, <2>4
  <2> QED
    BY <2>1, <2>5, <2>6 DEF Follows, a, b
<1> QED
  BY <1>2, <1>3

LEMMA UserList ==
    ASSUME NEW t \in Tables, NEW linked \in SUBSET MenuId, NEW s \in MenuFunctionUserAll(t, linked)
    PROVE  /\ Enumerates(s, linked)
           /\ Consistent(t) =>
                \A j, k \in 1 .. Len(s) :
                  j < k /\ t.pid[s[j]] = t.pid[s[k]] => t.sort[s[j]] >= t.sort[s[k]]
<1>1. /\ s \in SetToSeqs(linked)
      /\ \A j, k \in 1 .. Len(s) :
           j < k => ~ \/ t.dept[s[k]] < t.dept[s[j]]
                      \/ t.dept[s[k]] = t.dept[s[j]] /\ t.sort[s[k]] > t.sort[s[j]]
  BY DEF MenuFunctionUserAll, Ordered
<1>2. Enumerates(s, linked)
  BY <1>1, SetToSeqsEnumerate
<1>3. ASSUME Consistent(t), NEW j \in 1 .. Len(s), NEW k \in 1 .. Len(s), j < k,
             t.pid[s[j]] = t.pid[s[k]]
      PROVE  t.sort[s[j]] >= t.sort[s[k]]
  <2>1. s[j] \in MenuId /\ s[k] \in MenuId
    BY <1>2 DEF Enumerates
  <2>2. t.dept[s[j]] = t.dept[s[k]]
    BY <1>3, <2>1 DEF Consistent
  <2>3. t.sort[s[j]] \in Int /\ t.sort[s[k]] \in Int
    BY <2>1, SortKeyAssumption DEF Tables
  <2> QED
    BY <1>1, <1>3, <2>2, <2>3
<1> QED
  BY <1>2, <1>3

\* Menus under two menus of the first level are not in each other's way.
LEMMA TreesApart ==
    ASSUME NEW t \in Tables, Consistent(t), NEW p \in MenuId, NEW q \in MenuId, p # q,
           t.pid[p] = Root, t.pid[q] = Root,
           NEW a \in MenuId, NEW b \in MenuId, p \in t.path[a], q \in t.path[b]
    PROVE  Follows(t, a, b)
<1>0. t.pid \in [MenuId -> MenuId \union {Root}]
  BY DEF Tables
<1>1. a # b
  BY OneTop
<1>2. ASSUME NEW k \in MenuId, NEW f \in MenuId, t.pid[k] = f, NEW r \in t.path[k], t.pid[r] = Root
      PROVE  r \in t.path[f]
  <2>1. t.path[k] = t.path[f] \union {k} /\ k # r
    BY <1>2, MenuAssumption DEF Consistent
  <2> QED
    BY <1>2, <2>1
<1>3. t.pid[b] # a
  BY <1>2, OneTop
<1>4. t.pid[a] = t.pid[b] => t.pid[a] = Root
  BY <1>0, <1>2, OneTop
<1> QED
  BY <1>1, <1>3, <1>4 DEF Follows

\* The lists of the trees, one after the other: a menu is in one of them only.
LEMMA PageList ==
    ASSUME NEW t \in Tables, NEW l \in MenuPageByType(t)
    PROVE  /\ l \in Seq(MenuId)
           /\ Consistent(t) => \A j, k \in 1 .. Len(l) : j < k => Follows(t, l[j], l[k])
<1>1. PICK roots : /\ roots \in SelectMenuFunctionOrderSort(t)
                   /\ \E ls \in TreeLists(t, roots) : l = FlattenSeq(ls)
  BY DEF MenuPageByType
<1>2. PICK ls \in TreeLists(t, roots) : l = FlattenSeq(ls)
  BY <1>1
<1> DEFINE c == Len(roots)
<1>3. Enumerates(roots, {m \in MenuId : t.pid[m] = Root})
  BY <1>1, SetToSeqsEnumerate, {m \in MenuId : t.pid[m] = Root} \in SUBSET MenuId
     DEF SelectMenuFunctionOrderSort, Ordered
<1>4. /\ c \in Nat
      /\ \A k \in 1 .. c : roots[k] \in MenuId /\ t.pid[roots[k]] = Root
      /\ \A j, k \in 1 .. c : j # k => roots[j] # roots[k]
  <2>1. c \in Nat /\ DOMAIN roots = 1 .. c
    BY <1>3 DEF Enumerates
  <2>2. ASSUME NEW k \in 1 .. c PROVE roots[k] \in {m \in MenuId : t.pid[m] = Root}
    BY <1>3, <2>1 DEF Enumerates, ToSet
  <2> QED
    BY <1>3, <2>1, <2>2 DEF Enumerates
<1> HIDE DEF c
<1>5. /\ DOMAIN ls = 1 .. c /\ Len(ls) = c
      /\ \A k \in 1 .. c : ls[k] \in SelectMenuFunctionTreeById(t, roots[k])
  BY <1>4 DEF TreeLists, c
<1>6. CASE c = 0
  <2>1. l = ls /\ Len(l) = 0
    BY <1>2, <1>5, <1>6 DEF FlattenSeq
  <2>2. ls \in [1 .. 0 -> {}]
    BY <1>5, <1>6 DEF TreeLists, c
  <2>3. l \in Seq(MenuId)
    BY <2>1, <2>2
  <2> QED
    BY <2>1, <2>3
<1>7. CASE c # 0
  <2>1. PICK g : /\ l = g[c]
                 /\ \A n \in 1 .. c : g[n] = IF n = 1 THEN ls[n] ELSE g[n - 1] \o ls[n]
    BY <1>2, <1>4, <1>5, <1>7, FlattenSteps
  <2> DEFINE Good(s, n) ==
        /\ s \in Seq(MenuId)
        /\ \A j \in 1 .. Len(s) : \E k \in 1 .. n : roots[k] \in t.path[s[j]]
        /\ Consistent(t) => \A j, k \in 1 .. Len(s) : j < k => Follows(t, s[j], s[k])
  <2>2. ASSUME NEW n \in 1 .. c
        PROVE  /\ Good(ls[n], n) /\ \A j \in 1 .. Len(ls[n]) : roots[n] \in t.path[ls[n][j]]
    <3>1. /\ Enumerates(ls[n], {m \in MenuId : roots[n] \in t.path[m]})
          /\ Consistent(t) => \A j, k \in 1 .. Len(ls[n]) : j < k => Follows(t, ls[n][j], ls[n][k])
      BY <1>5, TreeList
    <3>2. \A j \in 1 .. Len(ls[n]) : roots[n] \in t.path[ls[n][j]]
      BY <3>1 DEF Enumerates, ToSet
    <3> QED
      BY <3>1, <3>2 DEF Enumerates
  <2> DEFINE S == {n \in 1 .. c : Good(g[n], n)}
  <2>3. 1 \in S
    <3>1. 1 \in 1 .. c /\ g[1] = ls[1]
      BY <1>4, <1>7, <2>1
    <3>2. Good(ls[1], 1)
      BY <2>2, <3>1
    <3> QED
      BY <3>1, <3>2
  <2>4. ASSUME NEW n \in 1 .. c - 1, n \in S PROVE n + 1 \in S
    <3> DEFINE x == g[n]
               y == ls[n + 1]
               z == x \o y
    <3>1. n + 1 \in 1 .. c /\ g[n + 1] = z
      <4>1. n + 1 \in 1 .. c /\ n + 1 # 1 /\ (n + 1) - 1 = n
        BY <1>4
      <4> QED
        BY <2>1, <4>1
    <3>2. Good(x, n)
      BY <2>4
    <3>3. Good(y, n + 1) /\ \A j \in 1 .. Len(y) : roots[n + 1] \in t.path[y[j]]
      BY <2>2, <3>1
    <3> HIDE DEF x, y
    <3>4. /\ z \in Seq(MenuId) /\ Len(x) \in Nat /\ Len(y) \in Nat
          /\ \A j \in 1 .. Len(z) : \/ j \in 1 .. Len(x) /\ z[j] = x[j]
                                    \/ j - Len(x) \in 1 .. Len(y) /\ z[j] = y[j - Len(x)]
      BY <3>2, <3>3
    <3> HIDE DEF z
    <3>5. \A j \in 1 .. Len(z) : \E k \in 1 .. n + 1 : roots[k] \in t.path[z[j]]
      <4> TAKE j \in 1 .. Len(z)
      <4>1. CASE j \in 1 .. Len(x) /\ z[j] = x[j]
        <5>1. PICK k \in 1 .. n : roots[k] \in t.path[z[j]]
          BY <3>2, <4>1
        <5>2. k \in 1 .. n + 1
          OBVIOUS
        <5> QED
          BY <5>1, <5>2
      <4>2. CASE j - Len(x) \in 1 .. Len(y) /\ z[j] = y[j - Len(x)]
        <5>1. roots[n + 1] \in t.path[z[j]]
          BY <3>3, <4>2
        <5>2. n + 1 \in 1 .. n + 1
          OBVIOUS
        <5> QED
          BY <5>1, <5>2
      <4> QED
        BY <3>4, <4>1, <4>2
    <3>6. ASSUME Consistent(t), NEW j \in 1 .. Len(z), NEW k \in 1 .. Len(z), j < k
          PROVE  Follows(t, z[j], z[k])
      <4>1. CASE k \in 1 .. Len(x)
        BY <3>2, <3>4, <3>6, <4>1
      <4>2. CASE j \notin 1 .. Len(x)
        <5>1. /\ j - Len(x) \in 1 .. Len(y) /\ z[j] = y[j - Len(x)]
              /\ k - Len(x) \in 1 .. Len(y) /\ z[k] = y[k - Len(x)]
              /\ j - Len(x) < k - Len(x)
          BY <3>4, <3>6, <4>2
        <5> QED
          BY <3>3, <3>6, <5>1
      <4>3. CASE j \in 1 .. Len(x) /\ k \notin 1 .. Len(x)
        <5>1. z[j] = x[j] /\ k - Len(x) \in 1 .. Len(y) /\ z[k] = y[k - Len(x)]
          BY <3>4, <4>3
        <5>2. PICK i0 \in 1 .. n : roots[i0] \in t.path[z[j]]
          BY <3>2, <4>3, <5>1
        <5>3. roots[n + 1] \in t.path[z[k]]
          BY <3>3, <5>1
        <5>4. /\ roots[i0] # roots[n + 1] /\ roots[i0] \in MenuId /\ roots[n + 1] \in MenuId
              /\ t.pid[roots[i0]] = Root /\ t.pid[roots[n + 1]] = Root
          BY <1>4, <3>1
        <5>5. z[j] \in MenuId /\ z[k] \in MenuId
          BY <3>4
        <5> QED
          BY <3>6, <5>2, <5>3, <5>4, <5>5, TreesApart
      <4> QED
        BY <4>1, <4>2, <4>3, <3>4, <3>6
    <3> QED
      BY <3>1, <3>4, <3>5, <3>6
  <2> HIDE DEF S
  <2>5. 1 .. c \subseteq S
    BY <1>4, <2>3, <2>4, RangeInduction
  <2>6. c \in S
    BY <1>4, <1>7, <2>5
  <2> QED
    BY <2>1, <2>6 DEF S
<1> QED
  BY <1>6, <1>7

-----------------------------------------------------------------------------
(* Types *)

\* The sequence that is sorted has the same menus, in the order of their column.
LEMMA SortMenusEnumerates ==
    ASSUME table \in Tables, NEW S \in SUBSET MenuId
    PROVE  /\ Enumerates(SortMenus(S), S)
           /\ \A j, k \in 1 .. Len(SortMenus(S)) :
                j < k => table.sort[SortMenus(S)[j]] >= table.sort[SortMenus(S)[k]]
<1> DEFINE s == SortMenus(S)
<1>1. s \in SetToSeqs(S) /\ \A j, k \in 1 .. Len(s) : j < k => ~CompareTo(s[k], s[j])
  BY SortedMenus
<1>2. Enumerates(s, S)
  BY <1>1, SetToSeqsEnumerate
<1>3. ASSUME NEW j \in 1 .. Len(s), NEW k \in 1 .. Len(s), j < k
      PROVE  table.sort[s[j]] >= table.sort[s[k]]
  <2>1. s[j] \in MenuId /\ s[k] \in MenuId
    BY <1>2 DEF Enumerates
  <2>2. table.sort[s[j]] \in Int /\ table.sort[s[k]] \in Int
    BY <2>1, SortKeyAssumption DEF Tables
  <2>3. ~(table.sort[s[k]] > table.sort[s[j]])
    BY <1>1, <1>3 DEF CompareTo
  <2> QED
    BY <2>2, <2>3
<1> QED
  BY <1>2, <1>3

LEMMA ListedAreMenus ==
    ASSUME TreeTypeOK
    PROVE  Listed \subseteq MenuId /\ \A j \in 1 .. Len(list) : list[j] \in Listed
BY DEF TreeTypeOK, Listed, ToSet

LEMMA InitTreeTyped == TreeInit => TreeTypeOK
<1> SUFFICES ASSUME TreeInit PROVE TreeTypeOK
  OBVIOUS
<1>1. table \in Tables
  BY StoredTables DEF TreeInit
<1>2. list \in Seq(MenuId) /\ query \in {"page", "user"}
  <2>1. CASE query = "page" /\ list \in MenuPageByType(table) \ {<<>>}
    BY <1>1, <2>1, PageList
  <2>2. CASE query = "user" /\ \E linked \in SUBSET MenuId \ {{}} : list \in MenuFunctionUserAll(table, linked)
    BY <1>1, <2>2, UserList DEF Enumerates
  <2> QED
    BY <2>1, <2>2 DEF TreeInit
<1>3. 1 \in 1 .. Len(list) + 1
  BY <1>2
<1> QED
  BY <1>1, <1>2, <1>3 DEF TreeInit, TreeTypeOK

LEMMA StepTreeTyped == TreeTypeOK /\ [TreeNext]_treeVars => TreeTypeOK'
<1> SUFFICES ASSUME TreeTypeOK, [TreeNext]_treeVars PROVE TreeTypeOK'
  OBVIOUS
<1>0. /\ Listed \subseteq MenuId /\ hashMap \subseteq Listed
      /\ \A j \in 1 .. Len(list) : list[j] \in Listed
  BY ListedAreMenus DEF TreeTypeOK, Listed
<1>1. CASE Attach
  <2> DEFINE f == table.pid[Visited]
  <2>1. Visited \in MenuId /\ f \in MenuId /\ i + 1 \in 1 .. Len(list) + 1
    BY <1>0, <1>1 DEF Attach, TreeTypeOK
  <2>2. childers' = [childers EXCEPT ![f] = Append(@, Visited)]
    BY <1>1 DEF Attach
  <2>3. childers' \in [MenuId -> Seq(MenuId)]
    <3> HIDE DEF f
    <3> QED
      BY <2>1, <2>2 DEF TreeTypeOK
  <2> QED
    BY <1>1, <2>1, <2>3 DEF Attach, TreeTypeOK
<1>2. CASE Leave
  BY <1>2 DEF Leave, TreeTypeOK
<1>3. CASE Fail
  BY <1>3 DEF Fail, TreeTypeOK
<1>4. CASE Sort
  <2>1. \A S \in SUBSET MenuId : SortMenus(S) \in Seq(MenuId)
    BY SortMenusEnumerates DEF TreeTypeOK, Enumerates
  <2>2. \A m \in MenuId : ToSet(childers[m]) \subseteq MenuId /\ childers[m] \in Seq(MenuId)
    BY DEF TreeTypeOK, ToSet
  <2>3. childers' \in [MenuId -> Seq(MenuId)] /\ tree' \in Seq(MenuId)
    BY <1>0, <1>4, <2>1, <2>2 DEF Sort
  <2> QED
    BY <1>4, <2>3 DEF Sort, TreeTypeOK
<1>5. CASE UNCHANGED treeVars
  BY <1>5 DEF treeVars, TreeTypeOK
<1> QED
  BY <1>1, <1>2, <1>3, <1>4, <1>5 DEF TreeNext

\* Whatever the rows and the list, the loop takes a father only from the menus of
\* the list, and the sequences it makes are of menus.
THEOREM TreeTypesAlways == TreeSpec => []TreeTypeOK
BY InitTreeTyped, StepTreeTyped, PTL DEF TreeSpec

-----------------------------------------------------------------------------
(* The list that the loop is given *)

\* The list has no menu twice.
Tidy == query = "user" \/ table.current

ListInv ==
    /\ Tidy => \A j, k \in 1 .. Len(list) : j < k => list[j] # list[k]
    /\ query = "page" /\ table.current =>
         \A j, k \in 1 .. Len(list) : j <= k => table.pid[list[k]] # list[j]
    /\ table.current =>
         \A j, k \in 1 .. Len(list) :
           j < k /\ table.pid[list[j]] = table.pid[list[k]] /\ table.pid[list[j]] # Root =>
             table.sort[list[j]] >= table.sort[list[k]]

LEMMA InitList == TreeInit => ListInv
<1> SUFFICES ASSUME TreeInit PROVE ListInv
  OBVIOUS
<1>1. table \in Tables /\ (table.current => Consistent(table))
  BY StoredTables DEF TreeInit
<1>2. CASE query = "page" /\ list \in MenuPageByType(table) \ {<<>>}
  <2>1. list \in Seq(MenuId)
    BY <1>1, <1>2, PageList
  <2>2. ASSUME table.current
        PROVE  \A j, k \in 1 .. Len(list) : j < k => Follows(table, list[j], list[k])
    BY <1>1, <1>2, <2>2, PageList
  <2>3. ASSUME table.current, NEW m \in MenuId PROVE table.pid[m] # m
    <3>1. table.dept[m] \in Nat /\ m # Root
      BY <1>1, MenuAssumption DEF Tables
    <3>2. table.dept[m] = IF table.pid[m] = Root THEN 1 ELSE table.dept[table.pid[m]] + 1
      BY <1>1, <2>3 DEF Consistent
    <3> QED
      BY <3>1, <3>2
  <2>4. ASSUME table.current, NEW j \in 1 .. Len(list), NEW k \in 1 .. Len(list), j <= k
        PROVE  table.pid[list[k]] # list[j]
    <3>1. CASE j = k
      BY <2>1, <2>3, <2>4, <3>1
    <3>2. CASE j # k
      BY <2>2, <2>4, <3>2 DEF Follows
    <3> QED
      BY <3>1, <3>2
  <2> QED
    BY <1>2, <2>2, <2>4 DEF ListInv, Tidy, Follows
<1>3. CASE query = "user" /\ \E linked \in SUBSET MenuId \ {{}} : list \in MenuFunctionUserAll(table, linked)
  <2>1. PICK linked \in SUBSET MenuId : list \in MenuFunctionUserAll(table, linked)
    BY <1>3
  <2> QED
    BY <1>1, <1>3, <2>1, UserList DEF ListInv, Tidy, Enumerates
<1> QED
  BY <1>2, <1>3 DEF TreeInit

LEMMA StepList == ListInv /\ [TreeNext]_treeVars => ListInv'
<1> SUFFICES ASSUME ListInv, [TreeNext]_treeVars PROVE ListInv'
  OBVIOUS
<1>1. UNCHANGED <<table, query, list>>
  BY DEF TreeNext, treeVars, Attach, Leave, Fail, Sort
<1> QED
  BY <1>1 DEF ListInv, Tidy

-----------------------------------------------------------------------------
(* The loop *)

Descending(s) == \A j, k \in 1 .. Len(s) : j < k => table.sort[s[j]] >= table.sort[s[k]]

\* The menus of the list that have left the map and have the father f.
AttachedTo(f) == {m \in Listed \ hashMap : table.pid[m] = f}

\* What has left the map is, once, among the children of its father, who is in
\* the list; what stays in the map is, once, on the top level in the end.
ShapeInv ==
    /\ \A m \in Listed \ hashMap : table.pid[m] \in Listed
    /\ \A f \in MenuId : Enumerates(childers[f], AttachedTo(f))
    /\ pc = "done" => Enumerates(tree, hashMap) /\ i = Len(list) + 1

\* In a tidy list what has not been visited is in the map.
AheadInv == Tidy => pc # "failed" /\ \A j \in i .. Len(list) : list[j] \in hashMap

\* In the list of a page, what has been visited has left it, if its father is listed.
BehindInv ==
    query = "page" /\ table.current =>
      \A j \in 1 .. i - 1 : table.pid[list[j]] \in Listed => list[j] \notin hashMap

\* The children of a menu are in the order of their column at all times.
OrderInv ==
    table.current => /\ \A f \in MenuId : Descending(childers[f])
                     /\ pc = "done" => Descending(tree)

LoopInv == ShapeInv /\ AheadInv /\ BehindInv /\ OrderInv

LEMMA AppendEnumerates ==
    ASSUME NEW S, NEW s, Enumerates(s, S), NEW v \in MenuId, v \notin S
    PROVE  Enumerates(Append(s, v), S \union {v})
<1> DEFINE z == Append(s, v)
<1>1. /\ z \in Seq(MenuId) /\ Len(z) = Len(s) + 1 /\ Len(s) \in Nat /\ z[Len(s) + 1] = v
      /\ \A j \in 1 .. Len(s) : z[j] = s[j]
  BY DEF Enumerates
<1>2. \A j \in 1 .. Len(s) : s[j] \in S
  BY <1>1 DEF Enumerates, ToSet
<1>3. \A x \in S : \E j \in 1 .. Len(s) : s[j] = x
  BY DEF Enumerates, ToSet
<1> HIDE DEF z
<1>4. \A j \in 1 .. Len(z) : j \in 1 .. Len(s) \/ j = Len(s) + 1
  BY <1>1
<1>5. ToSet(z) = S \union {v}
  <2>1. DOMAIN z = 1 .. Len(z)
    BY <1>1
  <2>2. ASSUME NEW x \in S \union {v} PROVE \E j \in 1 .. Len(z) : z[j] = x
    <3>1. CASE x = v
      BY <1>1, <3>1, Len(s) + 1 \in 1 .. Len(z)
    <3>2. CASE x \in S
      <4>1. PICK j \in 1 .. Len(s) : s[j] = x
        BY <1>3, <3>2
      <4> QED
        BY <1>1, <4>1, j \in 1 .. Len(z)
    <3> QED
      BY <3>1, <3>2
  <2>3. \A j \in 1 .. Len(z) : z[j] \in S \union {v}
    BY <1>1, <1>2, <1>4
  <2> QED
    BY <2>1, <2>2, <2>3 DEF ToSet
<1>6. ASSUME NEW j \in 1 .. Len(z), NEW k \in 1 .. Len(z), z[j] = z[k] PROVE j = k
  <2>1. CASE j \in 1 .. Len(s) /\ k \in 1 .. Len(s)
    BY <1>1, <1>6, <2>1 DEF Enumerates
  <2>2. CASE j = Len(s) + 1 /\ k \in 1 .. Len(s)
    BY <1>1, <1>2, <1>6, <2>2
  <2>3. CASE k = Len(s) + 1 /\ j \in 1 .. Len(s)
    BY <1>1, <1>2, <1>6, <2>3
  <2>4. CASE j = Len(s) + 1 /\ k = Len(s) + 1
    BY <2>4
  <2> QED
    BY <1>4, <2>1, <2>2, <2>3, <2>4
<1> QED
  BY <1>1, <1>5, <1>6 DEF Enumerates, z

LEMMA InitLoop == TreeInit => LoopInv
<1> SUFFICES ASSUME TreeInit PROVE LoopInv
  OBVIOUS
<1>0. TreeTypeOK
  BY InitTreeTyped
<1>1. /\ i = 1 /\ hashMap = Listed /\ pc = "attach" /\ childers = [m \in MenuId |-> <<>>]
  BY DEF TreeInit, Listed
<1>2. Enumerates(<<>>, {})
  BY DEF Enumerates, ToSet
<1>3. ShapeInv
  BY <1>1, <1>2 DEF ShapeInv, AttachedTo
<1>4. AheadInv
  BY <1>0, <1>1, ListedAreMenus DEF AheadInv
<1>5. BehindInv
  BY <1>1 DEF BehindInv
<1>6. OrderInv
  BY <1>1 DEF OrderInv, Descending
<1> QED
  BY <1>3, <1>4, <1>5, <1>6 DEF LoopInv

LEMMA AttachLoop ==
    ASSUME TreeTypeOK, ListInv, LoopInv, Attach
    PROVE  LoopInv'
<1> DEFINE v == list[i]
           f == table.pid[v]
<1>1. /\ pc = "attach" /\ i \in 1 .. Len(list) /\ v \in hashMap /\ f \in hashMap
      /\ childers' = [childers EXCEPT ![f] = Append(@, v)]
      /\ hashMap' = hashMap \ {v} /\ i' = i + 1
      /\ UNCHANGED <<table, query, list, tree, pc>>
  BY DEF Attach, TreeTypeOK, Visited
<1>2. /\ Listed \subseteq MenuId /\ hashMap \subseteq Listed /\ v \in MenuId /\ f \in MenuId
      /\ Listed' = Listed /\ Len(list) \in Nat /\ i \in Nat
  BY <1>1, ListedAreMenus DEF TreeTypeOK, Listed
<1>3. childers' = [k \in MenuId |-> IF k = f THEN Append(childers[f], v) ELSE childers[k]]
  BY <1>1 DEF TreeTypeOK
<1> HIDE DEF v, f
<1>4. ShapeInv'
  <2>1. \A m \in Listed \ hashMap' : table.pid[m] \in Listed
    BY <1>1, <1>2 DEF LoopInv, ShapeInv, f
  <2> DEFINE Now(k) == {m \in Listed \ (hashMap \ {v}) : table.pid[m] = k}
  <2>2. /\ \A x : x \in Now(f) <=> x \in AttachedTo(f) \union {v}
        /\ v \notin AttachedTo(f)
    BY <1>1, <1>2 DEF AttachedTo, f
  <2>3. Enumerates(childers[f], AttachedTo(f))
    BY <1>2 DEF LoopInv, ShapeInv
  <2>4. Enumerates(Append(childers[f], v), AttachedTo(f) \union {v})
    BY <1>2, <2>2, <2>3, AppendEnumerates
  <2>5. Now(f) = AttachedTo(f) \union {v}
    BY <2>2
  <2>6. ASSUME NEW k \in MenuId, k # f PROVE Now(k) = AttachedTo(k)
    BY <1>1, <1>2, <2>6 DEF AttachedTo, f
  <2>7. \A k \in MenuId : AttachedTo(k)' = Now(k)
    BY <1>1, <1>2 DEF AttachedTo
  <2> HIDE DEF Now
  <2>8. ASSUME NEW k \in MenuId PROVE Enumerates(childers'[k], Now(k))
    <3>1. CASE k = f
      BY <1>2, <1>3, <2>4, <2>5, <3>1
    <3>2. CASE k # f
      <4>1. Enumerates(childers[k], AttachedTo(k))
        BY DEF LoopInv, ShapeInv
      <4> QED
        BY <1>3, <2>6, <3>2, <4>1
    <3> QED
      BY <3>1, <3>2
  <2> QED
    BY <1>1, <1>2, <2>1, <2>7, <2>8 DEF ShapeInv
<1>5. AheadInv'
  <2> SUFFICES ASSUME Tidy PROVE pc # "failed" /\ \A j \in i + 1 .. Len(list) : list[j] \in hashMap \ {v}
    BY <1>1 DEF AheadInv, Tidy
  <2>1. \A j \in i .. Len(list) : list[j] \in hashMap
    BY DEF LoopInv, AheadInv
  <2>2. \A j \in i + 1 .. Len(list) : list[j] # v
    BY <1>1, <1>2 DEF ListInv, v
  <2> QED
    BY <1>1, <1>2, <2>1, <2>2
<1>6. BehindInv'
  <2> SUFFICES ASSUME query = "page", table.current,
                      NEW j \in 1 .. (i + 1) - 1, table.pid[list[j]] \in Listed
               PROVE  list[j] \notin hashMap \ {v}
    BY <1>1, <1>2 DEF BehindInv
  <2>1. j \in 1 .. i - 1 \/ j = i
    BY <1>2
  <2> QED
    BY <2>1 DEF LoopInv, BehindInv, v
<1>7. OrderInv'
  <2> SUFFICES ASSUME table.current PROVE \A k \in MenuId : Descending(childers[k])'
    BY <1>1 DEF OrderInv
  <2>1. \A k \in MenuId : Descending(childers[k])
    BY DEF LoopInv, OrderInv
  <2>2. ASSUME NEW e \in AttachedTo(f) PROVE table.sort[e] >= table.sort[v]
    <3>1. PICK p \in 1 .. Len(list) : list[p] = e
      BY <2>2 DEF AttachedTo, Listed, ToSet, TreeTypeOK
    <3>2. \A j \in i .. Len(list) : list[j] \in hashMap
      BY DEF LoopInv, AheadInv, Tidy
    <3>3. p < i
      BY <1>2, <2>2, <3>1, <3>2 DEF AttachedTo
    <3>4. table.pid[e] = f /\ table.pid[v] = f /\ f # Root
      BY <1>2, <2>2, MenuAssumption DEF AttachedTo, f
    <3> QED
      BY <1>1, <3>1, <3>3, <3>4 DEF ListInv, v
  <2>3. /\ childers[f] \in Seq(MenuId)
        /\ \A j \in 1 .. Len(childers[f]) : childers[f][j] \in AttachedTo(f)
    BY <1>2 DEF LoopInv, ShapeInv, Enumerates, ToSet
  <2>4. ASSUME NEW k \in MenuId PROVE Descending(childers[k])'
    <3>1. CASE k # f
      BY <1>1, <1>3, <2>1, <3>1 DEF Descending
    <3>2. CASE k = f
      <4> DEFINE z == Append(childers[f], v)
      <4>1. childers'[k] = z
        BY <1>2, <1>3, <3>2
      <4>2. /\ Len(childers[f]) \in Nat /\ Len(z) = Len(childers[f]) + 1 /\ z[Len(childers[f]) + 1] = v
            /\ \A j \in 1 .. Len(childers[f]) : z[j] = childers[f][j]
        BY <1>2, <2>3
      <4> HIDE DEF z
      <4>3. \A j, l \in 1 .. Len(z) : j < l => table.sort[z[j]] >= table.sort[z[l]]
        <5> TAKE j, l \in 1 .. Len(z)
        <5> HAVE j < l
        <5>1. j \in 1 .. Len(childers[f])
          BY <4>2
        <5>2. CASE l \in 1 .. Len(childers[f])
          BY <1>2, <2>1, <4>2, <5>1, <5>2 DEF Descending
        <5>3. CASE l = Len(childers[f]) + 1
          BY <2>2, <2>3, <4>2, <5>1, <5>3
        <5> QED
          BY <4>2, <5>2, <5>3
      <4> QED
        BY <1>1, <4>1, <4>3 DEF Descending
    <3> QED
      BY <3>1, <3>2
  <2> QED
    BY <2>4
<1> QED
  BY <1>4, <1>5, <1>6, <1>7 DEF LoopInv

\* A menu of a tidy list that stays in the map has its father behind it.
LEMMA LeaveLoop ==
    ASSUME TreeTypeOK, ListInv, LoopInv, Leave
    PROVE  LoopInv'
<1>1. /\ pc = "attach" /\ i \in 1 .. Len(list) /\ table.pid[list[i]] \notin hashMap /\ i' = i + 1
      /\ UNCHANGED <<table, query, list, hashMap, childers, tree, pc>>
      /\ Len(list) \in Nat
  BY DEF Leave, TreeTypeOK, Visited
<1>2. ShapeInv'
  BY <1>1 DEF LoopInv, ShapeInv, AttachedTo, Listed
<1>3. AheadInv'
  BY <1>1 DEF LoopInv, AheadInv, Tidy
<1>4. BehindInv'
  <2> SUFFICES ASSUME query = "page", table.current,
                      NEW j \in 1 .. (i + 1) - 1, table.pid[list[j]] \in Listed
               PROVE  list[j] \notin hashMap
    BY <1>1 DEF BehindInv, Listed
  <2>1. CASE j \in 1 .. i - 1
    BY <2>1 DEF LoopInv, BehindInv
  <2>2. CASE j = i
    <3>0. table.pid[list[i]] \in Listed /\ DOMAIN list = 1 .. Len(list)
      BY <2>2 DEF TreeTypeOK
    <3>1. PICK p \in 1 .. Len(list) : list[p] = table.pid[list[i]]
      BY <3>0 DEF Listed, ToSet
    <3>2. ~(p <= i)
      BY <1>1, <3>1 DEF ListInv
    <3>3. list[p] \in hashMap
      BY <1>1, <3>2 DEF LoopInv, AheadInv, Tidy
    <3> QED
      BY <1>1, <3>1, <3>3
  <2> QED
    BY <1>1, <2>1, <2>2
<1>5. OrderInv'
  BY <1>1 DEF LoopInv, OrderInv, Descending
<1> QED
  BY <1>2, <1>3, <1>4, <1>5 DEF LoopInv

LEMMA FailLoop ==
    ASSUME TreeTypeOK, LoopInv, Fail
    PROVE  LoopInv' /\ ~Tidy
<1>1. /\ i \in 1 .. Len(list) /\ list[i] \notin hashMap /\ pc' = "failed" /\ Len(list) \in Nat
      /\ UNCHANGED <<table, query, list, i, hashMap, childers, tree>>
  BY DEF Fail, TreeTypeOK, Visited
<1>2. ~Tidy
  BY <1>1 DEF LoopInv, AheadInv
<1>3. ShapeInv'
  BY <1>1 DEF LoopInv, ShapeInv, AttachedTo, Listed
<1>4. AheadInv'
  BY <1>1, <1>2 DEF AheadInv, Tidy
<1>5. BehindInv'
  BY <1>1 DEF LoopInv, BehindInv, Listed
<1>6. OrderInv'
  BY <1>1 DEF LoopInv, OrderInv, Descending
<1> QED
  BY <1>2, <1>3, <1>4, <1>5, <1>6 DEF LoopInv

LEMMA SortLoop ==
    ASSUME TreeTypeOK, LoopInv, Sort
    PROVE  LoopInv'
<1>1. /\ i > Len(list) /\ pc' = "done" /\ tree' = SortMenus(hashMap)
      /\ childers' = [m \in MenuId |-> IF m \in hashMap THEN SortMenus(ToSet(childers[m]))
                                                      ELSE childers[m]]
      /\ UNCHANGED <<table, query, list, i, hashMap>>
      /\ i = Len(list) + 1 /\ Len(list) \in Nat
  BY DEF Sort, TreeTypeOK
<1>2. table \in Tables /\ hashMap \in SUBSET MenuId
  BY ListedAreMenus DEF TreeTypeOK, Listed
<1>3. /\ Enumerates(tree', hashMap)
      /\ \A j, k \in 1 .. Len(tree') : j < k => table.sort[tree'[j]] >= table.sort[tree'[k]]
  BY <1>1, <1>2, SortMenusEnumerates
<1>4. ASSUME NEW f \in MenuId
      PROVE  /\ Enumerates(childers'[f], AttachedTo(f))
             /\ table.current => \A j, k \in 1 .. Len(childers'[f]) :
                  j < k => table.sort[childers'[f][j]] >= table.sort[childers'[f][k]]
  <2>1. /\ Enumerates(childers[f], AttachedTo(f))
        /\ table.current => Descending(childers[f])
    BY DEF LoopInv, ShapeInv, OrderInv
  <2>2. CASE f \in hashMap
    <3>1. ToSet(childers[f]) = AttachedTo(f) /\ AttachedTo(f) \in SUBSET MenuId
      BY <2>1, ListedAreMenus DEF Enumerates, AttachedTo
    <3>2. childers'[f] = SortMenus(AttachedTo(f))
      BY <1>1, <2>2, <3>1
    <3> QED
      BY <1>2, <3>1, <3>2, SortMenusEnumerates
  <2>3. CASE f \notin hashMap
    <3>1. childers'[f] = childers[f]
      BY <1>1, <2>3
    <3> QED
      BY <2>1, <3>1 DEF Descending
  <2> QED
    BY <2>2, <2>3
<1>5. \A f : AttachedTo(f)' = AttachedTo(f)
  BY <1>1 DEF AttachedTo, Listed
<1>6. ShapeInv'
  BY <1>1, <1>3, <1>4, <1>5 DEF LoopInv, ShapeInv, Listed
<1>7. AheadInv'
  BY <1>1 DEF AheadInv
<1>8. BehindInv'
  BY <1>1 DEF LoopInv, BehindInv, Listed
<1>9. OrderInv'
  BY <1>1, <1>3, <1>4 DEF OrderInv, Descending
<1> QED
  BY <1>6, <1>7, <1>8, <1>9 DEF LoopInv

TreeInv == TreeTypeOK /\ ListInv /\ LoopInv

LEMMA TreeInvAlways == TreeSpec => []TreeInv
<1>1. TreeInit => TreeInv
  BY InitTreeTyped, InitList, InitLoop DEF TreeInv
<1>2. TreeInv /\ [TreeNext]_treeVars => TreeInv'
  <2> SUFFICES ASSUME TreeInv, [TreeNext]_treeVars PROVE LoopInv'
    BY StepTreeTyped, StepList DEF TreeInv
  <2>1. CASE UNCHANGED treeVars
    BY <2>1 DEF treeVars, TreeInv, LoopInv, ShapeInv, AheadInv, BehindInv, OrderInv, Tidy, AttachedTo,
       Listed, Descending
  <2> QED
    BY <2>1, AttachLoop, LeaveLoop, FailLoop, SortLoop DEF TreeNext, TreeInv
<1> QED
  BY <1>1, <1>2, PTL DEF TreeSpec

-----------------------------------------------------------------------------
(* The properties *)

\* A sequence without repetitions is not longer than a list that has its members.
LEMMA NotLonger ==
    ASSUME NEW S, NEW s, Enumerates(s, S), NEW l \in Seq(MenuId), S \subseteq ToSet(l)
    PROVE  Len(s) <= Len(l)
<1> DEFINE n == Len(s)
           c == Len(l)
           h == [j \in 1 .. n |-> CHOOSE p \in 1 .. c : l[p] = s[j]]
<1>1. n \in Nat /\ c \in Nat /\ DOMAIN s = 1 .. n /\ DOMAIN l = 1 .. c
  BY DEF Enumerates
<1>2. \A j \in 1 .. n : h[j] \in 1 .. c /\ l[h[j]] = s[j]
  <2> TAKE j \in 1 .. n
  <2>1. s[j] \in ToSet(l)
    BY <1>1 DEF Enumerates, ToSet
  <2>2. \E p \in 1 .. c : l[p] = s[j]
    BY <1>1, <2>1 DEF ToSet
  <2>3. h[j] = CHOOSE p \in 1 .. c : l[p] = s[j]
    OBVIOUS
  <2> HIDE DEF h, n, c
  <2> QED
    BY <2>2, <2>3
<1>3. h \in [1 .. n -> 1 .. c]
  BY <1>2
<1> HIDE DEF h
<1>4. \A j, k \in 1 .. n : h[j] = h[k] => j = k
  BY <1>2 DEF Enumerates
<1> HIDE DEF n, c
<1>5. h \in Injection(1 .. n, 1 .. c)
  BY <1>3, <1>4 DEF Injection, IsInjective
<1>6. /\ IsFiniteSet(1 .. c) /\ Cardinality(1 .. c) = c
      /\ Cardinality(1 .. n) = n
  BY <1>1, FS_Interval
<1>7. Cardinality(1 .. n) <= Cardinality(1 .. c)
  BY <1>5, <1>6, FS_Injection
<1> QED
  BY <1>6, <1>7 DEF n, c

LEMMA ShapeShowsOnce == TreeInv => ShownOnce
<1> SUFFICES ASSUME TreeInv, pc = "done", NEW m \in Listed
             PROVE  Cardinality({k \in 1 .. Len(tree) : tree[k] = m})
                      + Cardinality({fk \in Listed \X (1 .. Len(list)) :
                                       /\ fk[2] <= Len(childers[fk[1]])
                                       /\ childers[fk[1]][fk[2]] = m}) = 1
  BY DEF ShownOnce
<1> DEFINE A == {k \in 1 .. Len(tree) : tree[k] = m}
           B == {fk \in Listed \X (1 .. Len(list)) : /\ fk[2] <= Len(childers[fk[1]])
                                                     /\ childers[fk[1]][fk[2]] = m}
<1>0. Listed \subseteq MenuId /\ hashMap \subseteq Listed
  BY ListedAreMenus DEF TreeInv, TreeTypeOK, Listed
<1>1. Enumerates(tree, hashMap) /\ \A f \in Listed : Enumerates(childers[f], AttachedTo(f))
  BY <1>0 DEF TreeInv, LoopInv, ShapeInv
<1>2. ASSUME NEW fk \in B PROVE m \in AttachedTo(fk[1])
  <2>1. fk[1] \in Listed /\ fk[2] \in 1 .. Len(childers[fk[1]]) /\ childers[fk[1]][fk[2]] = m
    BY <1>2
  <2> QED
    BY <1>1, <2>1 DEF Enumerates, ToSet
<1>3. CASE m \in hashMap
  <2>1. PICK k \in 1 .. Len(tree) : tree[k] = m
    BY <1>1, <1>3 DEF Enumerates, ToSet
  <2>2. A = {k}
    BY <1>1, <2>1 DEF Enumerates
  <2>3. B = {}
    BY <1>2, <1>3 DEF AttachedTo
  <2> HIDE DEF A, B
  <2>4. Cardinality(A) = 1 /\ Cardinality(B) = 0
    BY <2>2, <2>3, FS_Singleton, FS_EmptySet
  <2> QED
    BY <2>4 DEF A, B
<1>4. CASE m \notin hashMap
  <2> DEFINE f == table.pid[m]
  <2>1. f \in Listed /\ m \in AttachedTo(f)
    BY <1>4 DEF TreeInv, LoopInv, ShapeInv, AttachedTo
  <2>2. PICK k \in 1 .. Len(childers[f]) : childers[f][k] = m
    BY <1>1, <2>1 DEF Enumerates, ToSet
  <2>3. Len(childers[f]) <= Len(list) /\ Len(childers[f]) \in Nat /\ Len(list) \in Nat
    <3>1. AttachedTo(f) \subseteq ToSet(list) /\ list \in Seq(MenuId)
      BY DEF AttachedTo, Listed, TreeInv, TreeTypeOK
    <3>2. Enumerates(childers[f], AttachedTo(f))
      BY <1>1, <2>1
    <3> QED
      BY <3>1, <3>2, NotLonger DEF Enumerates
  <2>4. <<f, k>> \in B
    BY <2>1, <2>2, <2>3
  <2>5. ASSUME NEW fk \in B PROVE fk = <<f, k>>
    <3>1. fk[1] = f
      BY <1>2 DEF AttachedTo
    <3>2. fk[2] \in 1 .. Len(childers[f]) /\ childers[f][fk[2]] = m /\ fk = <<fk[1], fk[2]>>
      BY <3>1
    <3>3. fk[2] = k
      BY <1>1, <2>1, <2>2, <3>2 DEF Enumerates
    <3> QED
      BY <3>1, <3>2, <3>3
  <2>6. A = {}
    BY <1>1, <1>4 DEF Enumerates, ToSet
  <2> HIDE DEF A, B
  <2>7. B = {<<f, k>>}
    BY <2>4, <2>5
  <2>8. Cardinality(A) = 0 /\ Cardinality(B) = 1
    BY <2>6, <2>7, FS_Singleton, FS_EmptySet
  <2> QED
    BY <2>8 DEF A, B
<1> QED
  BY <1>3, <1>4

\* Every menu of a list is shown exactly once, also if a list names it twice and
\* the loop gets to the end: removing the attached ones while the map is still
\* being searched loses none and shows none at two places.
THEOREM EveryMenuIsShownOnce == TreeSpec => []ShownOnce
BY TreeInvAlways, ShapeShowsOnce, PTL

\* Building the tree fails only on a list of getMenuPageByType with stale paths.
THEOREM FailureNeedsStalePaths == TreeSpec => []FailsOnlyOnStalePaths
<1>1. TreeInv => FailsOnlyOnStalePaths
  BY DEF TreeInv, TreeTypeOK, LoopInv, AheadInv, Tidy, FailsOnlyOnStalePaths
<1> QED
  BY <1>1, TreeInvAlways, PTL

\* The lists of getMenuPageByType give a nested tree of any depth, as long as no
\* menu with menus below it has been moved: sorting by dept puts every father
\* behind his children, so he is in the map when they are visited.
THEOREM PageTreesAreNested == TreeSpec => []PageTreeIsNested
<1>1. TreeInv => PageTreeIsNested
  <2> SUFFICES ASSUME TreeInv, pc = "done", query = "page", table.current PROVE Nested
    BY DEF PageTreeIsNested
  <2>0. Listed \subseteq MenuId /\ hashMap \subseteq Listed
    BY ListedAreMenus DEF TreeInv, TreeTypeOK, Listed
  <2>1. /\ ToSet(tree) = hashMap /\ i = Len(list) + 1
        /\ \A f \in Listed : ToSet(childers[f]) = AttachedTo(f)
    BY <2>0 DEF TreeInv, LoopInv, ShapeInv, Enumerates
  <2>2. \A m \in Listed : m \in hashMap <=> table.pid[m] \notin Listed
    <3> TAKE m \in Listed
    <3>1. PICK p \in 1 .. Len(list) : list[p] = m
      BY DEF Listed, ToSet, TreeInv, TreeTypeOK
    <3>2. p \in 1 .. i - 1
      BY <2>1 DEF TreeInv, TreeTypeOK
    <3>3. table.pid[m] \in Listed => m \notin hashMap
      BY <3>1, <3>2 DEF TreeInv, LoopInv, BehindInv
    <3>4. m \notin hashMap => table.pid[m] \in Listed
      BY DEF TreeInv, LoopInv, ShapeInv
    <3> QED
      BY <3>3, <3>4
  <2>3. ToSet(tree) = {m \in Listed : table.pid[m] \notin Listed}
    BY <2>0, <2>1, <2>2
  <2>4. ASSUME NEW f \in Listed PROVE ToSet(childers[f]) = {m \in Listed : table.pid[m] = f}
    BY <2>1, <2>2 DEF AttachedTo
  <2> QED
    BY <2>3, <2>4 DEF Nested
<1> QED
  BY <1>1, TreeInvAlways, PTL

\* Siblings are in the order of their column on every level of every tree without
\* stale paths, although the code sorts two levels: below them, the order in which
\* the loop appends is that of the query.
THEOREM SiblingsAreInOrder == TreeSpec => []SiblingsInOrder
<1>1. TreeInv => SiblingsInOrder
  <2> SUFFICES ASSUME TreeInv, pc = "done", table.current
               PROVE  \A s \in {tree} \union {childers[m] : m \in Listed} : Descending(s)
    BY DEF SiblingsInOrder, Descending
  <2>1. Listed \subseteq MenuId
    BY ListedAreMenus DEF TreeInv
  <2> QED
    BY <2>1 DEF TreeInv, LoopInv, OrderInv
<1> QED
  BY <1>1, TreeInvAlways, PTL
=============================================================================
