------------------------------ MODULE MenuTree ------------------------------
(***************************************************************************)
(* The menu tree that MenuFunctionTreeUtils.getMenuFunctionTree builds     *)
(* from a list of rows of sys_menu_function, and the lists that the two    *)
(* kinds of query hand to it.                                              *)
(*                                                                         *)
(* The loop visits the list once. A menu whose father is still in the map  *)
(* is appended to the father's children and leaves the map; what stays in  *)
(* the map at the end is the top level. So a menu can be attached only to  *)
(* a father that comes later in the list, or that is never attached.       *)
(***************************************************************************)
EXTENDS Integers, Sequences, FiniteSets, SequencesExt

CONSTANTS MenuId,    \* ids of menus
          Root,      \* the pid of a menu of the first level (-1)
          SortKey    \* values of the column sort

ASSUME MenuAssumption == MenuId \subseteq Nat /\ IsFiniteSet(MenuId) /\ Root \notin MenuId
ASSUME SortKeyAssumption == SortKey \subseteq Int

VARIABLES
    table,      \* the menus: pid, dept, path and sort of each; current: no path is stale
    query,      \* which query filled the list
    list,       \* sysMenuFunctions, as ids
    i,          \* the position of the loop
    hashMap,    \* the ids that are still in the map
    childers,   \* menuFunctionChilders of each menu
    tree,       \* the result: the top level, in order
    pc

treeVars == <<table, query, list, i, hashMap, childers, tree, pc>>

Tables == [pid : [MenuId -> MenuId \union {Root}], dept : [MenuId -> Nat],
           path : [MenuId -> SUBSET MenuId], sort : [MenuId -> SortKey], current : BOOLEAN]

TreeTypeOK ==
    /\ table \in Tables
    /\ query \in {"page", "user"}
    /\ list \in Seq(MenuId)
    /\ i \in 1 .. Len(list) + 1
    /\ hashMap \subseteq ToSet(list)
    /\ childers \in [MenuId -> Seq(MenuId)]
    /\ tree \in Seq(MenuId)
    /\ pc \in {"attach", "done", "failed"}

-----------------------------------------------------------------------------
(* The rows *)

\* addMenuFunction: the father's path, then the id. dept comes with the request.
AddPaths(pid) ==
    LET path[m \in MenuId] == IF pid[m] = Root THEN {m} ELSE path[pid[m]] \union {m} IN path

Depths(pid) ==
    LET dept[m \in MenuId] == IF pid[m] = Root THEN 1 ELSE dept[pid[m]] + 1 IN dept

Added(pid, sort) ==
    [pid |-> pid, dept |-> Depths(pid), path |-> AddPaths(pid), sort |-> sort, current |-> TRUE]

\* updateMenuFunctionById with a new pid f: menu m gets a new path, the menus
\* below it keep theirs.
Moved(t, m, f) ==
    [t EXCEPT !.pid[m] = f,
              !.dept[m] = IF f = Root THEN 1 ELSE t.dept[f] + 1,
              !.path[m] = IF f = Root THEN {m} ELSE t.path[f] \union {m},
              !.current = \A k \in MenuId \ {m} : m \notin t.path[k]]

\* Any forest, in any order of creation.
Forests ==
    {pid \in [MenuId -> MenuId \union {Root}] :
        \E rank \in [MenuId -> 1 .. Cardinality(MenuId)] :
            \A m \in MenuId : pid[m] # Root => rank[pid[m]] < rank[m]}

\* The menus as they were created.
Created == {Added(pid, sort) : pid \in Forests, sort \in [MenuId -> SortKey]}

\* Those, or with one of them moved since (not below itself).
Stored ==
    Created
      \union {Moved(tm[1], tm[2], Root) : tm \in Created \X MenuId}
      \union {Moved(x[1], x[2], x[3]) :
                x \in {y \in Created \X MenuId \X MenuId : y[2] \notin y[1].path[y[3]]}}

-----------------------------------------------------------------------------
(* The queries *)

\* The sequences of the rows S that an ORDER BY may return.
Ordered(S, Before(_, _)) ==
    {s \in SetToSeqs(S) : \A j, k \in 1 .. Len(s) : j < k => ~Before(s[k], s[j])}

\* Mutant: dept asc where the query says desc.
SelectMenuFunctionTreeByIdAsc(t, r) ==
    Ordered({m \in MenuId : r \in t.path[m]},
            LAMBDA a, b : \/ t.dept[a] < t.dept[b]
                          \/ t.dept[a] = t.dept[b] /\ t.sort[a] > t.sort[b])

\* Mutant: the rows of one dept come in any order.
SelectMenuFunctionTreeByIdUnsorted(t, r) ==
    Ordered({m \in MenuId : r \in t.path[m]}, LAMBDA a, b : t.dept[a] > t.dept[b])

\* selectMenuFunctionTreeById: the path contains r; dept desc, sort desc.
SelectMenuFunctionTreeById(t, r) ==
    Ordered({m \in MenuId : r \in t.path[m]},
            LAMBDA a, b : \/ t.dept[a] > t.dept[b]
                          \/ t.dept[a] = t.dept[b] /\ t.sort[a] > t.sort[b])

\* selectMenuFunctionOrderSort: the menus of the first level; dept desc, sort desc.
SelectMenuFunctionOrderSort(t) ==
    Ordered({m \in MenuId : t.pid[m] = Root},
            LAMBDA a, b : \/ t.dept[a] > t.dept[b]
                          \/ t.dept[a] = t.dept[b] /\ t.sort[a] > t.sort[b])

\* The lists of the menus of the first level that are on the page.
TreeLists(t, roots) ==
    {ls \in [1 .. Len(roots) -> UNION {SelectMenuFunctionTreeById(t, r) : r \in ToSet(roots)}] :
        \A k \in 1 .. Len(roots) : ls[k] \in SelectMenuFunctionTreeById(t, roots[k])}

\* getMenuPageByType: those lists, one after the other. (All the menus of the
\* first level are on the page.)
MenuPageByType(t) ==
    UNION {{FlattenSeq(ls) : ls \in TreeLists(t, roots)} : roots \in SelectMenuFunctionOrderSort(t)}

\* getMenuFunctionUserAll: the menus that some role of the user is linked to;
\* dept asc, sort desc.
MenuFunctionUserAll(t, linked) ==
    Ordered(linked, LAMBDA a, b : \/ t.dept[a] < t.dept[b]
                                  \/ t.dept[a] = t.dept[b] /\ t.sort[a] > t.sort[b])

TreeInit ==
    /\ table \in Stored
    /\ \/ query = "page" /\ list \in MenuPageByType(table) \ {<<>>}
       \/ query = "user" /\ \E linked \in SUBSET MenuId \ {{}} :
                                 list \in MenuFunctionUserAll(table, linked)
    /\ i = 1
    /\ hashMap = ToSet(list)
    /\ childers = [m \in MenuId |-> <<>>]
    /\ tree = <<>>
    /\ pc = "attach"

-----------------------------------------------------------------------------
(* getMenuFunctionTree *)

Visited == list[i]

\* Mutant: an attached menu stays in the map.
AttachKeeps ==
    /\ pc = "attach" /\ i <= Len(list)
    /\ Visited \in hashMap
    /\ table.pid[Visited] \in hashMap
    /\ childers' = [childers EXCEPT ![table.pid[Visited]] = Append(@, Visited)]
    /\ i' = i + 1
    /\ UNCHANGED <<table, query, list, hashMap, tree, pc>>

\* The father is in the map.
Attach ==
    /\ pc = "attach" /\ i <= Len(list)
    /\ Visited \in hashMap
    /\ table.pid[Visited] \in hashMap
    /\ childers' = [childers EXCEPT ![table.pid[Visited]] = Append(@, Visited)]
    /\ hashMap' = hashMap \ {Visited}
    /\ i' = i + 1
    /\ UNCHANGED <<table, query, list, tree, pc>>

\* Mutant: the father is put into the map whether or not it was there.
LeavePutsFather ==
    /\ pc = "attach" /\ i <= Len(list)
    /\ Visited \in hashMap
    /\ table.pid[Visited] \notin hashMap
    /\ hashMap' = hashMap \union ({table.pid[Visited]} \ {Root})
    /\ i' = i + 1
    /\ UNCHANGED <<table, query, list, childers, tree, pc>>

\* It is not: the menu stays in the map.
Leave ==
    /\ pc = "attach" /\ i <= Len(list)
    /\ Visited \in hashMap
    /\ table.pid[Visited] \notin hashMap
    /\ i' = i + 1
    /\ UNCHANGED <<table, query, list, hashMap, childers, tree, pc>>

\* Mutant: what hashMap.get returns for the father is used unchecked.
FailOnMissingFather ==
    /\ pc = "attach" /\ i <= Len(list)
    /\ Visited \notin hashMap \/ table.pid[Visited] \notin hashMap
    /\ pc' = "failed"
    /\ UNCHANGED <<table, query, list, i, hashMap, childers, tree>>

\* The id was in the list before and has been attached: hashMap.get returns
\* null, and its getPid throws.
Fail ==
    /\ pc = "attach" /\ i <= Len(list)
    /\ Visited \notin hashMap
    /\ pc' = "failed"
    /\ UNCHANGED <<table, query, list, i, hashMap, childers, tree>>

\* SysMenuFunctionUser.compareTo: sort desc, id asc.
CompareTo(a, b) ==
    \/ table.sort[a] > table.sort[b]
    \/ table.sort[a] = table.sort[b] /\ a < b

\* The order of compareTo is total: there is one such sequence.
SortMenus(S) == CHOOSE s \in Ordered(S, CompareTo) : TRUE

\* The top level and the children of its menus are sorted, the levels below are
\* left in the order of the list.
Sort ==
    /\ pc = "attach" /\ i > Len(list)
    /\ tree' = SortMenus(hashMap)
    /\ childers' = [m \in MenuId |-> IF m \in hashMap THEN SortMenus(ToSet(childers[m]))
                                                    ELSE childers[m]]
    /\ pc' = "done"
    /\ UNCHANGED <<table, query, list, i, hashMap>>

TreeNext == Attach \/ Leave \/ Fail \/ Sort

TreeSpec == TreeInit /\ [][TreeNext]_treeVars

-----------------------------------------------------------------------------
(* Properties *)

Listed == ToSet(list)

\* Every menu of the list is shown exactly once, on the top level or among the
\* children of one menu, whatever the order of the list.
ShownOnce ==
    pc = "done" =>
        \A m \in Listed :
            Cardinality({k \in 1 .. Len(tree) : tree[k] = m})
              + Cardinality({fk \in Listed \X (1 .. Len(list)) :
                               /\ fk[2] <= Len(childers[fk[1]])
                               /\ childers[fk[1]][fk[2]] = m}) = 1

\* The tree is nested as the pids say: a menu is on the top level only if its
\* father is not in the list, and below its father otherwise.
Nested ==
    /\ ToSet(tree) = {m \in Listed : table.pid[m] \notin Listed}
    /\ \A f \in Listed : ToSet(childers[f]) = {m \in Listed : table.pid[m] = f}

\* The lists of getMenuPageByType give a nested tree of any depth, as long as no
\* menu with menus below it has been moved.
PageTreeIsNested == pc = "done" /\ query = "page" /\ table.current => Nested

\* Building the tree fails only on paths that an earlier move left stale (the
\* same menu is then listed under two menus of the first level).
FailsOnlyOnStalePaths == pc = "failed" => query = "page" /\ ~table.current

\* Siblings are in the order of their sort column on every level, although only
\* two levels are sorted by the code and the others rely on the query.
SiblingsInOrder ==
    pc = "done" /\ table.current =>
        \A s \in {tree} \union {childers[m] : m \in Listed} :
            \A j, k \in 1 .. Len(s) : j < k => table.sort[s[j]] >= table.sort[s[k]]

\* What the comment of getMenuFunctionTree says of every list ("traverses ...
\* from the lowest level upwards"), so also of that of getMenuFunctionUserAll.
UserTreeIsNested == pc = "done" /\ query = "user" => Nested
=============================================================================
