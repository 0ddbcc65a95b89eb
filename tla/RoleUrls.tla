------------------------------ MODULE RoleUrls ------------------------------
(***************************************************************************)
(* The authority tables as far as the URL filter chains depend on them,    *)
(* and the two queries of SysMenuElementMapper that read them.             *)
(*                                                                         *)
(* A snapshot of the tables is a record                                    *)
(*   roles  the live rows of sys_role,                                     *)
(*   menus  the live rows of sys_menu_function,                            *)
(*   links  the live rows of sys_role_menu_function, as <<role, menu>>,    *)
(*   rows   the pairs with any row there, live or logically deleted,       *)
(*   place  the menu of each live sys_menu_element (NoMenu: deleted or     *)
(*          not there yet).                                                *)
(* An Element is a row with its method: a row that gets another method is   *)
(* another Element. A URL is a number, its position in the order in which the grouped query *)
(* returns it; BlankUrl is an element whose method column is blank.        *)
(***************************************************************************)
EXTENDS Integers, FiniteSets

CONSTANTS Role, Menu, Element,  \* row identities
          Url,                  \* the method values of the elements
          UrlOf,                \* the method value of each element
          NoMenu,               \* the place of an element that is not live
          PageSize              \* rows in a page (50 in the code)

BlankUrl == 0

ASSUME UrlAssumption == Url \subseteq Nat /\ IsFiniteSet(Url)
ASSUME UrlOfAssumption == UrlOf \in [Element -> Url]
ASSUME NoMenuAssumption == NoMenu \notin Menu
ASSUME PageSizeAssumption == PageSize \in Nat \ {0}

Snapshot == [roles : SUBSET Role,
             menus : SUBSET Menu,
             links : SUBSET (Role \X Menu),
             rows : SUBSET (Role \X Menu),
             place : [Element -> Menu \union {NoMenu}]]

\* Some live element of a live menu that role r is linked to has method u.
Linked(d, r, u) ==
    \E e \in Element : /\ UrlOf[e] = u
                       /\ d.place[e] \in d.menus
                       /\ <<r, d.place[e]>> \in d.links

\* The urls of getMunuElementGroupMethodRole: the group of u is there as soon
\* as one link reaches it, whether or not the linked role is still live.
Rows(d) == {u \in Url : \E r \in Role : Linked(d, r, u)}

\* GROUP_CONCAT(DISTINCT r.id) of the group of u: live roles only, so it is
\* empty (NULL) when every linked role is deleted.
RolesOf(d, u) == {r \in d.roles : Linked(d, r, u)}

\* Mutant: the remainder is dropped.
GetSizeFloor(count, loop) == IF count <= loop THEN 1 ELSE count \div loop

\* DataUtils.getSize: the number of pages for count rows. Never 0.
GetSize(count, loop) ==
    IF count <= loop THEN 1
    ELSE IF count % loop = 0 THEN count \div loop
    ELSE count \div loop + 1

\* The 1-based position of row u in the query's order.
Rank(d, u) == Cardinality({v \in Rows(d) : v <= u})

\* new Page<>(i, 50): rows (i-1)*50+1 .. i*50 of the query.
PageRows(d, i) ==
    {u \in Rows(d) : (i - 1) * PageSize < Rank(d, u) /\ Rank(d, u) <= i * PageSize}

\* The urls of a set of rows that get a chain: isNotBlank(url).
NonBlank(us) == us \ {BlankUrl}
=============================================================================
