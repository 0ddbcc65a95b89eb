------------------------- MODULE FilterChainsProofs -------------------------
(***************************************************************************)
(* Machine-checked proofs about FilterChains, for any sets of roles,       *)
(* menus, elements, provider and listener threads, any page size and any   *)
(* initial tables; then, about FilterChainRequests, for any number of      *)
(* requests and callers that are resolved while the chains are rebuilt.    *)
(***************************************************************************)
EXTENDS FilterChainRequests, FiniteSetTheorems, TLAPS

USE DEF Thread

\* The rows of a page are urls, and so are those of the whole query.
LEMMA RowsAreUrls ==
    ASSUME NEW d, NEW i
    PROVE  Rows(d) \subseteq Url /\ NonBlank(PageRows(d, i)) \subseteq Url
BY DEF Rows, PageRows, NonBlank

\* A finite number of urls has a number of pages.
LEMMA RowCount ==
    ASSUME NEW d
    PROVE  /\ Cardinality(Rows(d)) \in Nat
           /\ GetSize(Cardinality(Rows(d)), PageSize) \in Int
<1>1. IsFiniteSet(Rows(d))
  BY UrlAssumption, FS_Subset, RowsAreUrls
<1>2. Cardinality(Rows(d)) \in Nat
  BY <1>1, FS_CardinalityType
<1>3. PageSize \in Nat /\ PageSize > 0
  BY PageSizeAssumption
<1>. QED  BY <1>2, <1>3 DEF GetSize

\* The history variable and the tables written by a step keep their types.
LEMMA InitTyped == Init => TypeOK
<1>. SUFFICES ASSUME Init PROVE TypeOK
  OBVIOUS
<1>1. db \in Snapshot /\ up \in BOOLEAN /\ queued \in Nat /\ ops \in Nat /\ latest \in Latest
  BY InitialDbAssumption DEF Init, Latest
<1>2. writer \in [Writer -> WriterState]
  BY DEF Init, WriterState, IdleWriter
<1>3. pc \in [Thread -> Phase] /\ scan \in [Thread -> [loop : Int, i : Int]]
  BY DEF Init, Phase
<1>4. /\ holder \in Thread \union {NoThread} /\ staged \in Table /\ live \in Table
      /\ applied \in [Url -> SUBSET Role]
  BY DEF Init, Table, EmptyTable
<1>. QED  BY <1>1, <1>2, <1>3, <1>4 DEF TypeOK

\* A step of the provider keeps every type.
LEMMA ProvideTyped ==
    ASSUME TypeOK, NEW w \in Writer, Provide(w)
    PROVE  TypeOK'
<1>1. CASE \E r \in Role, m \in Menu : \/ AddRoleMenufunction(w, r, m)
                                       \/ LogicalDeletedRoleMenufunctionById(w, r, m)
  <2>1. PICK r \in Role, m \in Menu : \/ AddRoleMenufunction(w, r, m)
                                      \/ LogicalDeletedRoleMenufunctionById(w, r, m)
    BY <1>1
  <2>2. db' \in Snapshot
    <3>1. [db EXCEPT !.links = @ \union {<<r, m>>}, !.rows = @ \union {<<r, m>>}] \in Snapshot
      <4>. DEFINE links == db.links \union {<<r, m>>}
                  rows == db.rows \union {<<r, m>>}
      <4>1. links \in SUBSET (Role \X Menu) /\ rows \in SUBSET (Role \X Menu)
        BY DEF TypeOK, Snapshot
      <4>. HIDE DEF links, rows
      <4>2. [db EXCEPT !.links = links, !.rows = rows] \in Snapshot
        BY <4>1 DEF TypeOK, Snapshot
      <4>. QED  BY <4>2 DEF links, rows
    <3>2. [db EXCEPT !.links = @ \ {<<r, m>>}] \in Snapshot /\ db \in Snapshot
      BY DEF TypeOK, Snapshot
    <3>. QED  BY <2>1, <3>1, <3>2 DEF AddRoleMenufunction, LogicalDeletedRoleMenufunctionById,
                                      CommitThenAnnounce
  <2>3. writer' \in [Writer -> WriterState]
    BY <2>1 DEF TypeOK, WriterState, AddRoleMenufunction,
                LogicalDeletedRoleMenufunctionById, CommitThenAnnounce
  <2>. QED
    BY <2>1, <2>2, <2>3 DEF TypeOK, Latest, AddRoleMenufunction,
       LogicalDeletedRoleMenufunctionById, CommitThenAnnounce, Count, rebuildVars
<1>2. CASE Announce(w) \/ AnnounceFails(w)
  <2>1. writer' \in [Writer -> WriterState]
    BY <1>2 DEF TypeOK, WriterState, Announce, AnnounceFails
  <2>. QED
    BY <1>2, <2>1 DEF TypeOK, Latest, Announce, AnnounceFails, Publish, rebuildVars
<1>3. CASE \E r \in Role, asked \in SUBSET Menu : SaveRoleMenuFunction(w, r, asked)
  <2>1. PICK r \in Role, asked \in SUBSET Menu : SaveRoleMenuFunction(w, r, asked)
    BY <1>3
  <2>2. writer' \in [Writer -> WriterState]
    BY <2>1 DEF TypeOK, WriterState, SaveRoleMenuFunction, LinkedMenus
  <2>. QED
    BY <2>1, <2>2 DEF TypeOK, SaveRoleMenuFunction, Count, rebuildVars
<1>4. CASE SavePublish(w)
  <2>1. writer' \in [Writer -> WriterState]
    BY <1>4 DEF TypeOK, WriterState, SavePublish, IdleWriter
  <2>. QED
    BY <1>4, <2>1 DEF TypeOK, Latest, SavePublish, Publish, rebuildVars
<1>5. CASE SaveRollback(w)
  <2>1. writer' \in [Writer -> WriterState]
    BY <1>5 DEF TypeOK, WriterState, SaveRollback
  <2>. QED
    BY <1>5, <2>1 DEF TypeOK, SaveRollback, rebuildVars
<1>6. CASE SaveCommit(w)
  <2>1. writer' \in [Writer -> WriterState]
    BY <1>6 DEF TypeOK, WriterState, SaveCommit
  <2>2. writer[w].role \in Role /\ writer[w].add \in SUBSET Menu
    BY <1>6 DEF TypeOK, WriterState, SaveCommit, IdleWriter
  <2>3. db' \in Snapshot
    BY <1>6, <2>2 DEF TypeOK, Snapshot, SaveCommit
  <2>. QED
    BY <1>6, <2>1, <2>3 DEF TypeOK, Latest, SaveCommit, rebuildVars
<1>. QED  BY <1>1, <1>2, <1>3, <1>4, <1>5, <1>6 DEF Provide

\* So does a change that is not announced.
LEMMA ChangeSilentlyTyped ==
    ASSUME TypeOK, ChangeSilently
    PROVE  TypeOK'
<1>1. ASSUME NEW d \in Snapshot, CommitSilently(d) PROVE TypeOK'
  BY <1>1 DEF TypeOK, CommitSilently, Count, Latest, rebuildVars
<1>2. CASE \E r \in Role : LogicallyDeleteRoleById(r)
  <2>1. PICK r \in Role : LogicallyDeleteRoleById(r)
    BY <1>2
  <2>2. [db EXCEPT !.roles = @ \ {r}, !.links = @ \ ({r} \X Menu)] \in Snapshot
    BY DEF TypeOK, Snapshot
  <2>. QED  BY <1>1, <2>1, <2>2 DEF LogicallyDeleteRoleById
<1>3. CASE \E sub \in SUBSET Menu : DeleteMenuFunctionById(sub)
  <2>1. PICK sub \in SUBSET Menu : DeleteMenuFunctionById(sub)
    BY <1>3
  <2>. DEFINE place == [e \in Element |-> IF db.place[e] \in sub THEN NoMenu ELSE db.place[e]]
              after == [db EXCEPT !.menus = @ \ sub, !.links = @ \ (Role \X sub), !.place = place]
  <2>2. place \in [Element -> Menu \union {NoMenu}]
    BY DEF TypeOK, Snapshot
  <2>3. after \in Snapshot
    BY <2>2 DEF TypeOK, Snapshot
  <2>4. CommitSilently(after)
    BY <2>1 DEF DeleteMenuFunctionById, TypeOK, Snapshot
  <2>. QED  BY <1>1, <2>3, <2>4
<1>4. CASE \E e \in Element : \/ DeleteMenuElementById(e)
                              \/ \E m \in Menu : \/ AddMenuElement(e, m)
                                                 \/ \E f \in Element : UpdateMenuElementById(e, f, m)
  <2>1. ASSUME NEW place \in [Element -> Menu \union {NoMenu}]
        PROVE  [db EXCEPT !.place = place] \in Snapshot
    BY DEF TypeOK, Snapshot
  <2>2. ASSUME NEW e \in Element, NEW m \in Menu \union {NoMenu}, CommitSilently([db EXCEPT !.place[e] = m])
        PROVE  TypeOK'
    <3>1. [db.place EXCEPT ![e] = m] \in [Element -> Menu \union {NoMenu}]
      BY DEF TypeOK, Snapshot
    <3>2. [db EXCEPT !.place[e] = m] = [db EXCEPT !.place = [db.place EXCEPT ![e] = m]]
      OBVIOUS
    <3>. QED  BY <1>1, <2>1, <2>2, <3>1, <3>2
  <2>3. ASSUME NEW e \in Element, NEW f \in Element, NEW m \in Menu, UpdateMenuElementById(e, f, m)
        PROVE  TypeOK'
    <3>1. [db.place EXCEPT ![e] = NoMenu, ![f] = m] \in [Element -> Menu \union {NoMenu}]
      BY DEF TypeOK, Snapshot
    <3>. QED  BY <1>1, <2>1, <2>3, <3>1 DEF UpdateMenuElementById
  <2>. QED  BY <1>4, <2>2, <2>3 DEF DeleteMenuElementById, AddMenuElement
<1>. QED  BY <1>2, <1>3, <1>4 DEF ChangeSilently

\* So does every step of initFilterChains.
LEMMA RebuildTyped ==
    ASSUME TypeOK, NEW t \in Thread, OnMessage(t) \/ Rebuild(t) \/ QueryFails(t)
    PROVE  TypeOK'
<1>. USE DEF Goto, Phase, dbVars
<1>1. CASE OnMessage(t)
  BY <1>1 DEF TypeOK, OnMessage
<1>2. CASE Enter(t)
  BY <1>2 DEF TypeOK, Enter
<1>3. CASE StageFixed(t)
  BY <1>3 DEF TypeOK, StageFixed, Table, EmptyTable
<1>4. CASE CountRows(t)
  BY <1>4, RowCount DEF TypeOK, CountRows, Table
<1>5. CASE ReadPage(t)
  <2>1. staged' \in Table
    BY <1>5, RowsAreUrls DEF TypeOK, ReadPage, Table
  <2>2. applied' \in [Url -> SUBSET Role]
    BY <1>5 DEF TypeOK, ReadPage, RolesOf, Snapshot
  <2>. QED  BY <1>5, <2>1, <2>2 DEF TypeOK, ReadPage
<1>6. CASE StageCatchAll(t)
  BY <1>6 DEF TypeOK, StageCatchAll, Table
<1>7. CASE ClearLive(t)
  BY <1>7 DEF TypeOK, ClearLive, Table, EmptyTable
<1>8. CASE PutFixed(t)
  BY <1>8 DEF TypeOK, PutFixed, Table
<1>9. CASE \E u \in Url : PutUrl(t, u)
  BY <1>9 DEF TypeOK, PutUrl, Table
<1>10. CASE PutCatchAll(t)
  BY <1>10 DEF TypeOK, PutCatchAll, Table
<1>11. CASE QueryFails(t)
  BY <1>11 DEF TypeOK, QueryFails, Count, Latest
<1>. QED
  BY <1>1, <1>2, <1>3, <1>4, <1>5, <1>6, <1>7, <1>8, <1>9, <1>10, <1>11 DEF Rebuild

\* Every step keeps every type.
LEMMA StepTyped == TypeOK /\ [Next]_vars => TypeOK'
<1>. SUFFICES ASSUME TypeOK, [Next]_vars PROVE TypeOK'
  OBVIOUS
<1>1. CASE \E w \in Writer : Provide(w)
  BY <1>1, ProvideTyped
<1>2. CASE ChangeSilently
  BY <1>2, ChangeSilentlyTyped
<1>3. CASE RefreshAuthority
  BY <1>3 DEF TypeOK, RefreshAuthority, Count, Publish, Latest, rebuildVars
<1>4. CASE \E t \in Thread : OnMessage(t) \/ Rebuild(t) \/ QueryFails(t)
  BY <1>4, RebuildTyped
<1>5. CASE Crash
  <2>1. pc' \in [Thread -> Phase] /\ scan' \in [Thread -> [loop : Int, i : Int]]
    BY <1>5 DEF Crash, Phase
  <2>2. staged' \in Table /\ live' \in Table /\ applied' \in [Url -> SUBSET Role]
    BY <1>5 DEF Crash, Table, EmptyTable
  <2>3. db' \in Snapshot /\ writer' \in [Writer -> WriterState] /\ latest' \in Latest
    BY <1>5 DEF TypeOK, Crash, dbVars
  <2>4. holder' \in Thread \union {NoThread} /\ queued' \in Nat /\ ops' \in Nat
    BY <1>5 DEF TypeOK, Crash, Count
  <2>5. up' \in BOOLEAN
    BY <1>5 DEF Crash
  <2>. QED  BY <2>1, <2>2, <2>3, <2>4, <2>5 DEF TypeOK
<1>6. CASE Start
  BY <1>6 DEF TypeOK, Start, dbVars, Phase, Latest, Goto
<1>7. CASE UNCHANGED vars
  BY <1>7 DEF TypeOK, vars
<1>. QED  BY <1>1, <1>2, <1>3, <1>4, <1>5, <1>6, <1>7 DEF Next

\* Every variable keeps its type.
THEOREM TypeCorrect == Spec => []TypeOK
BY InitTyped, StepTyped, PTL DEF Spec
-----------------------------------------------------------------------------
(* Mutual exclusion and the order in which entries arrive *)

SerialInv == MonitorHeld /\ StagingInv /\ DownIsIdle

LEMMA InitSerial == Init => SerialInv
BY ThreadAssumption DEF Init, SerialInv, MonitorHeld, StagingInv, DownIsIdle, Inside, Phase, EmptyTable

\* Only the owner's own steps move the tables, and it keeps StagingInv.
LEMMA RebuildSerial ==
    ASSUME TypeOK, SerialInv, NEW t \in Thread, OnMessage(t) \/ Rebuild(t) \/ QueryFails(t)
    PROVE  SerialInv'
<1>. USE DEF Goto, Phase, Inside
<1>1. MonitorHeld'
  <2>. USE ThreadAssumption DEF TypeOK, SerialInv, MonitorHeld
  <2>1. CASE OnMessage(t) \/ Enter(t) \/ StageFixed(t)
    BY <2>1 DEF OnMessage, Enter, StageFixed
  <2>2. CASE CountRows(t)
    BY <2>2 DEF CountRows
  <2>3. CASE ReadPage(t) \/ StageCatchAll(t) \/ ClearLive(t)
    BY <2>3 DEF ReadPage, StageCatchAll, ClearLive
  <2>4. CASE PutFixed(t) \/ (\E u \in Url : PutUrl(t, u))
    BY <2>4 DEF PutFixed, PutUrl
  <2>5. CASE PutCatchAll(t)
    BY <2>5 DEF PutCatchAll
  <2>6. CASE QueryFails(t)
    BY <2>6 DEF QueryFails
  <2>. QED  BY <2>1, <2>2, <2>3, <2>4, <2>5, <2>6 DEF Rebuild
<1>2. ASSUME NEW s \in Thread, pc[t] \in Inside, s # t PROVE pc[s] \in {"idle", "blocked"}
  BY <1>2 DEF TypeOK, SerialInv, MonitorHeld
<1>3. holder = NoThread => \A s \in Thread : pc[s] \in {"idle", "blocked"}
  BY ThreadAssumption DEF TypeOK, SerialInv, MonitorHeld
<1>4. StagingInv'
  <2>. USE DEF TypeOK, SerialInv, StagingInv, Table, EmptyTable
  <2>1. CASE OnMessage(t)
    BY <2>1 DEF OnMessage
  <2>2. CASE Enter(t)
    BY <2>2 DEF Enter
  <2>3. CASE StageFixed(t)
    BY <2>3, <1>2 DEF StageFixed
  <2>4. CASE CountRows(t)
    BY <2>4, <1>2 DEF CountRows
  <2>5. CASE ReadPage(t)
    BY <2>5, <1>2 DEF ReadPage
  <2>6. CASE StageCatchAll(t)
    BY <2>6, <1>2 DEF StageCatchAll
  <2>7. CASE ClearLive(t)
    BY <2>7, <1>2 DEF ClearLive
  <2>8. CASE PutFixed(t)
    BY <2>8, <1>2 DEF PutFixed
  <2>9. CASE \E u \in Url : PutUrl(t, u)
    BY <2>9, <1>2 DEF PutUrl
  <2>10. CASE PutCatchAll(t)
    BY <2>10, <1>2 DEF PutCatchAll
  <2>11. CASE QueryFails(t)
    BY <2>11, <1>2 DEF QueryFails
  <2>. QED
    BY <2>1, <2>2, <2>3, <2>4, <2>5, <2>6, <2>7, <2>8, <2>9, <2>10, <2>11 DEF Rebuild
<1>5. pc[t] # "idle" => up
  BY DEF SerialInv, DownIsIdle
<1>6. up' = up /\ up
  BY <1>5 DEF OnMessage, Rebuild, Enter, StageFixed, CountRows, ReadPage, StageCatchAll,
     ClearLive, PutFixed, PutUrl, PutCatchAll, QueryFails
<1>. QED  BY <1>1, <1>4, <1>6 DEF SerialInv, DownIsIdle

\* The provider never touches the node's memory, only its queue.
LEMMA ProviderFrame ==
    ASSUME (\E w \in Writer : Provide(w)) \/ ChangeSilently \/ RefreshAuthority
    PROVE  UNCHANGED <<rebuildVars, up>> /\ (~up => queued' = queued)
<1>1. ASSUME NEW w \in Writer, Provide(w)
      PROVE  UNCHANGED <<rebuildVars, up>> /\ (~up => queued' = queued)
  BY <1>1 DEF Provide, AddRoleMenufunction, LogicalDeletedRoleMenufunctionById,
     CommitThenAnnounce, Announce, AnnounceFails, SaveRoleMenuFunction, SavePublish,
     SaveRollback, SaveCommit, Publish
<1>2. ASSUME ChangeSilently
      PROVE  UNCHANGED <<rebuildVars, up>> /\ (~up => queued' = queued)
  BY <1>2 DEF ChangeSilently, LogicallyDeleteRoleById, DeleteMenuFunctionById,
     AddMenuElement, DeleteMenuElementById, UpdateMenuElementById, CommitSilently
<1>3. ASSUME RefreshAuthority
      PROVE  UNCHANGED <<rebuildVars, up>> /\ (~up => queued' = queued)
  BY <1>3 DEF RefreshAuthority, Publish
<1>. QED  BY <1>1, <1>2, <1>3

LEMMA StepSerial == TypeOK /\ SerialInv /\ [Next]_vars => SerialInv'
<1>. SUFFICES ASSUME TypeOK, SerialInv, [Next]_vars PROVE SerialInv'
  OBVIOUS
<1>1. CASE UNCHANGED <<rebuildVars, up>> /\ (~up => queued' = queued)
  BY <1>1 DEF rebuildVars, SerialInv, MonitorHeld, StagingInv, DownIsIdle
<1>2. CASE \E t \in Thread : OnMessage(t) \/ Rebuild(t) \/ QueryFails(t)
  BY <1>2, RebuildSerial
<1>3. CASE Crash
  BY <1>3, ThreadAssumption DEF Crash, SerialInv, MonitorHeld, StagingInv, DownIsIdle,
     Inside, Phase
<1>4. CASE Start
  <2>1. \A t \in Thread : pc[t] = "idle"
    BY <1>4 DEF Start, SerialInv, DownIsIdle
  <2>. QED
    BY <1>4, <2>1 DEF Start, Goto, TypeOK, SerialInv, MonitorHeld, StagingInv, DownIsIdle,
       Inside, Phase
<1>. QED
  BY <1>1, <1>2, <1>3, <1>4, ProviderFrame DEF Next, vars, rebuildVars

\* Only the owner of the monitor is inside initFilterChains.
THEOREM MutualExclusion == Spec => []MonitorHeld
<1>1. Init => TypeOK /\ SerialInv
  BY InitTyped, InitSerial
<1>2. (TypeOK /\ SerialInv) /\ [Next]_vars => (TypeOK /\ SerialInv)'
  BY StepTyped, StepSerial
<1>3. SerialInv => MonitorHeld
  BY DEF SerialInv
<1>. QED  BY <1>1, <1>2, <1>3, PTL DEF Spec

\* "/**" is the last entry to reach the live table.
THEOREM CatchAllArrivesLast == Spec => []CatchAllIsLast
<1>1. Init => TypeOK /\ SerialInv
  BY InitTyped, InitSerial
<1>2. (TypeOK /\ SerialInv) /\ [Next]_vars => (TypeOK /\ SerialInv)'
  BY StepTyped, StepSerial
<1>3. SerialInv => CatchAllIsLast
  BY DEF SerialInv, StagingInv, CatchAllIsLast
<1>. QED  BY <1>1, <1>2, <1>3, PTL DEF Spec

\* A rebuild that ends has installed exactly the table it staged.
THEOREM InstallsStaged == Spec => InstallsWhatItStaged
<1>. DEFINE Installs == \A t \in Thread : pc[t] = "put" /\ pc'[t] # "put" /\ up' =>
                          live' = staged /\ staged.fixed /\ staged.last # "none"
<1>1. Init => TypeOK /\ SerialInv
  BY InitTyped, InitSerial
<1>2. (TypeOK /\ SerialInv) /\ [Next]_vars => (TypeOK /\ SerialInv)'
  BY StepTyped, StepSerial
<1>3. TypeOK /\ SerialInv /\ [Next]_vars => [Installs]_vars
  <2>. SUFFICES ASSUME TypeOK, SerialInv, [Next]_vars,
                       NEW t \in Thread, pc[t] = "put", pc'[t] # "put", up'
                PROVE  live' = staged /\ staged.fixed /\ staged.last # "none"
    OBVIOUS
  <2>1. \E s \in Thread : OnMessage(s) \/ Rebuild(s) \/ QueryFails(s)
    <3>1. ~UNCHANGED <<rebuildVars, up>> /\ ~UNCHANGED vars
      BY DEF rebuildVars, vars
    <3>2. ~Crash /\ ~Start
      BY DEF Crash, Start, SerialInv, DownIsIdle
    <3>. QED  BY <3>1, <3>2, ProviderFrame DEF Next
  <2>2. PICK s \in Thread : OnMessage(s) \/ Rebuild(s) \/ QueryFails(s)
    BY <2>1
  <2>3. PutCatchAll(t)
    <3>1. s = t \/ pc'[t] = pc[t]
      BY <2>2 DEF TypeOK, OnMessage, Rebuild, Enter, StageFixed, CountRows, ReadPage,
         StageCatchAll, ClearLive, PutFixed, PutUrl, PutCatchAll, QueryFails, Goto
    <3>2. s = t
      BY <3>1
    <3>. QED
      BY <2>2, <3>2 DEF OnMessage, Rebuild, Enter, StageFixed, CountRows, ReadPage,
         StageCatchAll, ClearLive, PutFixed, PutUrl, QueryFails
  <2>4. staged.fixed /\ staged.last # "none" /\ live.urls \subseteq staged.urls
    BY DEF SerialInv, StagingInv
  <2>5. live.fixed = staged.fixed /\ live.urls = staged.urls
    <3>1. live.fixed /\ staged.urls \subseteq live.urls
      BY <2>3 DEF PutCatchAll
    <3>2. live.fixed \in BOOLEAN /\ staged.fixed \in BOOLEAN
      BY DEF TypeOK, Table
    <3>. QED  BY <2>4, <3>1, <3>2
  <2>6. live' = [live EXCEPT !.last = staged.last]
    BY <2>3 DEF PutCatchAll
  <2>7. live' = staged
    BY <2>5, <2>6 DEF TypeOK, Table
  <2>. QED  BY <2>4, <2>7
<1>. QED  BY <1>1, <1>2, <1>3, PTL DEF Spec, InstallsWhatItStaged

-----------------------------------------------------------------------------
(* Paging: the pages of a query, put together, are its rows *)

LEMMA RankBounds ==
    ASSUME NEW d, NEW u \in Rows(d)
    PROVE  Rank(d, u) \in 1 .. Cardinality(Rows(d))
<1>. DEFINE below == {v \in Rows(d) : v <= u}
<1>1. IsFiniteSet(Rows(d))
  BY UrlAssumption, FS_Subset, RowsAreUrls
<1>2. IsFiniteSet(below) /\ Cardinality(below) <= Cardinality(Rows(d))
  BY <1>1, FS_Subset
<1>3. u \in below
  <2>1. u \in Nat
    BY UrlAssumption DEF Rows
  <2>. QED  BY <2>1
<1>4. Cardinality(below) # 0
  BY <1>2, <1>3, FS_EmptySet
<1>5. Cardinality(below) \in Nat /\ Cardinality(Rows(d)) \in Nat
  BY <1>1, <1>2, FS_CardinalityType
<1>. QED  BY <1>2, <1>4, <1>5 DEF Rank

LEMMA NoPageBeforeTheFirst ==
    ASSUME NEW d
    PROVE  UrlsBefore(d, 1) = {}
<1>1. (1 - 1) * PageSize = 0
  BY PageSizeAssumption
<1>2. \A u \in Rows(d) : Rank(d, u) \in Int /\ Rank(d, u) > 0
  <2>. TAKE u \in Rows(d)
  <2>1. Cardinality(Rows(d)) \in Nat
    BY RowCount
  <2>. QED  BY <2>1, RankBounds
<1>. QED  BY <1>1, <1>2 DEF UrlsBefore, NonBlank

LEMMA NextPage ==
    ASSUME NEW d, NEW i \in Nat \ {0}
    PROVE  UrlsBefore(d, i) \union NonBlank(PageRows(d, i)) = UrlsBefore(d, i + 1)
<1>. DEFINE lo == (i - 1) * PageSize
            hi == i * PageSize
<1>1. lo \in Int /\ hi \in Int /\ lo <= hi
  BY PageSizeAssumption
<1>2. (i + 1) - 1 = i
  OBVIOUS
<1>3. \A u \in Rows(d) : Rank(d, u) \in Int
  BY RankBounds, RowCount
<1>. HIDE DEF lo, hi
<1>4. {u \in Rows(d) : Rank(d, u) <= lo} \union {u \in Rows(d) : lo < Rank(d, u) /\ Rank(d, u) <= hi}
        = {u \in Rows(d) : Rank(d, u) <= hi}
  BY <1>1, <1>3
<1>. QED  BY <1>2, <1>4 DEF UrlsBefore, PageRows, NonBlank, lo, hi

\* getSize gives enough pages for all rows, and at least one.
LEMMA EnoughPages ==
    ASSUME NEW count \in Nat, NEW loop \in Nat \ {0}
    PROVE  /\ GetSize(count, loop) \in Nat \ {0}
           /\ count <= GetSize(count, loop) * loop
<1>. DEFINE q == count \div loop
            r == count % loop
<1>1. q \in Nat /\ r \in Nat /\ r < loop /\ count = q * loop + r
  OBVIOUS
<1>2. CASE count <= loop
  BY <1>2 DEF GetSize
<1>3. CASE count > loop
  <2>1. q # 0
    BY <1>1, <1>3
  <2>2. (q + 1) * loop = q * loop + loop
    BY <1>1
  <2>. QED  BY <1>1, <1>3, <2>1, <2>2 DEF GetSize
<1>. QED  BY <1>2, <1>3

LEMMA AllPages ==
    ASSUME NEW d
    PROVE  UrlsBefore(d, GetSize(Cardinality(Rows(d)), PageSize) + 1) = NonBlank(Rows(d))
<1>. DEFINE n == Cardinality(Rows(d))
            pages == GetSize(n, PageSize)
<1>1. n \in Nat
  BY RowCount
<1>2. pages \in Nat /\ n <= pages * PageSize /\ pages * PageSize \in Nat
  BY <1>1, EnoughPages, PageSizeAssumption
<1>3. (pages + 1) - 1 = pages
  BY <1>2
<1>4. \A u \in Rows(d) : Rank(d, u) \in Int /\ Rank(d, u) <= n
  BY <1>1, RankBounds
<1>5. \A u \in Rows(d) : Rank(d, u) <= pages * PageSize
  BY <1>1, <1>2, <1>4
<1>. QED  BY <1>3, <1>5 DEF UrlsBefore

-----------------------------------------------------------------------------
(* Convergence *)

TrackedInv == TypeOK /\ SerialInv /\ TrackingInv

LEMMA InitTracked == Init => TrackingInv
BY DEF Init, TrackingInv, LastRebuild

\* No step outside the node's threads leaves the last rebuild under way, unless
\* it changes nothing that rebuild depends on.
LEMMA ProviderTracked ==
    ASSUME TrackedInv, LastRebuild',
           (\E w \in Writer : Provide(w)) \/ ChangeSilently \/ RefreshAuthority
    PROVE  db' = db /\ LastRebuild
<1>. USE DEF LastRebuild
<1>1. CASE \E w \in Writer : Provide(w)
  <2>1. PICK w \in Writer : Provide(w)
    BY <1>1
  <2>2. queued \in Nat
    BY DEF TrackedInv, TypeOK
  <2>3. CASE \E r \in Role, m \in Menu : \/ AddRoleMenufunction(w, r, m)
                                         \/ LogicalDeletedRoleMenufunctionById(w, r, m)
    BY <2>3 DEF AddRoleMenufunction, LogicalDeletedRoleMenufunctionById, CommitThenAnnounce
  <2>4. CASE Announce(w) \/ SavePublish(w)
    <3>1. up' /\ up' = up /\ queued' = 0
      BY <2>4 DEF Announce, SavePublish
    <3>2. queued' = IF up THEN queued + 1 ELSE queued
      BY <2>4 DEF Announce, SavePublish, Publish
    <3>. QED  BY <2>2, <3>1, <3>2
  <2>5. CASE AnnounceFails(w)
    <3>1. latest' = IF latest = "pending" THEN "lost" ELSE latest
      BY <2>5 DEF AnnounceFails
    <3>2. latest' = "announced"
      OBVIOUS
    <3>3. latest = "announced"
      BY <3>1, <3>2
    <3>. QED  BY <2>5, <3>3 DEF AnnounceFails, rebuildVars
  <2>6. CASE \E r \in Role, asked \in SUBSET Menu : SaveRoleMenuFunction(w, r, asked)
    BY <2>6 DEF SaveRoleMenuFunction, rebuildVars
  <2>7. CASE SaveRollback(w)
    BY <2>7 DEF SaveRollback, rebuildVars
  <2>8. CASE SaveCommit(w)
    BY <2>8 DEF SaveCommit
  <2>. QED  BY <2>1, <2>3, <2>4, <2>5, <2>6, <2>7, <2>8 DEF Provide
<1>2. CASE ChangeSilently
  BY <1>2 DEF ChangeSilently, LogicallyDeleteRoleById, DeleteMenuFunctionById,
     AddMenuElement, DeleteMenuElementById, UpdateMenuElementById, CommitSilently
<1>3. CASE RefreshAuthority
  <2>1. queued \in Nat
    BY DEF TrackedInv, TypeOK
  <2>. QED  BY <1>3, <2>1 DEF RefreshAuthority, Publish
<1>. QED  BY <1>1, <1>2, <1>3

\* A step of a thread either hands the rebuild on or keeps what it tracks.
LEMMA RebuildTracked ==
    ASSUME TrackedInv, TypeOK', LastRebuild', NEW t \in Thread,
           OnMessage(t) \/ Rebuild(t) \/ QueryFails(t)
    PROVE  TrackingInv'
<1>. USE DEF Goto, dbVars
<1>1. db' = db
  BY DEF OnMessage, Rebuild, Enter, StageFixed, CountRows, ReadPage, StageCatchAll,
     ClearLive, PutFixed, PutUrl, PutCatchAll, QueryFails
<1>2. ~OnMessage(t)
  BY DEF OnMessage, LastRebuild, TrackedInv, TypeOK
<1>3. ASSUME NEW s \in Thread, pc[t] \in Inside, s # t PROVE pc[s] \in {"idle", "blocked"}
  BY <1>3 DEF TrackedInv, TypeOK, SerialInv, MonitorHeld, Inside, Phase
<1>4. ASSUME NEW s \in Thread, pc[t] \in Inside, s # t PROVE pc'[s] = "idle"
  <2>1. pc'[s] = pc[s]
    BY <1>2, <1>4 DEF TrackedInv, TypeOK, Rebuild, Enter, StageFixed, CountRows, ReadPage,
       StageCatchAll, ClearLive, PutFixed, PutUrl, PutCatchAll, QueryFails
  <2>. QED  BY <1>3, <1>4, <2>1 DEF LastRebuild
<1>5. CASE Enter(t)
  <2>1. \A s \in Thread : pc[s] \in {"idle", "blocked"}
    BY <1>5, ThreadAssumption DEF Enter, TrackedInv, TypeOK, SerialInv, MonitorHeld, Inside, Phase
  <2>2. \A s \in Thread : pc'[s] \in {"idle", "blocked", "stage"}
    BY <1>5, <2>1 DEF Enter, TrackedInv, TypeOK
  <2>3. pc'[t] = "stage"
    BY <1>5 DEF Enter, TrackedInv, TypeOK
  <2>. QED  BY <2>2, <2>3 DEF TrackingInv
<1>6. CASE StageFixed(t)
  <2>1. pc'[t] = "count" /\ pc[t] \in Inside /\ staged' = [EmptyTable EXCEPT !.fixed = TRUE]
    BY <1>6 DEF StageFixed, TrackedInv, TypeOK, Inside, Phase
  <2>2. \A s \in Thread : pc'[s] \in {"idle", "count"}
    BY <1>4, <2>1
  <2>. QED  BY <2>1, <2>2 DEF TrackingInv
<1>7. ASSUME pc[t] \in Inside, pc[t] # "stage" PROVE LastRebuild
  <2>1. \A s \in Thread : pc[s] # "blocked"
    <3>. SUFFICES ASSUME NEW s \in Thread, pc[s] = "blocked" PROVE FALSE
      OBVIOUS
    <3>1. s # t
      BY <1>7 DEF Inside
    <3>2. pc'[s] = pc[s]
      BY <1>2, <3>1 DEF TrackedInv, TypeOK, Rebuild, Enter, StageFixed, CountRows, ReadPage,
         StageCatchAll, ClearLive, PutFixed, PutUrl, PutCatchAll, QueryFails
    <3>. QED  BY <3>2 DEF LastRebuild
  <2>2. up /\ queued = 0 /\ latest = "announced"
    BY <1>2 DEF LastRebuild, Latest, TrackedInv, TypeOK, Rebuild, Enter, StageFixed,
       CountRows, ReadPage, StageCatchAll, ClearLive, PutFixed, PutUrl, PutCatchAll, QueryFails,
       RebuildPending
  <2>. QED  BY <2>1, <2>2 DEF LastRebuild
<1>8. ~QueryFails(t)
  <2>1. ASSUME NEW s \in Thread \ {t}, QueryFails(t) PROVE pc'[s] = pc[s]
    BY <2>1 DEF QueryFails, TrackedInv, TypeOK
  <2>. SUFFICES ASSUME QueryFails(t) PROVE FALSE
    OBVIOUS
  <2>2. queued' = queued /\ latest' = IF RebuildPending(t) \/ latest # "announced" THEN latest ELSE "lost"
    BY DEF QueryFails
  <2>3. RebuildPending(t)
    BY <2>2 DEF LastRebuild
  <2>. QED  BY <2>1, <2>2, <2>3 DEF RebuildPending, LastRebuild
<1>9. CASE CountRows(t)
  <2>. DEFINE n == Cardinality(Rows(db))
  <2>1. pc[t] = "count" /\ pc[t] \in Inside
    BY <1>9 DEF CountRows, Inside, Phase
  <2>2. TrackingInv /\ LastRebuild /\ staged = [EmptyTable EXCEPT !.fixed = TRUE]
    BY <1>7, <2>1 DEF TrackedInv, TrackingInv
  <2>3. n \in Nat /\ IsFiniteSet(Rows(db))
    BY RowCount, RowsAreUrls, UrlAssumption, FS_Subset
  <2>4. (n = 0) <=> (Rows(db) = {})
    BY <2>3, FS_EmptySet
  <2>5. CASE n > 0
    <3>1. pc'[t] = "page" /\ scan'[t] = [loop |-> GetSize(n, PageSize), i |-> 1] /\ staged' = staged
      BY <1>9, <2>5 DEF CountRows, TrackedInv, TypeOK
    <3>2. GetSize(n, PageSize) \in Nat \ {0}
      BY <2>3, EnoughPages, PageSizeAssumption
    <3>3. staged' = [fixed |-> TRUE, urls |-> UrlsBefore(db, 1), last |-> "none"]
      BY <2>2, <3>1, NoPageBeforeTheFirst DEF EmptyTable
    <3>4. \A s \in Thread : pc'[s] \in {"idle", "page"} /\ (s # t => pc'[s] = "idle")
      BY <1>4, <2>1, <3>1
    <3>5. staged'.urls = {}
      BY <2>2, <3>1 DEF EmptyTable
    <3>6. Rows(db) # {}
      BY <2>4, <2>5
    <3>7. 1 \in 1 .. GetSize(n, PageSize) + 1
      BY <3>2
    <3>8. /\ Rows(db') # {}
          /\ scan'[t].loop = GetSize(Cardinality(Rows(db')), PageSize)
          /\ scan'[t].i \in 1 .. scan'[t].loop + 1
          /\ staged' = [fixed |-> TRUE, urls |-> UrlsBefore(db', scan'[t].i), last |-> "none"]
          /\ RolesApplied(staged.urls)'
      BY <1>1, <3>1, <3>3, <3>5, <3>6, <3>7 DEF RolesApplied
    <3>9. \A s \in Thread : pc'[s] = "idle" \/ (s = t /\ pc'[s] = "page")
      BY <3>1, <3>4
    <3>. QED  BY <3>1, <3>8, <3>9 DEF TrackingInv
  <2>6. CASE n = 0
    <3>1. pc'[t] = "clear" /\ staged' = [staged EXCEPT !.last = "authc"]
      BY <1>9, <2>6 DEF CountRows, TrackedInv, TypeOK
    <3>2. Rows(db) = {}
      BY <2>4, <2>6
    <3>3. staged' = Built(db) /\ staged'.urls = {}
      BY <2>2, <3>1, <3>2 DEF EmptyTable, Built, NonBlank
    <3>4. \A s \in Thread : pc'[s] \in {"idle", "clear"}
      BY <1>4, <2>1, <3>1
    <3>. QED
      BY <1>1, <3>1, <3>3, <3>4 DEF TrackingInv, RolesApplied
  <2>. QED  BY <2>3, <2>5, <2>6
<1>10. CASE ReadPage(t)
  <2>. DEFINE i == scan[t].i
              page == NonBlank(PageRows(db, i))
              n == Cardinality(Rows(db))
  <2>1. pc[t] = "page" /\ pc[t] \in Inside /\ pc' = pc
    BY <1>10 DEF ReadPage, Inside, Phase
  <2>2. /\ Rows(db) # {} /\ scan[t].loop = GetSize(n, PageSize) /\ i \in 1 .. scan[t].loop + 1
        /\ staged = [fixed |-> TRUE, urls |-> UrlsBefore(db, i), last |-> "none"]
        /\ RolesApplied(staged.urls)
    BY <1>7, <2>1 DEF TrackedInv, TrackingInv
  <2>3. i <= scan[t].loop /\ i \in Nat \ {0} /\ scan[t].loop \in Int
    BY <1>10, <2>2 DEF ReadPage, TrackedInv, TypeOK
  <2>4. scan'[t] = [loop |-> scan[t].loop, i |-> i + 1]
    BY <1>10 DEF ReadPage, TrackedInv, TypeOK
  <2>5. staged' = [staged EXCEPT !.urls = @ \union page]
    BY <1>10 DEF ReadPage
  <2>6. staged' = [fixed |-> TRUE, urls |-> UrlsBefore(db, i + 1), last |-> "none"]
    BY <2>2, <2>3, <2>5, NextPage
  <2>7. \A u \in Url : applied'[u] = IF u \in page THEN RolesOf(db, u) ELSE applied[u]
    BY <1>10 DEF ReadPage
  <2>8. \A u \in staged'.urls : u \in Url /\ applied'[u] = RolesOf(db, u)
    <3>. TAKE u \in staged'.urls
    <3>1. u \in page \/ u \in staged.urls
      BY <2>2, <2>5
    <3>2. u \in Url
      BY <3>1, RowsAreUrls DEF TrackedInv, TypeOK, Table
    <3>. QED  BY <2>2, <2>7, <3>1, <3>2 DEF RolesApplied
  <2>9. \A s \in Thread : s # t => pc'[s] = "idle"
    BY <1>4, <2>1
  <2>10. scan'[t].i \in 1 .. scan'[t].loop + 1
    BY <2>3, <2>4
  <2>11. /\ Rows(db') # {}
         /\ scan'[t].loop = GetSize(Cardinality(Rows(db')), PageSize)
         /\ staged' = [fixed |-> TRUE, urls |-> UrlsBefore(db', scan'[t].i), last |-> "none"]
         /\ RolesApplied(staged.urls)'
    BY <1>1, <2>2, <2>4, <2>6, <2>8 DEF RolesApplied
  <2>12. \A s \in Thread : pc'[s] = "idle" \/ (s = t /\ pc'[s] = "page")
    BY <2>1, <2>9
  <2>. QED  BY <2>1, <2>10, <2>11, <2>12 DEF TrackingInv
<1>11. CASE StageCatchAll(t)
  <2>. DEFINE n == Cardinality(Rows(db))
  <2>1. pc[t] = "page" /\ pc[t] \in Inside /\ pc'[t] = "clear"
    BY <1>11 DEF StageCatchAll, Inside, Phase, TrackedInv, TypeOK
  <2>2. /\ Rows(db) # {} /\ scan[t].loop = GetSize(n, PageSize)
        /\ scan[t].i \in 1 .. scan[t].loop + 1
        /\ staged = [fixed |-> TRUE, urls |-> UrlsBefore(db, scan[t].i), last |-> "none"]
        /\ RolesApplied(staged.urls)
    BY <1>7, <2>1 DEF TrackedInv, TrackingInv
  <2>3. scan[t].i = GetSize(n, PageSize) + 1
    <3>1. scan[t].i > scan[t].loop /\ scan[t].loop \in Int
      BY <1>11 DEF StageCatchAll, TrackedInv, TypeOK
    <3>. QED  BY <2>2, <3>1
  <2>4. UrlsBefore(db, scan[t].i) = NonBlank(Rows(db))
    BY <2>3, AllPages
  <2>5. staged' = Built(db) /\ staged'.urls = staged.urls
    BY <1>11, <2>2, <2>4 DEF StageCatchAll, Built
  <2>6. applied' = applied /\ \A s \in Thread : pc'[s] \in {"idle", "clear"}
    BY <1>4, <1>11, <2>1 DEF StageCatchAll
  <2>. QED
    BY <1>1, <2>1, <2>2, <2>5, <2>6 DEF TrackingInv, RolesApplied
<1>12. CASE ClearLive(t) \/ PutFixed(t) \/ (\E u \in Url : PutUrl(t, u))
  <2>1. pc[t] \in {"clear", "put"} /\ pc[t] \in Inside /\ pc'[t] = "put"
    BY <1>12 DEF ClearLive, PutFixed, PutUrl, Inside, Phase, TrackedInv, TypeOK
  <2>2. staged = Built(db) /\ RolesApplied(staged.urls)
    BY <1>7, <2>1 DEF TrackedInv, TrackingInv
  <2>3. staged' = staged /\ applied' = applied
    BY <1>12 DEF ClearLive, PutFixed, PutUrl
  <2>4. \A s \in Thread : pc'[s] \in {"idle", "put"}
    BY <1>4, <2>1
  <2>. QED  BY <1>1, <2>1, <2>2, <2>3, <2>4 DEF TrackingInv, RolesApplied
<1>13. CASE PutCatchAll(t)
  <2>1. pc[t] = "put" /\ pc[t] \in Inside /\ pc'[t] = "idle"
    BY <1>13 DEF PutCatchAll, Inside, Phase, TrackedInv, TypeOK
  <2>2. staged = Built(db) /\ RolesApplied(staged.urls)
    BY <1>7, <2>1 DEF TrackedInv, TrackingInv
  <2>3. live.urls \subseteq staged.urls
    BY <2>1 DEF TrackedInv, SerialInv, StagingInv
  <2>4. live' = [live EXCEPT !.last = staged.last] /\ live.fixed /\ staged.urls \subseteq live.urls
    BY <1>13 DEF PutCatchAll
  <2>5. live.fixed = TRUE
    BY <2>4 DEF TrackedInv, TypeOK, Table
  <2>6. live' = Built(db)
    BY <2>2, <2>3, <2>4, <2>5 DEF TrackedInv, TypeOK, Table, Built
  <2>7. applied' = applied /\ \A s \in Thread : pc'[s] = "idle"
    BY <1>4, <1>13, <2>1 DEF PutCatchAll
  <2>. QED  BY <1>1, <2>2, <2>6, <2>7 DEF TrackingInv, RolesApplied
<1>. QED
  BY <1>2, <1>5, <1>6, <1>8, <1>9, <1>10, <1>11, <1>12, <1>13 DEF Rebuild

LEMMA StepTracked == TrackedInv /\ [Next]_vars => TrackedInv'
<1>. SUFFICES ASSUME TrackedInv, [Next]_vars PROVE TrackedInv'
  OBVIOUS
<1>1. TypeOK' /\ SerialInv'
  BY StepTyped, StepSerial DEF TrackedInv
<1>2. TrackingInv'
  <2>. SUFFICES ASSUME LastRebuild' PROVE TrackingInv'
    BY DEF TrackingInv
  <2>1. CASE (\E w \in Writer : Provide(w)) \/ ChangeSilently \/ RefreshAuthority
    BY <2>1, ProviderTracked, ProviderFrame
       DEF TrackedInv, TrackingInv, RolesApplied, rebuildVars
  <2>2. CASE \E t \in Thread : OnMessage(t) \/ Rebuild(t) \/ QueryFails(t)
    BY <1>1, <2>2, RebuildTracked
  <2>3. CASE Crash
    BY <2>3 DEF Crash, LastRebuild
  <2>4. CASE Start
    BY <2>4 DEF Start, Goto, LastRebuild, TrackedInv, TypeOK
  <2>5. CASE UNCHANGED vars
    BY <2>5 DEF vars, TrackedInv, TrackingInv, LastRebuild, RolesApplied
  <2>. QED  BY <2>1, <2>2, <2>3, <2>4, <2>5 DEF Next
<1>. QED  BY <1>1, <1>2 DEF TrackedInv

\* Once the latest change has been announced and the node has nothing left to
\* do, its chains are exactly those of the committed tables.
THEOREM Convergence == Spec => []AnnouncedIsVisible
<1>1. Init => TrackedInv
  BY InitTyped, InitSerial, InitTracked DEF TrackedInv
<1>2. TrackedInv /\ [Next]_vars => TrackedInv'
  BY StepTracked
<1>3. TrackedInv => AnnouncedIsVisible
  <2>. SUFFICES ASSUME TrackedInv, Settled, latest = "announced" PROVE Fresh
    BY DEF AnnouncedIsVisible
  <2>1. LastRebuild
    BY DEF Settled, LastRebuild
  <2>. QED  BY <2>1 DEF TrackedInv, TrackingInv, Settled, Fresh
<1>. QED  BY <1>1, <1>2, <1>3, PTL DEF Spec

-----------------------------------------------------------------------------
(* Requests *)

\* Requests change nothing of the node: its theorems hold in their presence.
LEMMA RequestsRefineChains == RequestSpec => Spec
<1>1. RequestInit => Init
  BY DEF RequestInit
<1>2. [RequestNext]_reqVars => [Next]_vars
  <2>1. ASSUME NEW q \in Request, RequestStep(q) PROVE UNCHANGED vars
    BY <2>1 DEF RequestStep, Arrive, HasChains, Match, MatchFails, Lookup, Filter, Finish
  <2> QED
    BY <2>1 DEF RequestNext, reqVars
<1> QED
  BY <1>1, <1>2, PTL DEF RequestSpec, Spec

\* What is known of the node at all times.
NodeInv == TypeOK /\ SerialInv

LEMMA NodeAlways == RequestSpec => []NodeInv
<1>1. Init => NodeInv
  BY InitTyped, InitSerial DEF NodeInv
<1>2. NodeInv /\ [Next]_vars => NodeInv'
  BY StepTyped, StepSerial DEF NodeInv
<1> QED
  BY <1>1, <1>2, RequestsRefineChains, PTL DEF Spec

-----------------------------------------------------------------------------
(* Types *)

Callers == Caller \union {Anonymous}

\* A request comes for the url of an element that is not blank.
Typed == RequestTypeOK /\ \A q \in Request : req[q].pc # "free" => req[q].url \in NonBlank(Url)

\* What the type says at each stage of a request.
LEMMA Stages ==
    ASSUME Typed, NEW q \in Request
    PROVE  /\ req[q].pc \in {"free", "chains", "match", "lookup", "filter", "done"}
           /\ req[q].pc = "free" <=> req[q] = Free
           /\ req[q].pc \in {"chains", "match"} <=> req[q] \in InFlight({"chains", "match"}, {"none"})
           /\ req[q].pc = "lookup" <=> req[q] \in InFlight({"lookup"}, {"own", "catchall"})
           /\ req[q].pc = "filter" <=> req[q] \in InFlight({"filter"}, {"own", "basicFilter", "authc"})
           /\ req[q].pc = "done" <=> req[q] \in [pc : {"done"}, url : Url, caller : Callers,
                                                 answer : Answer, calm : BOOLEAN]
<1>1. req[q] \in ReqState
  BY DEF Typed, RequestTypeOK
<1>2. CASE req[q] \in [pc : {"free"}]
  BY <1>2 DEF InFlight, Free
<1>3. CASE req[q] \in InFlight({"chains", "match"}, {"none"})
  BY <1>3 DEF InFlight, Free
<1>4. CASE req[q] \in InFlight({"lookup"}, {"own", "catchall"})
  BY <1>4 DEF InFlight, Free
<1>5. CASE req[q] \in InFlight({"filter"}, {"own", "basicFilter", "authc"})
  BY <1>5 DEF InFlight, Free
<1>6. CASE req[q] \in [pc : {"done"}, url : Url, caller : Callers, answer : Answer, calm : BOOLEAN]
  BY <1>6 DEF InFlight, Free
<1> QED
  BY <1>1, <1>2, <1>3, <1>4, <1>5, <1>6 DEF ReqState, Callers

\* What a step of a request makes of it.
LEMMA OneRequestMoves ==
    ASSUME NodeInv, Typed, NEW q \in Request, RequestStep(q)
    PROVE  /\ \A p \in Request \ {q} : req'[p] = req[p]
           /\ UNCHANGED vars
           /\ DOMAIN req' = Request /\ req' = [p \in Request |-> req'[p]]
           /\ req'[q] \in ReqState
           /\ req'[q].pc # "free" => /\ req'[q].url \in NonBlank(Url)
                                     /\ req[q].pc # "free" => /\ req'[q].url = req[q].url
                                                              /\ req'[q].caller = req[q].caller
                                                              /\ req'[q].calm = req[q].calm
<1> DEFINE r == req[q]
<1>0. req \in [Request -> ReqState]
  BY DEF Typed, RequestTypeOK
<1>1. ASSUME NEW a \in Answer, Answered(q, a), r.pc \notin {"free", "done"}
      PROVE  /\ req'[q] \in ReqState /\ req'[q].url = r.url /\ req'[q].caller = r.caller
             /\ req'[q].calm = r.calm /\ req' = [p \in Request |-> req'[p]]
             /\ \A p \in Request \ {q} : req'[p] = req[p]
  <2>1. r.url \in Url /\ r.caller \in Callers /\ r.calm \in BOOLEAN
    BY <1>1, Stages DEF InFlight, Callers
  <2>2. req'[q] = [pc |-> "done", url |-> r.url, caller |-> r.caller, answer |-> a, calm |-> r.calm]
    BY <1>0, <1>1 DEF Answered
  <2>3. req'[q] \in ReqState
    BY <2>1, <2>2 DEF ReqState, Callers
  <2> QED
    BY <1>0, <1>1, <2>2, <2>3 DEF Answered
<1>2. ASSUME NEW p0, NEW c0, Advance(q, p0, c0), r.pc \in {"chains", "match", "lookup"},
             \/ p0 = "match" /\ c0 = "none"
             \/ p0 = "lookup" /\ c0 \in {"own", "catchall"}
             \/ p0 = "filter" /\ c0 \in {"own", "basicFilter", "authc"}
      PROVE  /\ req'[q] \in ReqState /\ req'[q].url = r.url /\ req'[q].caller = r.caller
             /\ req'[q].calm = r.calm /\ req' = [p \in Request |-> req'[p]]
             /\ \A p \in Request \ {q} : req'[p] = req[p]
  <2>1. /\ r = [pc |-> r.pc, url |-> r.url, caller |-> r.caller, calm |-> r.calm, chain |-> r.chain]
        /\ r.url \in Url /\ r.caller \in Callers /\ r.calm \in BOOLEAN
    BY <1>2, Stages DEF InFlight, Callers
  <2>2. req'[q] = [r EXCEPT !.pc = p0, !.chain = c0]
    BY <1>0, <1>2 DEF Advance
  <2>3. req'[q] = [pc |-> p0, url |-> r.url, caller |-> r.caller, calm |-> r.calm, chain |-> c0]
    BY <2>1, <2>2
  <2>4. req'[q] \in ReqState
    BY <1>2, <2>1, <2>3 DEF ReqState, InFlight, Callers
  <2>5. req' = [p \in Request |-> req'[p]] /\ \A p \in Request \ {q} : req'[p] = req[p]
    BY <1>0, <1>2 DEF Advance
  <2> QED
    BY <2>3, <2>4, <2>5
<1>3. CASE \E u \in NonBlank(Url), c \in Callers : Arrive(q, u, c)
  <2>1. PICK u \in NonBlank(Url), c \in Callers : Arrive(q, u, c)
    BY <1>3
  <2>2. (Fresh /\ holder = NoThread) \in BOOLEAN
    OBVIOUS
  <2>3. PICK b \in BOOLEAN : /\ req' = [req EXCEPT ![q] = [pc |-> "chains", url |-> u, caller |-> c,
                                                           chain |-> "none", calm |-> b]]
                             /\ UNCHANGED vars /\ r.pc = "free"
    BY <2>1, <2>2, Zenon DEF Arrive
  <2>4. req'[q] = [pc |-> "chains", url |-> u, caller |-> c, chain |-> "none", calm |-> b]
    BY <1>0, <2>3
  <2>5. req'[q] \in ReqState /\ req'[q].url \in NonBlank(Url)
    BY <2>4 DEF ReqState, InFlight, NonBlank, Callers
  <2> QED
    BY <1>0, <2>3, <2>5
<1>4. r.pc # "free" => r.url \in NonBlank(Url)
  BY DEF Typed
<1>5. CASE HasChains(q) \/ Match(q) \/ MatchFails(q) \/ Filter(q)
  <2>1. r.pc \in {"chains", "match", "filter"} /\ UNCHANGED vars
    BY <1>5 DEF HasChains, Match, MatchFails, Filter
  <2>2. \/ \E a \in Answer : Answered(q, a)
        \/ r.pc = "chains" /\ Advance(q, "match", "none")
        \/ r.pc = "match" /\ \E c \in {"own", "catchall"} : Advance(q, "lookup", c)
    BY <1>5 DEF HasChains, Match, MatchFails, Filter, Answer
  <2> QED
    BY <1>1, <1>2, <1>4, <2>1, <2>2
<1>6. CASE Lookup(q)
  <2>1. r.pc = "lookup" /\ UNCHANGED vars
    BY <1>6 DEF Lookup
  <2>2. \/ \E a \in Answer : Answered(q, a)
        \/ \E c \in {"own", "basicFilter", "authc"} : Advance(q, "filter", c)
    BY <1>6 DEF Lookup, Answer, NodeInv, TypeOK, Table
  <2> QED
    BY <1>1, <1>2, <1>4, <2>1, <2>2
<1>7. CASE Finish(q)
  BY <1>0, <1>7 DEF Finish, Free, ReqState
<1> QED
  BY <1>3, <1>5, <1>6, <1>7 DEF RequestStep, Callers

\* What a step of the node leaves of a request: nothing if the node goes down,
\* else everything but its calm.
LEMMA NodeStepKeepsRequests ==
    ASSUME Typed, Disturb, NEW q \in Request
    PROVE  /\ req' = [p \in Request |-> req'[p]]
           /\ req'[q] \in ReqState
           /\ req'[q].pc # "free" =>
                /\ up' /\ req'[q].pc = req[q].pc
                /\ req'[q].url = req[q].url /\ req'[q].caller = req[q].caller
                /\ req'[q].calm => req[q].calm /\ holder' = NoThread /\ db' = db
                /\ req[q].pc \in {"chains", "match", "lookup", "filter"} =>
                     req'[q].chain = req[q].chain
                /\ req[q].pc = "done" => req'[q].answer = req[q].answer
<1> DEFINE r == req[q]
<1>1. PICK b : b \in BOOLEAN /\ b = (holder' = NoThread /\ db' = db)
  <2>1. (holder' = NoThread /\ db' = db) \in BOOLEAN
    OBVIOUS
  <2> QED
    BY <2>1, Zenon
<1>2. req' = [p \in Request |-> req'[p]]
  BY DEF Disturb
<1>3. req'[q] = IF ~up' \/ r.pc = "free" THEN Free
                ELSE [r EXCEPT !.calm = @ /\ holder' = NoThread /\ db' = db]
  BY DEF Disturb
<1>4. CASE ~up' \/ r.pc = "free"
  <2>1. req'[q] = Free
    BY <1>3, <1>4, Zenon
  <2> QED
    BY <1>2, <2>1 DEF Free, ReqState
<1>5. CASE up' /\ r.pc # "free"
  <2>1. req'[q] = [r EXCEPT !.calm = @ /\ holder' = NoThread /\ db' = db]
    BY <1>3, <1>5, Zenon
  <2>2. r.calm \in BOOLEAN
    BY <1>5, Stages DEF InFlight
  <2>3. PICK c \in BOOLEAN : c = (r.calm /\ holder' = NoThread /\ db' = db)
    <3>1. (r.calm /\ holder' = NoThread /\ db' = db) \in BOOLEAN
      BY <2>2
    <3> QED
      BY <3>1, Zenon
  <2>4. req'[q] = [r EXCEPT !.calm = c]
    BY <2>1, <2>3, Zenon
  <2>5. c => r.calm /\ holder' = NoThread /\ db' = db
    BY <2>3
  <2>6. CASE r.pc \in {"chains", "match"}
    <3>1. r \in InFlight({"chains", "match"}, {"none"})
      BY <2>6, Stages
    <3>2. req'[q] \in InFlight({"chains", "match"}, {"none"})
      BY <2>4, <3>1 DEF InFlight
    <3> QED
      BY <1>2, <1>5, <2>4, <2>5, <2>6, <3>1, <3>2 DEF InFlight, ReqState
  <2>7. CASE r.pc = "lookup"
    <3>1. r \in InFlight({"lookup"}, {"own", "catchall"})
      BY <2>7, Stages
    <3>2. req'[q] \in InFlight({"lookup"}, {"own", "catchall"})
      BY <2>4, <3>1 DEF InFlight
    <3> QED
      BY <1>2, <1>5, <2>4, <2>5, <2>7, <3>1, <3>2 DEF InFlight, ReqState
  <2>8. CASE r.pc = "filter"
    <3>1. r \in InFlight({"filter"}, {"own", "basicFilter", "authc"})
      BY <2>8, Stages
    <3>2. req'[q] \in InFlight({"filter"}, {"own", "basicFilter", "authc"})
      BY <2>4, <3>1 DEF InFlight
    <3> QED
      BY <1>2, <1>5, <2>4, <2>5, <2>8, <3>1, <3>2 DEF InFlight, ReqState
  <2>9. CASE r.pc = "done"
    <3> DEFINE Over == [pc : {"done"}, url : Url, caller : Callers, answer : Answer, calm : BOOLEAN]
    <3>1. r \in Over
      BY <2>9, Stages
    <3>2. req'[q] \in Over
      BY <2>4, <3>1
    <3> QED
      BY <1>2, <1>5, <2>4, <2>5, <2>9, <3>1, <3>2 DEF ReqState, Callers
  <2> QED
    BY <1>5, <2>6, <2>7, <2>8, <2>9, Stages
<1> QED
  BY <1>4, <1>5

LEMMA StepRequestTyped ==
    ASSUME NodeInv, Typed, [RequestNext]_reqVars
    PROVE  Typed'
<1> USE DEF Typed
<1>1. ASSUME NEW d PROVE PermittedBy(d) \subseteq Url \X Callers
  BY DEF PermittedBy, NonBlank, Callers
<1>2. CASE Next /\ Disturb /\ granted' = granted \union PermittedBy(db')
  <2>1. req' \in [Request -> ReqState]
    BY <1>2, NodeStepKeepsRequests DEF Disturb
  <2>2. \A q \in Request : req'[q].pc # "free" => req'[q].url \in NonBlank(Url)
    BY <1>2, NodeStepKeepsRequests
  <2> QED
    BY <1>1, <1>2, <2>1, <2>2 DEF RequestTypeOK, Callers
<1>3. ASSUME NEW q \in Request, RequestStep(q), UNCHANGED granted
      PROVE  Typed'
  <2>1. req' \in [Request -> ReqState]
    BY <1>3, OneRequestMoves DEF RequestTypeOK
  <2>2. \A p \in Request : req'[p].pc # "free" => req'[p].url \in NonBlank(Url)
    BY <1>3, OneRequestMoves
  <2> QED
    BY <1>3, <2>1, <2>2 DEF RequestTypeOK
<1>4. CASE UNCHANGED reqVars
  BY <1>4 DEF reqVars, RequestTypeOK
<1> QED
  BY <1>2, <1>3, <1>4 DEF RequestNext

LEMMA InitRequestTyped == RequestInit => Typed
BY DEF RequestInit, Typed, RequestTypeOK, ReqState, Free, PermittedBy, NonBlank

\* Every request, wherever it is in the resolver and the filter and whatever
\* runs beside it, holds a chain or an answer that its stage can have; what was
\* granted is a set of permissions.
THEOREM RequestTypesAlways == RequestSpec => []RequestTypeOK
<1>1. NodeInv /\ NodeInv' /\ Typed /\ [RequestNext]_reqVars => Typed'
  BY StepRequestTyped
<1>2. Typed => RequestTypeOK
  BY DEF Typed
<1> QED
  BY <1>1, <1>2, InitRequestTyped, NodeAlways, PTL DEF RequestSpec

-----------------------------------------------------------------------------
(* A request that nothing overlaps *)

\* What the resolver has found for such a request is what it would find now.
CalmInv ==
    \A q \in Request : req[q].pc # "free" /\ req[q].calm =>
      /\ req[q].pc # "done" => holder = NoThread /\ Fresh
      /\ req[q].pc = "lookup" => req[q].chain = IF req[q].url \in live.urls THEN "own" ELSE "catchall"
      /\ req[q].pc = "filter" => req[q].chain = IF req[q].url \in live.urls THEN "own" ELSE live.last

\* While nobody has the monitor, nobody moves the live table or the roles.
LEMMA NobodyMovesTheTables ==
    ASSUME NodeInv, Next, up', holder = NoThread, holder' = NoThread
    PROVE  live' = live /\ applied' = applied
<1>1. \A t \in Thread : pc[t] \notin Inside
  BY ThreadAssumption DEF NodeInv, SerialInv, MonitorHeld
<1>2. ASSUME NEW t \in Thread, OnMessage(t) \/ Rebuild(t) \/ QueryFails(t)
      PROVE  live' = live /\ applied' = applied
  BY <1>1, <1>2, ThreadAssumption DEF Inside, Phase, OnMessage, Rebuild, Enter, StageFixed, CountRows,
     ReadPage, StageCatchAll, ClearLive, PutFixed, PutUrl, PutCatchAll, QueryFails
<1>3. CASE (\E w \in Writer : Provide(w)) \/ ChangeSilently \/ RefreshAuthority
  BY <1>3, ProviderFrame DEF rebuildVars
<1>4. CASE Crash
  BY <1>4 DEF Crash
<1>5. CASE Start
  BY <1>5 DEF Start
<1> QED
  BY <1>2, <1>3, <1>4, <1>5 DEF Next

\* The live table of the tables d, as the resolver and the filter see it.
LEMMA BuiltDecides ==
    ASSUME Typed, NEW q \in Request, Fresh, req[q].pc = "filter",
           req[q].chain = IF req[q].url \in live.urls THEN "own" ELSE live.last
    PROVE  Allowed(q) <=> Permitted(db, req[q].url, req[q].caller)
<1> DEFINE u == req[q].url
           c == req[q].caller
<1>1. u \in NonBlank(Url)
  BY DEF Typed
<1>2. /\ live.urls = NonBlank(Rows(db))
      /\ live.last = IF Rows(db) = {} THEN "authc" ELSE "basicFilter"
      /\ RolesApplied(live.urls)
  BY DEF Fresh, Built
<1>3. CASE Rows(db) = {}
  <2>1. req[q].chain = "authc"
    BY <1>2, <1>3 DEF NonBlank
  <2> QED
    BY <1>3, <2>1 DEF Allowed, Permitted
<1>4. CASE Rows(db) # {} /\ u \in Rows(db)
  <2>1. u \in live.urls
    BY <1>1, <1>2, <1>4 DEF NonBlank
  <2>2. req[q].chain = "own" /\ applied[u] = RolesOf(db, u)
    BY <1>2, <2>1 DEF RolesApplied
  <2> QED
    BY <1>4, <2>2 DEF Allowed, Permitted
<1>5. CASE Rows(db) # {} /\ u \notin Rows(db)
  <2>1. req[q].chain = "basicFilter"
    BY <1>2, <1>5 DEF NonBlank
  <2> QED
    BY <1>5, <2>1 DEF Allowed, Permitted
<1> QED
  BY <1>3, <1>4, <1>5

CalmAnswers == CalmInv /\ CalmRequestIsDecidedByTheTables

\* A step of the resolver or the filter for request q: while it is calm, none of
\* the three reads meets an empty table or a missing chain.
LEMMA RequestStepCalm ==
    ASSUME NodeInv, Typed, CalmAnswers, NEW q \in Request, RequestStep(q)
    PROVE  CalmAnswers'
<1> DEFINE r == req[q]
<1>0. req \in [Request -> ReqState]
  BY DEF Typed, RequestTypeOK
<1>1. /\ \A p \in Request \ {q} : req'[p] = req[p]
      /\ UNCHANGED vars
      /\ r.pc # "free" => /\ req'[q].pc # "free" => req'[q].url = r.url /\ req'[q].caller = r.caller
                                                    /\ req'[q].calm = r.calm
  BY OneRequestMoves
<1>2. /\ holder' = holder /\ live' = live /\ applied' = applied /\ db' = db
      /\ (Fresh <=> Fresh')
  BY <1>1 DEF vars, Fresh, Built, RolesApplied
<1>3. SUFFICES ASSUME req'[q].pc # "free", req'[q].calm
               PROVE  /\ req'[q].pc # "done" => holder = NoThread /\ Fresh
                      /\ req'[q].pc = "lookup" =>
                           req'[q].chain = IF req'[q].url \in live.urls THEN "own" ELSE "catchall"
                      /\ req'[q].pc = "filter" =>
                           req'[q].chain = IF req'[q].url \in live.urls THEN "own" ELSE live.last
                      /\ req'[q].pc = "done" =>
                           req'[q].answer = IF Permitted(db, req'[q].url, req'[q].caller)
                                            THEN "served" ELSE "refused"
  BY <1>1, <1>2 DEF CalmAnswers, CalmInv, CalmRequestIsDecidedByTheTables
<1>4. ASSUME NEW u, NEW c, Arrive(q, u, c)
      PROVE  req'[q].pc = "chains" /\ (req'[q].calm <=> Fresh /\ holder = NoThread)
  BY <1>0, <1>4 DEF Arrive
<1>5. r.pc # "free" => r.calm /\ req'[q].url = r.url /\ req'[q].caller = r.caller
  BY <1>1, <1>3
<1>6. /\ r.pc \notin {"free", "done"} => holder = NoThread /\ Fresh
      /\ r.pc = "lookup" => r.chain = IF r.url \in live.urls THEN "own" ELSE "catchall"
      /\ r.pc = "filter" => r.chain = IF r.url \in live.urls THEN "own" ELSE live.last
  BY <1>5 DEF CalmAnswers, CalmInv
<1>7. Fresh => live # EmptyTable /\ live.last # "none"
  BY DEF Fresh, Built, EmptyTable
<1>8. CASE HasChains(q)
  <2>1. r.pc = "chains" /\ live # EmptyTable
    BY <1>6, <1>7, <1>8 DEF HasChains
  <2>2. Advance(q, "match", "none")
    BY <1>8, <2>1 DEF HasChains
  <2>3. req'[q].pc = "match"
    BY <1>0, <2>1, <2>2, Stages DEF Advance, InFlight
  <2> QED
    BY <1>6, <2>1, <2>3
<1>9. CASE Match(q)
  <2>1. r.pc = "match"
    BY <1>9 DEF Match
  <2>2. req'[q].pc = "lookup" /\ req'[q].chain = IF r.url \in live.urls THEN "own" ELSE "catchall"
    BY <1>0, <1>9, <2>1, Stages DEF Match, Advance, InFlight
  <2> QED
    BY <1>5, <1>6, <2>1, <2>2
<1>10. CASE MatchFails(q)
  BY <1>5, <1>10 DEF MatchFails
<1>11. CASE Lookup(q)
  <2>1. r.pc = "lookup" /\ Fresh
    BY <1>6, <1>11 DEF Lookup
  <2>2. Advance(q, "filter", IF r.url \in live.urls THEN "own" ELSE live.last)
    BY <1>6, <1>7, <1>11, <2>1 DEF Lookup
  <2>3. /\ req'[q].pc = "filter"
        /\ req'[q].chain = IF r.url \in live.urls THEN "own" ELSE live.last
    BY <1>0, <2>1, <2>2, Stages DEF Advance, InFlight
  <2> QED
    BY <1>5, <1>6, <2>1, <2>3
<1>12. CASE Filter(q)
  <2>1. r.pc = "filter"
    BY <1>12 DEF Filter
  <2>2. Allowed(q) <=> Permitted(db, r.url, r.caller)
    BY <1>6, <2>1, BuiltDecides
  <2>3. req'[q].pc = "done" /\ req'[q].answer = IF Allowed(q) THEN "served" ELSE "refused"
    BY <1>0, <1>12 DEF Filter, Answered
  <2> QED
    BY <1>5, <2>1, <2>2, <2>3
<1>13. CASE Finish(q)
  <2>1. req'[q] = Free
    BY <1>0, <1>13 DEF Finish
  <2> QED
    BY <1>3, <2>1 DEF Free
<1> QED
  BY <1>3, <1>4, <1>8, <1>9, <1>10, <1>11, <1>12, <1>13 DEF RequestStep

LEMMA NodeStepCalm ==
    ASSUME NodeInv, Typed, CalmAnswers, Next, Disturb
    PROVE  CalmAnswers'
<1> SUFFICES ASSUME NEW q \in Request, req'[q].pc # "free", req'[q].calm
             PROVE  /\ req'[q].pc # "done" => holder' = NoThread /\ Fresh'
                    /\ req'[q].pc = "lookup" =>
                         req'[q].chain = IF req'[q].url \in live'.urls THEN "own" ELSE "catchall"
                    /\ req'[q].pc = "filter" =>
                         req'[q].chain = IF req'[q].url \in live'.urls THEN "own" ELSE live'.last
                    /\ req'[q].pc = "done" =>
                         req'[q].answer = IF Permitted(db', req'[q].url, req'[q].caller)
                                          THEN "served" ELSE "refused"
  BY DEF CalmAnswers, CalmInv, CalmRequestIsDecidedByTheTables
<1>1. /\ up' /\ req'[q].pc = req[q].pc /\ req'[q].url = req[q].url /\ req'[q].caller = req[q].caller
      /\ req[q].calm /\ holder' = NoThread /\ db' = db
      /\ req[q].pc \in {"lookup", "filter"} => req'[q].chain = req[q].chain
      /\ req[q].pc = "done" => req'[q].answer = req[q].answer
  BY NodeStepKeepsRequests
<1>2. CASE req[q].pc = "done"
  BY <1>1, <1>2 DEF CalmAnswers, CalmRequestIsDecidedByTheTables
<1>3. CASE req[q].pc # "done"
  <2>1. holder = NoThread /\ Fresh
    BY <1>1, <1>3 DEF CalmAnswers, CalmInv
  <2>2. live' = live /\ applied' = applied
    BY <1>1, <2>1, NobodyMovesTheTables
  <2>3. Fresh'
    BY <1>1, <2>1, <2>2 DEF Fresh, Built, RolesApplied
  <2> QED
    BY <1>1, <1>3, <2>2, <2>3 DEF CalmAnswers, CalmInv
<1> QED
  BY <1>2, <1>3

LEMMA StepCalm ==
    ASSUME NodeInv, Typed, CalmAnswers, [RequestNext]_reqVars
    PROVE  CalmAnswers'
<1>1. CASE UNCHANGED reqVars
  BY <1>1 DEF reqVars, vars, CalmAnswers, CalmInv, CalmRequestIsDecidedByTheTables, Fresh, Built,
     RolesApplied
<1> QED
  BY <1>1, RequestStepCalm, NodeStepCalm DEF RequestNext

LEMMA InitCalm == RequestInit => CalmAnswers
BY DEF RequestInit, CalmAnswers, CalmInv, CalmRequestIsDecidedByTheTables, Free

\* A request that no rebuild and no change overlaps is answered as the committed
\* tables say, however many other requests are resolved beside it: resolver and
\* filter need the monitor for none of their three reads.
THEOREM CalmRequestsAreDecided == RequestSpec => []CalmRequestIsDecidedByTheTables
<1>1. NodeInv /\ Typed /\ CalmAnswers /\ [RequestNext]_reqVars => CalmAnswers'
  BY StepCalm
<1>2. NodeInv /\ Typed /\ [RequestNext]_reqVars => Typed'
  BY StepRequestTyped
<1>3. CalmAnswers => CalmRequestIsDecidedByTheTables
  BY DEF CalmAnswers
<1> QED
  BY <1>1, <1>2, <1>3, InitCalm, InitRequestTyped, NodeAlways, PTL DEF RequestSpec

-----------------------------------------------------------------------------
(* A request that runs into changes *)

\* Whoever the "roles" filter would serve at u, for these roles, has a permission in g.
Covered(roles, u, g) ==
    \A c \in Callers : roles = {} \/ (\E r \in roles : HasRole(c, r)) => <<u, c>> \in g

\* Every caller who is logged in has been permitted everywhere.
OpenGranted == NonBlank(Url) \X Caller \subseteq granted

\* A table holds a url, or the chain that is open to whoever is logged in, only
\* once its roles, or that chain, give away nothing that was never granted; a
\* request that has left the table behind still has that of its chain.
TablesGranted ==
    /\ PermittedBy(db) \subseteq granted
    /\ \A u \in live.urls \union staged.urls : Covered(applied[u], u, granted)
    /\ "authc" \in {live.last, staged.last} => OpenGranted

RequestsGranted ==
    \A q \in Request :
      /\ req[q].pc \in {"lookup", "filter"} /\ req[q].chain = "own" =>
           Covered(applied[req[q].url], req[q].url, granted)
      /\ req[q].pc = "filter" /\ req[q].chain = "authc" => OpenGranted

GrantInv == TablesGranted /\ RequestsGranted /\ ServedWasOncePermitted

\* The roles of a row that the tables hold, and the catch-all of tables without
\* rows, are granted.
LEMMA RowsAreGranted ==
    ASSUME TablesGranted
    PROVE  /\ \A u \in NonBlank(Rows(db)) : Covered(RolesOf(db, u), u, granted)
           /\ Rows(db) = {} => OpenGranted
<1>1. ASSUME NEW u \in NonBlank(Rows(db)), NEW c \in Callers,
             RolesOf(db, u) = {} \/ \E r \in RolesOf(db, u) : HasRole(c, r)
      PROVE  <<u, c>> \in granted
  <2>1. u \in NonBlank(Url) /\ u \in Rows(db)
    BY RowsAreUrls DEF NonBlank
  <2>2. Permitted(db, u, c)
    BY <1>1, <2>1 DEF Permitted
  <2> QED
    BY <2>1, <2>2 DEF TablesGranted, PermittedBy, Callers
<1>2. ASSUME Rows(db) = {}, NEW u \in NonBlank(Url), NEW c \in Caller
      PROVE  <<u, c>> \in granted
  <2>1. Permitted(db, u, c)
    BY <1>2, CallerAssumption DEF Permitted
  <2> QED
    BY <2>1 DEF TablesGranted, PermittedBy
<1> QED
  BY <1>1, <1>2 DEF OpenGranted, Covered

\* What a step, other than a crash, can bring into a node's tables: urls and roles
\* of rows as they are committed, and the open catch-all if there is no row.
LEMMA TablesTakeRows ==
    ASSUME NodeInv, Next, ~Crash
    PROVE  /\ \A u \in Url : \/ applied'[u] = applied[u]
                             \/ u \in NonBlank(Rows(db)) /\ applied'[u] = RolesOf(db, u)
           /\ \A u \in live'.urls \union staged'.urls :
                \/ u \in live.urls \union staged.urls
                \/ u \in NonBlank(Rows(db)) /\ applied'[u] = RolesOf(db, u)
           /\ "authc" \in {live'.last, staged'.last} =>
                "authc" \in {live.last, staged.last} \/ Rows(db) = {}
<1>0. /\ live = [fixed |-> live.fixed, urls |-> live.urls, last |-> live.last]
      /\ staged = [fixed |-> staged.fixed, urls |-> staged.urls, last |-> staged.last]
      /\ applied = [u \in Url |-> applied[u]]
  BY DEF NodeInv, TypeOK, Table
<1>1. CASE (\E w \in Writer : Provide(w)) \/ ChangeSilently \/ RefreshAuthority
  BY <1>1, ProviderFrame DEF rebuildVars
<1>2. CASE Start
  BY <1>2 DEF Start
<1>3. CASE \E t \in Thread : OnMessage(t) \/ Rebuild(t) \/ QueryFails(t)
  <2>1. PICK t \in Thread : OnMessage(t) \/ Rebuild(t) \/ QueryFails(t)
    BY <1>3
  <2>2. CASE OnMessage(t) \/ Enter(t) \/ QueryFails(t)
    BY <2>2 DEF OnMessage, Enter, QueryFails
  <2>3. CASE StageFixed(t) \/ StageCatchAll(t) \/ ClearLive(t)
    <3>1. CASE StageFixed(t)
      <4>1. staged'.urls = {} /\ staged'.last = "none" /\ live' = live /\ applied' = applied
        BY <3>1 DEF StageFixed, EmptyTable
      <4> QED
        BY <4>1
    <3>2. CASE StageCatchAll(t)
      <4>1. /\ staged'.urls = staged.urls /\ staged'.last = "basicFilter"
            /\ live' = live /\ applied' = applied
        BY <1>0, <3>2 DEF StageCatchAll
      <4> QED
        BY <4>1
    <3>3. CASE ClearLive(t)
      BY <3>3 DEF ClearLive, EmptyTable
    <3> QED
      BY <2>3, <3>1, <3>2, <3>3
  <2>4. CASE CountRows(t)
    <3>1. Cardinality(Rows(db)) = 0 => Rows(db) = {}
      BY UrlAssumption, FS_Subset, FS_EmptySet, RowsAreUrls
    <3> QED
      BY <1>0, <2>4, <3>1, RowCount DEF CountRows
  <2>5. CASE ReadPage(t)
    <3> DEFINE page == NonBlank(PageRows(db, scan[t].i))
    <3>1. page \subseteq NonBlank(Rows(db)) /\ page \subseteq Url
      BY RowsAreUrls DEF PageRows, NonBlank
    <3>2. /\ staged' = [staged EXCEPT !.urls = @ \union page] /\ live' = live
          /\ applied' = [u \in Url |-> IF u \in page THEN RolesOf(db, u) ELSE applied[u]]
      BY <2>5 DEF ReadPage
    <3>3. staged'.urls = staged.urls \union page /\ staged'.last = staged.last
      BY <1>0, <3>2
    <3> QED
      BY <3>1, <3>2, <3>3
  <2>6. CASE PutFixed(t) \/ (\E u \in Url : PutUrl(t, u)) \/ PutCatchAll(t)
    BY <1>0, <2>6 DEF PutFixed, PutUrl, PutCatchAll
  <2> QED
    BY <2>1, <2>2, <2>3, <2>4, <2>5, <2>6 DEF Rebuild
<1> QED
  BY <1>1, <1>2, <1>3 DEF Next

\* Permissions are never taken back: what the roles of a url gave stays granted.
LEMMA NodeStepGranted ==
    ASSUME NodeInv, Typed, GrantInv, Next, Disturb, granted' = granted \union PermittedBy(db')
    PROVE  GrantInv'
<1>1. granted \subseteq granted' /\ PermittedBy(db') \subseteq granted'
  OBVIOUS
<1>2. TablesGranted /\ RequestsGranted
  BY DEF GrantInv
<1>3. OpenGranted => OpenGranted'
  BY <1>1 DEF OpenGranted
<1>4. ServedWasOncePermitted'
  <2> SUFFICES ASSUME NEW q \in Request, req'[q].pc = "done", req'[q].answer = "served"
               PROVE  <<req'[q].url, req'[q].caller>> \in granted'
    BY DEF ServedWasOncePermitted
  <2>1. /\ req[q].pc = "done" /\ req[q].answer = "served"
        /\ req'[q].url = req[q].url /\ req'[q].caller = req[q].caller
    BY NodeStepKeepsRequests
  <2> QED
    BY <1>1, <2>1 DEF GrantInv, ServedWasOncePermitted
<1>5. CASE Crash
  <2>1. TablesGranted'
    BY <1>1, <1>5 DEF TablesGranted, Crash, EmptyTable
  <2>2. \A q \in Request : req'[q].pc = "free"
    BY <1>5, NodeStepKeepsRequests DEF Crash
  <2>3. RequestsGranted'
    BY <2>2 DEF RequestsGranted
  <2> QED
    BY <1>4, <2>1, <2>3 DEF GrantInv
<1>6. CASE ~Crash
  <2>1. /\ \A u \in NonBlank(Rows(db)) : Covered(RolesOf(db, u), u, granted)
        /\ Rows(db) = {} => OpenGranted
    BY <1>2, RowsAreGranted
  <2>2. /\ \A u \in Url : \/ applied'[u] = applied[u]
                          \/ u \in NonBlank(Rows(db)) /\ applied'[u] = RolesOf(db, u)
        /\ \A u \in live'.urls \union staged'.urls :
             \/ u \in live.urls \union staged.urls
             \/ u \in NonBlank(Rows(db)) /\ applied'[u] = RolesOf(db, u)
        /\ "authc" \in {live'.last, staged'.last} =>
             "authc" \in {live.last, staged.last} \/ Rows(db) = {}
    BY <1>6, TablesTakeRows
  <2>3. ASSUME NEW u \in Url,
               \/ Covered(applied[u], u, granted)
               \/ u \in NonBlank(Rows(db)) /\ applied'[u] = RolesOf(db, u)
        PROVE  Covered(applied'[u], u, granted')
    <3>1. Covered(applied'[u], u, granted)
      BY <2>1, <2>2, <2>3
    <3> QED
      BY <1>1, <3>1 DEF Covered
  <2>4. TablesGranted'
    <3>1. live'.urls \union staged'.urls \subseteq Url
      BY StepTyped DEF NodeInv, TypeOK, Table
    <3>2. \A u \in live'.urls \union staged'.urls : Covered(applied'[u], u, granted')
      BY <1>2, <2>2, <2>3, <3>1 DEF TablesGranted
    <3>3. "authc" \in {live'.last, staged'.last} => OpenGranted'
      BY <1>2, <1>3, <2>1, <2>2 DEF TablesGranted
    <3> QED
      BY <1>1, <3>2, <3>3 DEF TablesGranted
  <2>5. RequestsGranted'
    <3> SUFFICES ASSUME NEW q \in Request
                 PROVE  /\ req'[q].pc \in {"lookup", "filter"} /\ req'[q].chain = "own" =>
                             Covered(applied'[req'[q].url], req'[q].url, granted')
                        /\ req'[q].pc = "filter" /\ req'[q].chain = "authc" => OpenGranted'
      BY DEF RequestsGranted
    <3>1. req'[q].pc \in {"lookup", "filter"} =>
            /\ req[q].pc = req'[q].pc /\ req'[q].url = req[q].url /\ req'[q].chain = req[q].chain
            /\ req[q].url \in Url
      BY NodeStepKeepsRequests DEF Typed, NonBlank
    <3> QED
      BY <1>2, <1>3, <2>3, <3>1 DEF RequestsGranted
  <2> QED
    BY <1>4, <2>4, <2>5 DEF GrantInv
<1> QED
  BY <1>5, <1>6

LEMMA RequestStepGranted ==
    ASSUME NodeInv, Typed, GrantInv, NEW q \in Request, RequestStep(q), UNCHANGED granted
    PROVE  GrantInv'
<1> DEFINE r == req[q]
<1>0. req \in [Request -> ReqState]
  BY DEF Typed, RequestTypeOK
<1>1. /\ \A p \in Request \ {q} : req'[p] = req[p]
      /\ UNCHANGED vars
      /\ r.pc # "free" /\ req'[q].pc # "free" => req'[q].url = r.url /\ req'[q].caller = r.caller
  BY OneRequestMoves
<1>2. /\ live' = live /\ staged' = staged /\ applied' = applied /\ db' = db /\ granted' = granted
      /\ OpenGranted' <=> OpenGranted
  BY <1>1 DEF vars, OpenGranted
<1>3. TablesGranted'
  BY <1>2 DEF GrantInv, TablesGranted
<1>4. SUFFICES /\ req'[q].pc \in {"lookup", "filter"} /\ req'[q].chain = "own" =>
                    Covered(applied[req'[q].url], req'[q].url, granted)
               /\ req'[q].pc = "filter" /\ req'[q].chain = "authc" => OpenGranted
               /\ req'[q].pc = "done" /\ req'[q].answer = "served" =>
                    <<req'[q].url, req'[q].caller>> \in granted
  BY <1>1, <1>2, <1>3 DEF GrantInv, RequestsGranted, ServedWasOncePermitted
<1>5. ASSUME NEW u, NEW c, Arrive(q, u, c) PROVE req'[q].pc = "chains"
  BY <1>0, <1>5 DEF Arrive
<1>6. /\ \A u \in live.urls \union staged.urls : Covered(applied[u], u, granted)
      /\ "authc" \in {live.last, staged.last} => OpenGranted
      /\ r.pc \in {"lookup", "filter"} /\ r.chain = "own" => Covered(applied[r.url], r.url, granted)
      /\ r.pc = "filter" /\ r.chain = "authc" => OpenGranted
  BY DEF GrantInv, TablesGranted, RequestsGranted
<1>7. CASE HasChains(q)
  <2>1. r.pc = "chains" /\ (Answered(q, "unfiltered") \/ Advance(q, "match", "none"))
    BY <1>7 DEF HasChains
  <2>2. \/ req'[q].pc = "match"
        \/ req'[q].pc = "done" /\ req'[q].answer = "unfiltered"
    BY <1>0, <2>1, Stages DEF Answered, Advance, InFlight
  <2> QED
    BY <2>2
<1>8. CASE Match(q)
  <2>1. r.pc = "match"
    BY <1>8 DEF Match
  <2>2. req'[q].pc = "lookup" /\ req'[q].chain = IF r.url \in live.urls THEN "own" ELSE "catchall"
    BY <1>0, <1>8, <2>1, Stages DEF Match, Advance, InFlight
  <2> QED
    BY <1>1, <1>6, <2>1, <2>2
<1>9. CASE MatchFails(q)
  <2>1. req'[q].pc = "done" /\ req'[q].answer = "error"
    BY <1>0, <1>9 DEF MatchFails, Answered
  <2> QED
    BY <2>1
<1>10. CASE Lookup(q)
  <2>1. r.pc = "lookup"
    BY <1>10 DEF Lookup
  <2>2. \/ Answered(q, "error")
        \/ r.url \in live.urls /\ Advance(q, "filter", "own")
        \/ live.last # "none" /\ Advance(q, "filter", live.last)
    BY <1>10 DEF Lookup
  <2>3. \/ req'[q].pc = "done" /\ req'[q].answer = "error"
        \/ req'[q].pc = "filter" /\ req'[q].chain = "own" /\ r.url \in live.urls
        \/ req'[q].pc = "filter" /\ req'[q].chain = live.last
    BY <1>0, <2>1, <2>2, Stages DEF Answered, Advance, InFlight
  <2>4. live.last # "own"
    BY DEF NodeInv, TypeOK, Table
  <2> QED
    BY <1>1, <1>6, <2>1, <2>3, <2>4
<1>11. CASE Filter(q)
  <2>0. r.pc = "filter" /\ r \in InFlight({"filter"}, {"own", "basicFilter", "authc"})
    BY <1>11, Stages DEF Filter
  <2>1. r.pc = "filter" /\ r.url \in NonBlank(Url) /\ r.caller \in Callers
    BY <2>0 DEF Typed, InFlight, Callers
  <2>2. req'[q].pc = "done" /\ req'[q].answer = IF Allowed(q) THEN "served" ELSE "refused"
    BY <1>0, <1>11 DEF Filter, Answered
  <2>3. ASSUME Allowed(q) PROVE <<r.url, r.caller>> \in granted
    <3>1. CASE r.chain = "own"
      BY <1>6, <2>1, <2>3, <3>1 DEF Allowed, Covered
    <3>2. CASE r.chain # "own"
      BY <1>6, <2>1, <2>3, <3>2 DEF Allowed, OpenGranted, Callers
    <3> QED
      BY <3>1, <3>2
  <2> QED
    BY <1>1, <2>1, <2>2, <2>3
<1>12. CASE Finish(q)
  <2>1. req'[q] = Free
    BY <1>0, <1>12 DEF Finish
  <2> QED
    BY <2>1 DEF Free
<1> QED
  BY <1>5, <1>7, <1>8, <1>9, <1>10, <1>11, <1>12 DEF RequestStep

LEMMA StepGranted ==
    ASSUME NodeInv, Typed, GrantInv, [RequestNext]_reqVars
    PROVE  GrantInv'
<1>1. CASE UNCHANGED reqVars
  BY <1>1 DEF reqVars, vars, GrantInv, TablesGranted, RequestsGranted, OpenGranted,
     ServedWasOncePermitted
<1> QED
  BY <1>1, RequestStepGranted, NodeStepGranted DEF RequestNext

LEMMA InitGranted == RequestInit => GrantInv
BY DEF RequestInit, Init, EmptyTable, GrantInv, TablesGranted, RequestsGranted,
   ServedWasOncePermitted, Free

\* Whatever a request runs into - pages read at different times, roles that reach
\* the filter before their table is live, a table cleared under it, changes of
\* every kind - a chain serves it only if the tables, as they were committed at
\* some time, permitted it.
THEOREM ServedIsNeverInvented == RequestSpec => []ServedWasOncePermitted
<1>1. NodeInv /\ Typed /\ GrantInv /\ [RequestNext]_reqVars => GrantInv'
  BY StepGranted
<1>2. NodeInv /\ Typed /\ [RequestNext]_reqVars => Typed'
  BY StepRequestTyped
<1>3. GrantInv => ServedWasOncePermitted
  BY DEF GrantInv
<1> QED
  BY <1>1, <1>2, <1>3, InitGranted, InitRequestTyped, NodeAlways, PTL DEF RequestSpec
=============================================================================
