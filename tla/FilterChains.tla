---------------------------- MODULE FilterChains ----------------------------
(***************************************************************************)
(* How the URL filter chains of a consumer node follow the authority       *)
(* tables.                                                                 *)
(*                                                                         *)
(* The provider's services (threads Writer) change the tables; some then   *)
(* publish a message on the redis topic url_filter. A consumer node that   *)
(* is up hands every message to a listener thread, which rebuilds all      *)
(* chains (ShiroFilerChainManager.initFilterChains, a synchronized         *)
(* method): it stages a new table in otherfilterChainManager, reading the  *)
(* database page by page, then clears the live table and copies the staged *)
(* one into it, entry by entry. The node also rebuilds once when it        *)
(* starts, on MainThread. Pub/sub keeps nothing for a node that is down.   *)
(***************************************************************************)
EXTENDS RoleUrls

CONSTANTS Writer,      \* provider threads that serve authority requests
          Listener,    \* consumer threads that run onMessage
          MainThread,  \* the consumer's startup thread
          NoThread,    \* nobody holds the monitor
          InitialDb,   \* the tables when the model starts
          MaxOps       \* bound: writes, refresh requests, crashes, failures

Thread == Listener \union {MainThread}

ASSUME ThreadAssumption == MainThread \notin Listener /\ NoThread \notin Thread
ASSUME InitialDbAssumption == InitialDb \in Snapshot /\ InitialDb.links \subseteq InitialDb.rows
ASSUME MaxOpsAssumption == MaxOps \in Nat

VARIABLES
    db,       \* the committed authority tables
    writer,   \* what each provider thread is doing
    up,       \* the consumer node is running
    queued,   \* messages delivered to the node, not yet taken by a listener
    pc,       \* where each thread is in initFilterChains
    scan,     \* its local variables loop and i
    holder,   \* the owner of the monitor of ShiroFilerChainManager
    staged,   \* the chains of otherfilterChainManager
    live,     \* the chains of filterChainManager, which requests are resolved by
    applied,  \* the "roles" filter's appliedPaths: the roles of each url
    latest,   \* history: what became of the latest committed change
    ops       \* operations so far (bound)

dbVars == <<db, writer>>
rebuildVars == <<pc, scan, holder, staged, live, applied>>
vars == <<db, writer, up, queued, pc, scan, holder, staged, live, applied, latest, ops>>

-----------------------------------------------------------------------------
(* Types *)

\* A table of chains: whether the fixed chains (/get/rest, /post/rest and the
\* urls of sys_menu_common) are there, the urls with a "roles" chain, and the
\* filter of the chain of "/**", which is always the last entry.
Table == [fixed : BOOLEAN, urls : SUBSET Url, last : {"none", "basicFilter", "authc"}]

EmptyTable == [fixed |-> FALSE, urls |-> {}, last |-> "none"]

Phase == {"idle", "blocked", "stage", "count", "page", "clear", "put"}

\* The phases in which a thread owns the monitor.
Inside == Phase \ {"idle", "blocked"}

IdleWriter == [pc |-> "idle"]

WriterState ==
    {IdleWriter} \union [pc : {"announce"}]
      \union [pc : {"saving", "commit"}, role : Role, add : SUBSET Menu, del : SUBSET Menu]

Latest == {"announced", "pending", "save", "silent", "lost"}

TypeOK ==
    /\ db \in Snapshot
    /\ writer \in [Writer -> WriterState]
    /\ up \in BOOLEAN
    /\ queued \in Nat
    /\ pc \in [Thread -> Phase]
    /\ scan \in [Thread -> [loop : Int, i : Int]]
    /\ holder \in Thread \union {NoThread}
    /\ staged \in Table
    /\ live \in Table
    /\ applied \in [Url -> SUBSET Role]
    /\ latest \in Latest
    /\ ops \in Nat

\* The node has just subscribed; its startup thread is about to rebuild.
Init ==
    /\ db = InitialDb
    /\ writer = [w \in Writer |-> IdleWriter]
    /\ up = TRUE
    /\ queued = 0
    /\ pc = [t \in Thread |-> IF t = MainThread THEN "blocked" ELSE "idle"]
    /\ scan = [t \in Thread |-> [loop |-> 0, i |-> 0]]
    /\ holder = NoThread
    /\ staged = EmptyTable
    /\ live = EmptyTable
    /\ applied = [u \in Url |-> {}]
    /\ latest = "announced"
    /\ ops = 0

-----------------------------------------------------------------------------
(* The provider: changes of the tables *)

Count == ops < MaxOps /\ ops' = ops + 1

\* convertAndSend: a node that is up gets the message, one that is down does not.
Publish ==
    /\ queued' = IF up THEN queued + 1 ELSE queued
    /\ latest' = "announced"

\* A change that is committed by its own statement and announced afterwards.
CommitThenAnnounce(w, d) ==
    /\ writer[w] = IdleWriter
    /\ Count
    /\ db' = d
    /\ writer' = [writer EXCEPT ![w] = [pc |-> "announce"]]
    /\ latest' = "pending"
    /\ UNCHANGED <<up, queued, rebuildVars>>

\* A change that is committed and never announced.
CommitSilently(d) ==
    /\ Count
    /\ db' = d
    /\ latest' = "silent"
    /\ UNCHANGED <<writer, up, queued, rebuildVars>>

AddRoleMenufunction(w, r, m) ==
    CommitThenAnnounce(w, [db EXCEPT !.links = @ \union {<<r, m>>}, !.rows = @ \union {<<r, m>>}])

\* One row of a pair, which may have been added more than once.
LogicalDeletedRoleMenufunctionById(w, r, m) ==
    /\ <<r, m>> \in db.links
    /\ \/ CommitThenAnnounce(w, [db EXCEPT !.links = @ \ {<<r, m>>}])
       \/ CommitThenAnnounce(w, db)

\* The convertAndSend that follows either of them.
Announce(w) ==
    /\ writer[w].pc = "announce"
    /\ writer' = [writer EXCEPT ![w] = IdleWriter]
    /\ Publish
    /\ UNCHANGED <<db, up, rebuildVars, ops>>

\* redis refuses the message: the exception leaves the committed change as it is.
AnnounceFails(w) ==
    /\ writer[w].pc = "announce"
    /\ writer' = [writer EXCEPT ![w] = IdleWriter]
    /\ latest' = IF latest = "pending" THEN "lost" ELSE latest
    /\ UNCHANGED <<db, up, queued, rebuildVars, ops>>

\* refreshMenu, refreshAuthority and updateMenuFunctionById (with a url): no
\* row that the chains are built from changes, and a message is published.
RefreshAuthority ==
    /\ Count
    /\ Publish
    /\ UNCHANGED <<db, writer, up, rebuildVars>>

LinkedMenus(r) == {m \in Menu : <<r, m>> \in db.links}

\* saveRoleMenuFunction, up to the two lists: the difference between the menus
\* asked for and those linked when they are read.
SaveRoleMenuFunction(w, r, asked) ==
    /\ writer[w] = IdleWriter
    /\ asked # {} /\ asked # LinkedMenus(r)
    /\ Count
    /\ writer' = [writer EXCEPT ![w] = [pc |-> "saving", role |-> r,
                                        add |-> asked \ LinkedMenus(r),
                                        del |-> LinkedMenus(r) \ asked]]
    /\ UNCHANGED <<db, up, queued, rebuildVars, latest>>

\* Another open transaction has deleted one of the rows that w will delete.
RowsLocked(w) ==
    \E v \in Writer \ {w} : /\ writer[v].pc = "commit"
                            /\ writer[v].role = writer[w].role
                            /\ writer[v].del \intersect writer[w].del # {}

\* Its deletes and inserts, invisible to others, and then its message, which is
\* sent while the transaction is still open. batchDelete takes the rows of its
\* pairs, logically deleted ones too, and has to find one.
SavePublish(w) ==
    /\ writer[w].pc = "saving"
    /\ ~RowsLocked(w)
    /\ \/ writer[w].del = {}
       \/ \E m \in writer[w].del : <<writer[w].role, m>> \in db.rows
    /\ writer' = [writer EXCEPT ![w].pc = "commit"]
    /\ Publish
    /\ UNCHANGED <<db, up, rebuildVars, ops>>

\* batchDelete finds no row, or the statement or the message fails: everything
\* is rolled back (rollbackFor = Exception.class).
SaveRollback(w) ==
    /\ writer[w].pc \in {"saving", "commit"}
    /\ writer' = [writer EXCEPT ![w] = IdleWriter]
    /\ UNCHANGED <<db, up, queued, rebuildVars, latest, ops>>

SaveCommit(w) ==
    /\ writer[w].pc = "commit"
    /\ LET Saved(pairs) == (pairs \ ({writer[w].role} \X writer[w].del))
                              \union ({writer[w].role} \X writer[w].add)
       IN db' = [db EXCEPT !.links = Saved(@), !.rows = Saved(@)]
    /\ writer' = [writer EXCEPT ![w] = IdleWriter]
    /\ latest' = "save"
    /\ UNCHANGED <<up, queued, rebuildVars, ops>>

\* One transaction: the role, its links (and its element links, which the
\* chains do not use). No message.
LogicallyDeleteRoleById(r) ==
    /\ r \in db.roles
    /\ CommitSilently([db EXCEPT !.roles = @ \ {r}, !.links = @ \ ({r} \X Menu)])

\* One transaction: the menus of a subtree, their links and elements. No message.
DeleteMenuFunctionById(sub) ==
    /\ sub \intersect db.menus # {}
    /\ CommitSilently([db EXCEPT !.menus = @ \ sub,
                                 !.links = @ \ (Role \X sub),
                                 !.place = [e \in Element |-> IF @[e] \in sub THEN NoMenu
                                                                              ELSE @[e]]])

AddMenuElement(e, m) ==
    db.place[e] = NoMenu /\ CommitSilently([db EXCEPT !.place[e] = m])

DeleteMenuElementById(e) ==
    db.place[e] # NoMenu /\ CommitSilently([db EXCEPT !.place[e] = NoMenu])

\* A row gets another menu, another method, or both: e becomes f.
UpdateMenuElementById(e, f, m) ==
    /\ db.place[e] # NoMenu
    /\ IF f = e THEN db.place[e] # m ELSE db.place[f] = NoMenu
    /\ CommitSilently([db EXCEPT !.place = [@ EXCEPT ![e] = NoMenu, ![f] = m]])

-----------------------------------------------------------------------------
(* The consumer: initFilterChains, step by step *)

Goto(t, p) == pc' = [pc EXCEPT ![t] = p]

\* Mutant: a listener runs without a message.
OnMessageUnprompted(t) ==
    /\ up /\ pc[t] = "idle" /\ t # MainThread
    /\ queued' = queued - 1
    /\ Goto(t, "blocked")
    /\ UNCHANGED <<dbVars, up, scan, holder, staged, live, applied, latest, ops>>

\* onMessage is called for one delivered message.
OnMessage(t) ==
    /\ up /\ queued > 0 /\ pc[t] = "idle" /\ t # MainThread
    /\ queued' = queued - 1
    /\ Goto(t, "blocked")
    /\ UNCHANGED <<dbVars, up, scan, holder, staged, live, applied, latest, ops>>

\* Mutant: the method is not synchronized.
EnterUnsynchronized(t) ==
    /\ pc[t] = "blocked"
    /\ holder' = t
    /\ Goto(t, "stage")
    /\ UNCHANGED <<dbVars, up, queued, scan, staged, live, applied, latest, ops>>

\* synchronized: wait for the monitor.
Enter(t) ==
    /\ pc[t] = "blocked" /\ holder = NoThread
    /\ holder' = t
    /\ Goto(t, "stage")
    /\ UNCHANGED <<dbVars, up, queued, scan, staged, live, applied, latest, ops>>

\* Clear the staged chains; add the fixed ones.
StageFixed(t) ==
    /\ pc[t] = "stage"
    /\ staged' = [EmptyTable EXCEPT !.fixed = TRUE]
    /\ Goto(t, "count")
    /\ UNCHANGED <<dbVars, up, queued, scan, holder, live, applied, latest, ops>>

\* Mutant: a single row is taken for none.
CountRowsOffByOne(t) ==
    /\ pc[t] = "count"
    /\ LET countAll == Cardinality(Rows(db)) IN
         IF countAll > 1
         THEN /\ scan' = [scan EXCEPT ![t] = [loop |-> GetSize(countAll, PageSize), i |-> 1]]
              /\ Goto(t, "page")
              /\ UNCHANGED staged
         ELSE /\ staged' = [staged EXCEPT !.last = "authc"]
              /\ Goto(t, "clear")
              /\ UNCHANGED scan
    /\ UNCHANGED <<dbVars, up, queued, holder, live, applied, latest, ops>>

\* Count the groups; without any, every url is open to whoever has logged in.
CountRows(t) ==
    /\ pc[t] = "count"
    /\ LET countAll == Cardinality(Rows(db)) IN
         IF countAll > 0
         THEN /\ scan' = [scan EXCEPT ![t] = [loop |-> GetSize(countAll, PageSize), i |-> 1]]
              /\ Goto(t, "page")
              /\ UNCHANGED staged
         ELSE /\ staged' = [staged EXCEPT !.last = "authc"]
              /\ Goto(t, "clear")
              /\ UNCHANGED scan
    /\ UNCHANGED <<dbVars, up, queued, holder, live, applied, latest, ops>>

\* One page: a chain for each url; its roles go to the shared "roles" filter.
ReadPage(t) ==
    /\ pc[t] = "page" /\ scan[t].i <= scan[t].loop
    /\ LET page == NonBlank(PageRows(db, scan[t].i)) IN
         /\ staged' = [staged EXCEPT !.urls = @ \union page]
         /\ applied' = [u \in Url |-> IF u \in page THEN RolesOf(db, u) ELSE applied[u]]
    /\ scan' = [scan EXCEPT ![t].i = @ + 1]
    /\ UNCHANGED <<dbVars, up, queued, pc, holder, live, latest, ops>>

\* After the last page: "/**" last, refused to everybody.
StageCatchAll(t) ==
    /\ pc[t] = "page" /\ scan[t].i > scan[t].loop
    /\ staged' = [staged EXCEPT !.last = "basicFilter"]
    /\ Goto(t, "clear")
    /\ UNCHANGED <<dbVars, up, queued, scan, holder, live, applied, latest, ops>>

\* Mutant: the live chains are not cleared first.
ClearLiveForgotten(t) ==
    /\ pc[t] = "clear"
    /\ Goto(t, "put")
    /\ UNCHANGED <<dbVars, up, queued, scan, holder, staged, live, applied, latest, ops>>

ClearLive(t) ==
    /\ pc[t] = "clear"
    /\ live' = EmptyTable
    /\ Goto(t, "put")
    /\ UNCHANGED <<dbVars, up, queued, scan, holder, staged, applied, latest, ops>>

\* putAll copies the staged chains in their order of insertion.
PutFixed(t) ==
    /\ pc[t] = "put" /\ ~live.fixed
    /\ live' = [live EXCEPT !.fixed = staged.fixed]
    /\ UNCHANGED <<dbVars, up, queued, pc, scan, holder, staged, applied, latest, ops>>

PutUrl(t, u) ==
    /\ pc[t] = "put" /\ live.fixed
    /\ u \in staged.urls \ live.urls
    /\ live' = [live EXCEPT !.urls = @ \union {u}]
    /\ UNCHANGED <<dbVars, up, queued, pc, scan, holder, staged, applied, latest, ops>>

\* Mutant: "/**" is copied before the urls.
PutCatchAllEarly(t) ==
    /\ pc[t] = "put" /\ live.fixed
    /\ live' = [live EXCEPT !.last = staged.last]
    /\ holder' = NoThread
    /\ Goto(t, "idle")
    /\ UNCHANGED <<dbVars, up, queued, scan, staged, applied, latest, ops>>

\* Mutant: the monitor is not released.
PutCatchAllKeepsMonitor(t) ==
    /\ pc[t] = "put" /\ live.fixed /\ staged.urls \subseteq live.urls
    /\ live' = [live EXCEPT !.last = staged.last]
    /\ Goto(t, "idle")
    /\ UNCHANGED <<dbVars, up, queued, scan, holder, staged, applied, latest, ops>>

\* The last entry, the end of the method and the release of the monitor.
PutCatchAll(t) ==
    /\ pc[t] = "put" /\ live.fixed /\ staged.urls \subseteq live.urls
    /\ live' = [live EXCEPT !.last = staged.last]
    /\ holder' = NoThread
    /\ Goto(t, "idle")
    /\ UNCHANGED <<dbVars, up, queued, scan, staged, applied, latest, ops>>

\* A later rebuild will still read the tables.
RebuildPending(t) == queued > 0 \/ \E s \in Thread \ {t} : pc[s] = "blocked"

\* A query throws: the exception leaves the method and releases the monitor.
\* At startup it also ends the process.
QueryFails(t) ==
    /\ pc[t] \in {"stage", "count", "page"} /\ t # MainThread
    /\ Count
    /\ holder' = NoThread
    /\ Goto(t, "idle")
    /\ latest' = IF RebuildPending(t) \/ latest # "announced" THEN latest ELSE "lost"
    /\ UNCHANGED <<dbVars, up, queued, scan, staged, live, applied>>

\* The node stops or crashes: its memory is gone.
Crash ==
    /\ up
    /\ Count
    /\ up' = FALSE
    /\ queued' = 0
    /\ pc' = [t \in Thread |-> "idle"]
    /\ scan' = [t \in Thread |-> [loop |-> 0, i |-> 0]]
    /\ holder' = NoThread
    /\ staged' = EmptyTable
    /\ live' = EmptyTable
    /\ applied' = [u \in Url |-> {}]
    /\ UNCHANGED <<dbVars, latest>>

\* The context is refreshed: the listener container subscribes first, then the
\* startup thread rebuilds the chains (SystemBeanInitListener).
Start ==
    /\ ~up
    /\ up' = TRUE
    /\ Goto(MainThread, "blocked")
    /\ latest' = "announced"
    /\ UNCHANGED <<dbVars, queued, scan, holder, staged, live, applied, ops>>

-----------------------------------------------------------------------------
Provide(w) ==
    \/ \E r \in Role, m \in Menu : \/ AddRoleMenufunction(w, r, m)
                                   \/ LogicalDeletedRoleMenufunctionById(w, r, m)
    \/ Announce(w) \/ AnnounceFails(w)
    \/ \E r \in Role, asked \in SUBSET Menu : SaveRoleMenuFunction(w, r, asked)
    \/ SavePublish(w) \/ SaveRollback(w) \/ SaveCommit(w)

ChangeSilently ==
    \/ \E r \in Role : LogicallyDeleteRoleById(r)
    \/ \E sub \in SUBSET Menu : DeleteMenuFunctionById(sub)
    \/ \E e \in Element : \/ DeleteMenuElementById(e)
                          \/ \E m \in Menu : \/ AddMenuElement(e, m)
                                             \/ \E f \in Element : UpdateMenuElementById(e, f, m)

\* The steps of initFilterChains, once it has been called.
Rebuild(t) ==
    \/ Enter(t) \/ StageFixed(t) \/ CountRows(t) \/ ReadPage(t) \/ StageCatchAll(t)
    \/ ClearLive(t) \/ PutFixed(t) \/ (\E u \in Url : PutUrl(t, u)) \/ PutCatchAll(t)

Next ==
    \/ \E w \in Writer : Provide(w)
    \/ ChangeSilently \/ RefreshAuthority
    \/ \E t \in Thread : OnMessage(t) \/ Rebuild(t) \/ QueryFails(t)
    \/ Crash \/ Start

Spec == Init /\ [][Next]_vars

\* The JVM runs its threads and hands out a free monitor; nothing is assumed of
\* the provider, of failures or of restarts.
Fairness == \A t \in Thread : WF_vars(OnMessage(t)) /\ WF_vars(Rebuild(t))

FairSpec == Spec /\ Fairness

-----------------------------------------------------------------------------
(* Properties *)

\* Only the owner of the monitor is inside initFilterChains.
MonitorHeld == \A t \in Thread : pc[t] \in Inside <=> holder = t

\* "/**" never stands in a live table that still lacks a url of the table being
\* installed: it is the last entry to arrive (a request that finds "/**" and no
\* chain of its own has none).
CatchAllIsLast ==
    \A t \in Thread : pc[t] = "put" => live.last = "none" /\ live.urls \subseteq staged.urls

\* A rebuild ends with the live table equal to the staged one, which has its
\* "/**" entry: two rebuilds never leave their entries mixed, nor an unfinished
\* table behind.
InstallsWhatItStaged ==
    [][\A t \in Thread : pc[t] = "put" /\ pc'[t] # "put" /\ up' =>
                            live' = staged /\ staged.fixed /\ staged.last # "none"]_vars

\* The table a rebuild of the tables d ends with.
Built(d) == [fixed |-> TRUE,
             urls |-> NonBlank(Rows(d)),
             last |-> IF Rows(d) = {} THEN "authc" ELSE "basicFilter"]

\* The "roles" filter has the roles of the urls us as the tables have them.
RolesApplied(us) == \A u \in us : applied[u] = RolesOf(db, u)

\* The chains are exactly those of the committed tables.
Fresh == live = Built(db) /\ RolesApplied(live.urls)

\* Nothing is left to do for the node.
Settled == up /\ queued = 0 /\ \A t \in Thread : pc[t] = "idle"

\* Convergence: when the latest committed change was announced after its commit
\* and the node has nothing left to do, its chains are those of the tables,
\* whatever was written while pages were being read.
AnnouncedIsVisible == Settled /\ latest = "announced" => Fresh

\* What the comment in saveRoleMenuFunction claims of its message ("update the
\* content in shiro"): a saved assignment is in the chains once it is handled.
SaveIsVisible == Settled /\ latest = "save" => Fresh

\* Once the latest change is announced, the chains become those of the tables,
\* unless a later event takes over.
AnnouncedBecomesVisible ==
    (up /\ latest = "announced") ~> (Fresh \/ latest # "announced" \/ ~up)

-----------------------------------------------------------------------------
(* The inductive invariants behind these properties (FilterChainsProofs) *)

\* A node that is down runs no thread.
DownIsIdle == ~up => queued = 0 /\ \A t \in Thread : pc[t] = "idle"

\* What the owner of the monitor has staged, phase by phase.
StagingInv ==
    \A t \in Thread :
      /\ pc[t] \in {"count", "page", "clear", "put"} => staged.fixed
      /\ pc[t] \in {"clear", "put"} => staged.last # "none"
      /\ pc[t] = "put" => live.last = "none" /\ live.urls \subseteq staged.urls

\* The urls of the pages before page i.
UrlsBefore(d, i) == NonBlank({u \in Rows(d) : Rank(d, u) <= (i - 1) * PageSize})

\* The latest change is announced, and the message or start that announced it
\* has already begun to rebuild: nobody else is going to.
LastRebuild ==
    /\ up /\ queued = 0 /\ latest = "announced"
    /\ \A t \in Thread : pc[t] # "blocked"

\* Then the tables have not changed since that rebuild began to read them, and
\* what it has read, staged or installed is what they hold.
TrackingInv ==
    LastRebuild =>
      /\ \A t \in Thread :
           /\ pc[t] = "count" => staged = [EmptyTable EXCEPT !.fixed = TRUE]
           /\ pc[t] = "page" =>
                /\ Rows(db) # {}
                /\ scan[t].loop = GetSize(Cardinality(Rows(db)), PageSize)
                /\ scan[t].i \in 1 .. scan[t].loop + 1
                /\ staged = [fixed |-> TRUE, urls |-> UrlsBefore(db, scan[t].i), last |-> "none"]
                /\ RolesApplied(staged.urls)
           /\ pc[t] \in {"clear", "put"} => staged = Built(db) /\ RolesApplied(staged.urls)
      /\ (\A t \in Thread : pc[t] = "idle") => live = Built(db) /\ RolesApplied(live.urls)
=============================================================================
