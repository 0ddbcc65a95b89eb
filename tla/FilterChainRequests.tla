------------------------ MODULE FilterChainRequests ------------------------
(***************************************************************************)
(* Requests at a consumer node, resolved and filtered while FilterChains   *)
(* changes the table under them.                                           *)
(*                                                                         *)
(* CustomPathMatchingFilterChainResolver.getChain reads the live table in  *)
(* three unsynchronised steps: are there chains, which is the first        *)
(* pattern that matches, what is the chain of that pattern. The chain's    *)
(* filter then decides.                                                    *)
(***************************************************************************)
EXTENDS FilterChains

CONSTANTS Request,    \* requests in flight
          Caller,     \* the callers of the model
          RoleSet,    \* the roles in the principal of a logged-in caller's session
          Anonymous   \* a caller who is not logged in

ASSUME CallerAssumption ==
    /\ Anonymous \notin Caller
    /\ RoleSet \in [Caller -> SUBSET Role]

VARIABLES
    req,       \* each request: where it is and what became of it
    granted    \* history: the <<url, caller>> some committed tables permitted

reqVars == <<vars, req, granted>>

Answer == {"served", "refused", "unfiltered", "error"}

\* chain: what the resolver has found so far.
InFlight(pcs, chains) ==
    [pc : pcs, url : Url, caller : Caller \union {Anonymous}, calm : BOOLEAN, chain : chains]

ReqState ==
    [pc : {"free"}]
      \union InFlight({"chains", "match"}, {"none"})
      \union InFlight({"lookup"}, {"own", "catchall"})
      \union InFlight({"filter"}, {"own", "basicFilter", "authc"})
      \union [pc : {"done"}, url : Url, caller : Caller \union {Anonymous},
              answer : Answer, calm : BOOLEAN]

Free == [pc |-> "free"]

\* The types of the requests and of the grants, in every state.
RequestTypeOK ==
    /\ req \in [Request -> ReqState]
    /\ granted \subseteq Url \X (Caller \union {Anonymous})

HasRole(c, r) == c # Anonymous /\ r \in RoleSet[c]

\* What the tables d say of a request: served to a caller with one of the roles
\* of the url, or to anybody if all its roles are gone; refused if no link
\* reaches the url; open to whoever has logged in while there is no row at all.
Permitted(d, u, c) ==
    IF Rows(d) = {} THEN c # Anonymous
    ELSE /\ u \in Rows(d)
         /\ RolesOf(d, u) = {} \/ \E r \in RolesOf(d, u) : HasRole(c, r)

PermittedBy(d) ==
    {uc \in NonBlank(Url) \X (Caller \union {Anonymous}) : Permitted(d, uc[1], uc[2])}

RequestInit ==
    /\ Init
    /\ req = [q \in Request |-> Free]
    /\ granted = PermittedBy(db)

-----------------------------------------------------------------------------
Answered(q, a) ==
    req' = [req EXCEPT ![q] = [pc |-> "done", url |-> req[q].url, caller |-> req[q].caller,
                               answer |-> a, calm |-> req[q].calm]]

Advance(q, p, c) == req' = [req EXCEPT ![q].pc = p, ![q].chain = c]

\* A request for an element's url. The web server answers once the context is
\* up and the startup rebuild has ended. calm is a history variable: the chains
\* were those of the tables when the request came, and nothing has run since.
Arrive(q, u, c) ==
    /\ req[q].pc = "free"
    /\ up /\ pc[MainThread] = "idle"
    /\ req' = [req EXCEPT ![q] = [pc |-> "chains", url |-> u, caller |-> c, chain |-> "none",
                                  calm |-> Fresh /\ holder = NoThread]]
    /\ UNCHANGED vars

\* hasChains(): without chains the original servlet chain runs, unfiltered.
HasChains(q) ==
    /\ req[q].pc = "chains"
    /\ IF live = EmptyTable THEN Answered(q, "unfiltered") ELSE Advance(q, "match", "none")
    /\ UNCHANGED vars

\* Mutant: "/**" is taken for a url of the table.
MatchCatchAllFirst(q) ==
    /\ req[q].pc = "match"
    /\ Advance(q, "lookup", "catchall")
    /\ UNCHANGED vars

\* The first matching pattern, in insertion order: "/**" comes after the urls.
\* No match is treated as "/**".
Match(q) ==
    /\ req[q].pc = "match"
    /\ Advance(q, "lookup", IF req[q].url \in live.urls THEN "own" ELSE "catchall")
    /\ UNCHANGED vars

\* The iteration over the LinkedHashMap may fail while a rebuild changes it.
MatchFails(q) ==
    /\ req[q].pc = "match" /\ ~req[q].calm
    /\ Answered(q, "error")
    /\ UNCHANGED vars

\* proxy(): the chain of that name must still be there.
Lookup(q) ==
    /\ req[q].pc = "lookup"
    /\ IF req[q].chain = "own"
       THEN IF req[q].url \in live.urls THEN Advance(q, "filter", "own") ELSE Answered(q, "error")
       ELSE IF live.last # "none" THEN Advance(q, "filter", live.last) ELSE Answered(q, "error")
    /\ UNCHANGED vars

\* AddplusRolesAuthorizationFilter: no role configured, or one of them held.
\* BasicFilters: never. authc: logged in.
Allowed(q) ==
    IF req[q].chain = "own"
    THEN LET roles == applied[req[q].url] IN
           roles = {} \/ \E r \in roles : HasRole(req[q].caller, r)
    ELSE req[q].chain = "authc" /\ req[q].caller # Anonymous

Filter(q) ==
    /\ req[q].pc = "filter"
    /\ Answered(q, IF Allowed(q) THEN "served" ELSE "refused")
    /\ UNCHANGED vars

Finish(q) ==
    /\ req[q].pc = "done"
    /\ req' = [req EXCEPT ![q] = Free]
    /\ UNCHANGED vars

\* A step of FilterChains: it ends the calm of every request in flight if a
\* rebuild runs or the tables change; a crash drops the requests.
Disturb ==
    req' = [q \in Request |->
              IF ~up' \/ req[q].pc = "free" THEN Free
              ELSE [req[q] EXCEPT !.calm = @ /\ holder' = NoThread /\ db' = db]]

RequestStep(q) ==
    \/ \E u \in NonBlank(Url), c \in Caller \union {Anonymous} : Arrive(q, u, c)
    \/ HasChains(q) \/ Match(q) \/ MatchFails(q) \/ Lookup(q) \/ Filter(q) \/ Finish(q)

RequestNext ==
    \/ Next /\ Disturb /\ granted' = granted \union PermittedBy(db')
    \/ \E q \in Request : RequestStep(q) /\ UNCHANGED granted

RequestSpec == RequestInit /\ [][RequestNext]_reqVars

-----------------------------------------------------------------------------
(* Properties *)

\* A request that no rebuild and no change overlaps is answered as the committed
\* tables say, and is never an error or passed on unfiltered, although resolver
\* and filter read the shared tables without the monitor.
CalmRequestIsDecidedByTheTables ==
    \A q \in Request : req[q].pc = "done" /\ req[q].calm =>
        req[q].answer = IF Permitted(db, req[q].url, req[q].caller) THEN "served" ELSE "refused"

\* Even a request that runs into changes, rebuilds and swaps is served by a
\* chain only if the tables, as they were committed at some time, permitted it:
\* pages read at different times and roles that reach the filter before their
\* table is live never add up to a permission nobody gave.
ServedWasOncePermitted ==
    \A q \in Request : req[q].pc = "done" /\ req[q].answer = "served" =>
        <<req[q].url, req[q].caller>> \in granted
=============================================================================
