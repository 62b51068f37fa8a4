---------------------------- MODULE ClientCache ----------------------------
(***************************************************************************)
(* What a browser shows of the user's own writes: the queries and          *)
(* mutations of web/src/api/hooks.ts and of the features' api.ts files,    *)
(* held in the cache that queryClient.ts configures and fetched, where the *)
(* page is served over https, through the service worker of vite.config.ts.*)
(*                                                                         *)
(* A response is as good as the writes it has seen: data is the number of  *)
(* this browser's writes the server had executed when it was read. Queries *)
(* do not interact, so one is followed, any of Watched, and a key stands   *)
(* for all its parameters. TanStack Query 5 is modelled from how the code  *)
(* uses it.                                                                *)
(***************************************************************************)
EXTENDS Naturals

CONSTANTS
  Pages,      \* bound: the pages the user visits
  Kinds,      \* bound: the mutations the user makes
  Watched,    \* bound: the queries that are followed
  MaxWrites,  \* bound: the number of mutations
  NoData      \* no response, no data

ASSUME MaxWritesAssumption == MaxWrites \in Nat

VARIABLES
  page,     \* the page (or tab of a page) that is shown
  now,      \* writes the server has executed
  write,    \* the mutations
  key,      \* the query that is followed
  query,    \* its state
  owed,     \* history: the writes it has to show
  raced,    \* history: its data may be behind them, until it is asked for again
  sw,       \* a service worker is installed (it never is over plain http)
  cached,   \* its cache: the response it holds for the query, or NoData
  asked,    \* revalidations it has under way that the server has not seen
  late      \* responses to revalidations that it has not stored yet

cacheVars == <<page, now, write, key, query, owed, raced, sw, cached, asked, late>>
duty == <<owed, raced>>
network == <<key, sw, cached, asked, late>>

Write == 1..MaxWrites

-----------------------------------------------------------------------------
(* Which query is shown where, and which mutation invalidates what. The    *)
(* keys of AddLineDialog and RegisterPage for products and line types are  *)
(* not those of the catalogue.                                             *)

\* Each route with the queries of its components; the tabs of the record are
\* pages of their own.
Shows ==
  [dashboard   |-> {"overview"},
   deck        |-> {"layout", "lines"},
   register    |-> {"lines", "picked line types", "picked products"},
   record      |-> {"line"},
   inspections |-> {"line", "inspections"},
   logbook     |-> {"logbook"},
   catalogue   |-> {"makers", "line types", "products"}]

LineWrites == [register |-> {"lines"}, move |-> {"lines", "layout"}, save |-> {"lines"}]

TurnWrites == [turn |-> {"line", "lines", "layout"}]

\* Mutant: a logged inspection does not invalidate the layout.
InspectionWritesOne == [inspection |-> {"inspections", "line", "lines"}]

InspectionWrites == [inspection |-> {"inspections", "line", "lines", "layout"}]

CatalogueWrites ==
  [maker |-> {"makers"}, linetype |-> {"line types"}, product |-> {"products"}]

Invalidates(k) ==
  IF k \in DOMAIN LineWrites THEN LineWrites[k]
  ELSE IF k \in DOMAIN TurnWrites THEN TurnWrites[k]
  ELSE IF k \in DOMAIN InspectionWrites THEN InspectionWrites[k]
  ELSE CatalogueWrites[k]

\* The queries whose result a mutation changes on the server.
Changes ==
  [register   |-> {"lines", "overview"},
   move       |-> {"lines", "layout", "line", "overview"},
   save       |-> {"lines", "layout", "line", "overview"},
   turn       |-> {"line", "lines", "layout"},
   inspection |-> {"inspections", "line", "lines", "layout", "logbook", "overview"},
   maker      |-> {"makers"},
   linetype   |-> {"line types", "picked line types"},
   product    |-> {"products", "picked products"}]

\* Those that are left to grow stale. (An omission of the code, stated.)
LeftToAge ==
  [register   |-> {"overview"},
   move       |-> {"line", "overview"},
   save       |-> {"line", "overview"},
   turn       |-> {},
   inspection |-> {"logbook", "overview"},
   maker      |-> {},
   linetype   |-> {"picked line types"},
   product    |-> {"picked products"}]

-----------------------------------------------------------------------------

NoWrite == [stage |-> "unused", kind |-> "none", here |-> FALSE, version |-> 0]

Empty == [data |-> NoData, stale |-> TRUE, failed |-> FALSE,
          fetch |-> "idle", answer |-> 0]

Over == [NoWrite EXCEPT !.stage = "over"]

Active == key \in Shows[page]

Fetching == query.fetch # "idle"

\* A first fetch, as a query without data makes when it is mounted.
Loading == [Empty EXCEPT !.fetch = "first"]

CacheInit ==
  /\ page \in Pages /\ key \in Watched /\ sw \in BOOLEAN
  /\ now = 0 /\ owed = 0 /\ raced = FALSE
  /\ write = [w \in Write |-> NoWrite]
  /\ query = IF Active THEN Loading ELSE Empty
  /\ cached = NoData /\ asked = 0 /\ late = {}

-----------------------------------------------------------------------------
(* The query.                                                              *)

\* refetchOnMount: a query without data or with stale data is fetched, unless
\* a fetch is still running.
Mounts == query.stale /\ ~Fetching

\* The user goes to another page; its queries are mounted. A form that was
\* waiting is gone; its mutation goes on.
GoTo(p) ==
  LET mounted == key \in Shows[p] /\ ~Active
  IN  /\ p # page
      /\ page' = p
      /\ query' = IF mounted /\ Mounts THEN [query EXCEPT !.fetch = "first"] ELSE query
      /\ IF mounted /\ Mounts THEN owed' = now /\ raced' = FALSE ELSE UNCHANGED duty
      /\ write' = [w \in Write |-> [write[w] EXCEPT !.here = FALSE]]
      /\ UNCHANGED <<now, network>>

\* staleTime has passed since the data came.
Age ==
  /\ query.data # NoData /\ ~query.stale
  /\ query' = [query EXCEPT !.stale = TRUE]
  /\ UNCHANGED <<page, now, write, duty, network>>

\* The garbage collector takes a query that nobody has shown for a while.
Collect ==
  /\ ~Active /\ ~Fetching /\ query # Empty
  /\ query' = Empty
  /\ UNCHANGED <<page, now, write, duty, network>>

Requested == query.fetch \in {"first", "second"}

AnsweredWith(v) == query' = [query EXCEPT !.fetch = "answered", !.answer = v]

\* The server answers a request; the service worker stores the answer.
Serve ==
  /\ Requested /\ (~sw \/ cached = NoData)
  /\ AnsweredWith(now)
  /\ cached' = IF sw THEN now ELSE NoData
  /\ UNCHANGED <<page, now, write, key, duty, sw, asked, late>>

\* A request fails: a query that is shown is tried once more. The data stays.
FetchFails ==
  /\ Requested /\ (~sw \/ cached = NoData)
  /\ query' = IF query.fetch = "first" /\ Active
              THEN [query EXCEPT !.fetch = "second"]
              ELSE [query EXCEPT !.fetch = "idle", !.failed = TRUE, !.stale = TRUE]
  /\ UNCHANGED <<page, now, write, duty, network>>

\* The answer becomes the data.
Deliver ==
  /\ query.fetch = "answered"
  /\ query' = [Empty EXCEPT !.data = query.answer, !.stale = FALSE]
  /\ UNCHANGED <<page, now, write, duty, network>>

-----------------------------------------------------------------------------
(* The service worker: stale while revalidate.                             *)

\* Bound: revalidations under way that the server has not seen.
MaxAsked == 1

\* Mutant: the strategy is CacheFirst.
FromCacheFirst ==
  /\ sw /\ cached # NoData /\ Requested
  /\ AnsweredWith(cached)
  /\ UNCHANGED <<page, now, write, duty, network>>

\* A request is answered from the cache, and the server is asked meanwhile.
FromCache ==
  /\ sw /\ cached # NoData /\ Requested
  /\ AnsweredWith(cached)
  /\ asked' = IF asked < MaxAsked THEN asked + 1 ELSE asked
  /\ UNCHANGED <<page, now, write, key, duty, sw, cached, late>>

\* The server answers, or cannot be reached.
Revalidate ==
  /\ asked > 0 /\ asked' = asked - 1
  /\ late' = late \cup {now}
  /\ UNCHANGED <<page, now, write, key, query, duty, sw, cached>>

RevalidateFails ==
  /\ asked > 0 /\ asked' = asked - 1
  /\ UNCHANGED <<page, now, write, key, query, duty, sw, cached, late>>

\* The answers are stored in the order they come in.
Store ==
  /\ \E v \in late : cached' = v /\ late' = late \ {v}
  /\ UNCHANGED <<page, now, write, key, query, duty, sw, asked>>

\* maxEntries, maxAgeSeconds.
Expire ==
  /\ cached # NoData /\ cached' = NoData
  /\ UNCHANGED <<page, now, write, key, query, duty, sw, asked, late>>

-----------------------------------------------------------------------------
(* Mutations. A button or an inline form is disabled while its mutation is *)
(* pending. A dialog can be cancelled and opened again; then a second      *)
(* mutation may start before the first is answered.                        *)

InFlight(w) == write[w].stage \in {"sent", "executed"}

NotPending(k) == \A w \in Write : ~(write[w].kind = k /\ write[w].here /\ InFlight(w))

MakerForm == page = "catalogue" /\ NotPending("maker")
LineTypeForm == page = "catalogue" /\ NotPending("linetype")
ProductDialog == page = "catalogue"
TurnButton == page = "record" /\ NotPending("turn")
TurnChip == page = "deck" /\ NotPending("turn")
InspectionDialog == page \in {"inspections", "deck"}
PlacementDialog == page = "deck"
RegisterDialog == page \in {"register", "deck"}
DeckToolbar == page = "deck" /\ NotPending("save")

\* What the user can do on the page.
Offered(k) ==
  \/ k = "maker" /\ MakerForm
  \/ k = "linetype" /\ LineTypeForm
  \/ k = "product" /\ ProductDialog
  \/ k = "turn" /\ (TurnButton \/ TurnChip)
  \/ k = "inspection" /\ InspectionDialog
  \/ k = "move" /\ PlacementDialog
  \/ k = "register" /\ RegisterDialog
  \/ k = "save" /\ DeckToolbar

Submit(w, k) ==
  /\ write[w] = NoWrite /\ Offered(k)
  /\ \A v \in Write : v < w => write[v] # NoWrite
  /\ write' = [write EXCEPT ![w] = [NoWrite EXCEPT !.stage = "sent", !.kind = k, !.here = TRUE]]
  /\ UNCHANGED <<page, now, query, duty, network>>

\* The answer of a save is the layout after it.
Execute(w) ==
  /\ write[w].stage = "sent"
  /\ now' = now + 1
  /\ write' = [write EXCEPT ![w].stage = "executed", ![w].version = now + 1]
  /\ UNCHANGED <<page, query, duty, network>>

\* It is refused, or lost, or its answer is: onSuccess does not run.
Fails(w) ==
  /\ InFlight(w)
  /\ write' = [write EXCEPT ![w] = Over]
  /\ UNCHANGED <<page, now, query, duty, network>>

\* setQueryData of useSaveLayout. A fetch that is running goes on.
Seeded(w) == [query EXCEPT !.data = write[w].version, !.stale = FALSE, !.failed = FALSE]

\* invalidateQueries: a query that is shown is fetched again. That cancels the
\* fetch that is running, unless the query has no data yet.
Invalidated ==
  IF Active /\ (Fetching => query.data # NoData)
  THEN [query EXCEPT !.fetch = "first", !.answer = 0, !.stale = TRUE]
  ELSE [query EXCEPT !.stale = TRUE]

Seeds(w) == write[w].kind = "save" /\ key = "layout"

\* Whether the query has to show write w once it is answered.
Owes(w) == key \in Changes[write[w].kind] \ LeftToAge[write[w].kind]

\* The answer to w comes at a moment when what the query shows next is older
\* than what it has to show, and nothing asks for more: a response that the
\* server read before w is on its way, and no invalidation cancels its fetch; or
\* w is a save, and its layout takes the place of that of a later write.
Overtaken(w) ==
  \/ /\ query.fetch = "answered" /\ query.answer < write[w].version
     /\ Seeds(w) \/ ~Active \/ query.data = NoData
  \/ Seeds(w) /\ ~Fetching /\ write[w].version < owed

\* onSuccess, whether or not the form is still there.
Succeed(w) ==
  /\ write[w].stage = "executed"
  /\ write' = [write EXCEPT ![w] = Over]
  /\ query' = IF Seeds(w) THEN Seeded(w)
              ELSE IF key \in Invalidates(write[w].kind) THEN Invalidated ELSE query
  /\ owed' = IF Owes(w) /\ owed < write[w].version THEN write[w].version ELSE owed
  /\ raced' = (query'.fetch # "first" /\ (raced \/ (Owes(w) /\ Overtaken(w))))
  /\ UNCHANGED <<page, now, network>>

-----------------------------------------------------------------------------

Fetch == Serve \/ FetchFails \/ Deliver \/ FromCache

ServiceWorker == Revalidate \/ RevalidateFails \/ Store \/ Expire

CacheNext ==
  \/ \E p \in Pages : GoTo(p)
  \/ Age \/ Collect \/ Fetch \/ ServiceWorker
  \/ \E w \in Write, k \in Kinds : Submit(w, k)
  \/ \E w \in Write : Execute(w) \/ Fails(w) \/ Succeed(w)

CacheSpec == CacheInit /\ [][CacheNext]_cacheVars

\* Requests end, and a server that is asked again and again answers at last.
\* Nobody has to visit a page, and no data has to grow stale.
FairSpec ==
  /\ CacheSpec /\ WF_cacheVars(Fetch) /\ SF_cacheVars(Serve) /\ WF_cacheVars(Deliver)
  /\ SF_cacheVars(Revalidate) /\ WF_cacheVars(Store)

-----------------------------------------------------------------------------
(* Properties.                                                             *)

Behind == query.data # NoData /\ query.data < owed

\* Without a service worker, a query that is shown, has settled and has not
\* failed shows every write of the user that was answered: at once where the
\* mutation invalidates it or seeds it, and where it does not, from the next
\* visit with data older than staleTime. Exempt, by name, is a query that an
\* answer overtook (Overtaken), until it is asked for again: a response of
\* before the write arrives after it, or an older save is answered after a newer
\* write. The comment on the seed of a saved layout (hooks.ts) reads as if that
\* could no longer happen; the seed cancels no fetch and compares no versions.
OwnWritesShown == ~sw /\ Active /\ ~Fetching /\ ~query.failed => ~Behind \/ raced

\* With the service worker a refetch may bring back what was there before the
\* write, even more than once, when revalidations overtake each other. A query
\* that is fetched again and again shows every write in the end, a write whose
\* answer was overtaken included.
EventuallyShown == []<>(query.fetch = "first") => <>[](~Behind)
=============================================================================
