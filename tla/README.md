# Mooring line management: a TLA+ verification of the server and its client

This directory holds TLA+ models of the mooring line management system (Go API in
`src/api`, React client in `src/web`), TLC configurations that check them on small
instances, and TLAPS proofs for instances of any size. Paths below are relative to
the root of the repository as checked out under `src/`; `store/` is short for
`api/internal/store/`, `httpapi/` for `api/internal/httpapi/`, `features/`, `app/` and
`api/*.ts` for the directories of `web/src/`.

Contents: [the system](#1-the-system) ·
[modules](#2-the-modules-and-how-they-correspond-to-the-code) ·
[environment assumed](#3-what-is-assumed-of-the-environment) ·
[runs](#4-the-runs) · [proofs](#5-the-proofs) ·
[findings](#6-where-the-code-and-its-words-differ) ·
[only model-checked](#7-only-model-checked) · [not modelled](#8-not-modelled-and-why) ·
[plan](#9-plan)

## 1. The system

One server process (`api/cmd/server`) answers HTTP requests. Each request is handled by
a goroutine of its own, calls one store operation, and the store operation is one
Postgres transaction on a connection of a pool. There is no in-memory state shared by
requests: all concurrency is between transactions at READ COMMITTED, Postgres's
default, which no operation changes. Several browsers, a third-party inspection system
and (on shore) several vessels' users call at once. Each browser keeps a cache of what it
has read, behind a service worker where the page is served over https, and its pages
act on that cache. What makes the behaviour hard is nearly always the same: **a value
read in one step is acted on in a later one**. On the server only a row lock, a unique
index or a foreign key may stand in between; in the browser, nothing does.

| Component | State | Operations | Interacts with | Hard part |
|---|---|---|---|---|
| Line placement — `store/lines.go` | `mooring_line`: vessel, lifecycle_status, current_drum_id / current_storage_id | CreateLine, AddComponent, MoveLine | positions (foreign keys), outbox | two moves onto one drum; a target removed after it was read |
| Deck layout — `store/vessel.go` | `winch_location`, `drum`, `storage_location` | SaveLayout, adjustDrums, GetLayout, CreateVessel | lines (`ON DELETE SET NULL`), outbox | check-then-delete against concurrent moves; two editors; deadlock |
| Turning — `store/turn.go`, `domain/derive.go` | current_side, accumulated age and change date of each side; `turn_event` | TurnLine; ages derived at read time | outbox, the clock | unlocked read before an increment; a date taken before a wait |
| Inspections — `store/inspections.go` | `inspection`, `external_id`, current_condition_status | LogInspection, IngestInspection, ConditionReport | lines, third party, outbox | repeated and concurrent deliveries; arrival order ≠ inspection order |
| Files — `httpapi/files.go`, `store/files.go`, `storage/s3.go`, `features/files` | objects in a bucket, `condition_photo`, `document`; two forms and two lists | add/delete photo, add certificate, presigned reads | object store and database, outbox | no common transaction: stops and errors between the two; a form that is cleared late |
| Outbox — `store/outbox.go` | `outbox`, ids that increase with time (uuid v7) | writeOutbox, in the transaction of its caller | a sync worker the docs describe and the code does not have | ids are taken before the commit |
| Login — `httpapi/auth.go`, `store/auth.go`, `app/auth` | `oidc_flow`, `auth_session`, state and session cookies, login attempts in sessionStorage | login, callback, logout, session | identity provider, several tabs of a browser | tabs share a cookie; redirect loops; callbacks repeated |
| Access — `httpapi/authmw.go`, `httpapi/access.go`, `auth/groups.go`, `PermissionsPage.tsx` | `group_access`; groups of a user; a list with optimistic changes | upsert, delete, Resolve | every request (three reads to authorise it) | grants change while a request is in flight; rollback of a whole list |
| Deck editor — `DeckPage.tsx`, `WinchPanel.tsx`, `VesselContext.tsx` | draft of a layout, the vessel selected | enter, edit, save whole, switch vessel | SaveLayout, client cache | a draft of a stale layout, or of another vessel |
| Client cache — `api/hooks.ts`, `features/*/api.ts`, `queryClient.ts`, `vite.config.ts` | query cache, service worker cache | fetch, mutate, invalidate, seed | every GET | a refetch is answered by stale-while-revalidate |
| Register dialog — `AddLineDialog.tsx` and the pickers of `WinchPanel.tsx` | form | CreateLine then MoveLine | two requests | either may fail; the dialog may be closed meanwhile |
| Scope — `httpapi/scope.go` | configured vessel | guard on path and query | every request | (a comparison with a constant) |
| Catalogue, overview, reports, seed, config, migrations, routing, presentation | rows nobody updates; none | inserts and reads | | |

Correctness, component by component:

- **Placement and layout.** No drum holds two lines. A line is at an existing position of
  its own vessel, with the lifecycle that goes with it. The drums of a winch are those its
  `drum_count` says, as long as no save of another vessel has named it. A save that commits
  is applied and takes no line off a position it was on before. Every transaction looks
  atomic, and every request is answered.
- **Turning.** A side ages on the days it is in service and on no others; the history
  explains the row; a line is reported due once a side has served the interval since the
  last turn.
- **Inspections.** An external inspection is recorded once, whatever is redelivered; what
  is acknowledged is recorded; a repetition changes nothing; line, report and events agree.
- **Files.** What the register shows can be fetched; a file whose upload failed is still in
  the form; what a page was told is done, shows.
- **Outbox.** A consumer that replays events by id ends where the tables are.
- **Login.** A flow is redeemed once, a callback is refused only for a reason, and a
  failing sign-in stops redirecting.
- **Access.** A request is decided as if session, user and grants had been read at once,
  whatever single change falls between the reads; a quiet permissions page shows the grants.
- **Deck editor.** A save removes what the user removed, or was never shown, and nothing
  else; a symbol added once is on the deck once; derived names follow places.
- **Dialogs.** A line registered onto a drum is active without a place only if it was placed
  and a layout save then took the place; what the dialog says of it is so.
- **Client cache.** A page comes to show the user's own writes.

## 2. The modules and how they correspond to the code

Conventions: a request is an element of a constant set and runs once (a retry is another
request). `pc` says which statement comes next. A variable named after a table is what is
*committed*; what an open transaction has written is kept apart and becomes visible in
`Commit`. `Fail` is the deferred `tx.Rollback`; `Cancel` is the end of the request's
context, or any error not modelled, at any point of an open transaction. `stamp` is the id
of the outbox event a request wrote. Variables marked *history* are read by properties
only. Operators whose comment begins with *Mutant* are deliberately wrong versions of the
definition that follows them, and part of no specification: each breaks a property, which
shows that the property depends on the code.

The system is cut in two at the HTTP request. The server's modules (Placement, Turning,
Inspections, Files) have transactions statement by statement, and leave out who calls.
The client's modules (DeckEdit, Ropes, FilesTab, ClientCache, SignIn, Access) have every
await, answer and click, and take a request of the server as one step, which the server's
modules justify (`AtomicSpec` for moves, registrations and saves); FilesTab alone composes
with its server module as it is.

### The server

**Placement** (`store/lines.go`, `store/vessel.go`, migrations 0003, 0004).
`line`, `pos`, `count` are the committed rows, positions and drum counts; `mine`, `born`,
`gone`, `held` are the row versions, inserts, deletes and locks of each transaction; `kept`,
`lack`, `drop` and `unit` are SaveLayout's loop variables. `crossed` is history: the winches that
a save of another vessel named and committed while the request was open.

| Action | Code |
|---|---|
| `MoveBegin` → `MoveLock` → `MoveIndex` → `MoveRef` | MoveLine's two SELECTs (ErrInvalidMoveTarget), one step because a line is never deleted nor changes vessel; its UPDATE as Postgres runs it: row lock and new version, entry in `mooring_line_drum_key` (waiting for an uncommitted holder, or ErrDrumOccupied), KEY SHARE lock on the target (waiting for whoever deletes it, or a foreign-key error) |
| `RegisterBegin`, `RegisterInsert` | CreateLine; AddComponent is the same insert with a parent |
| `SaveBegin` | SaveLayout's arguments: a layout of any ids a client can have read, of whichever vessel and perhaps removed since, and of new rows |
| `SaveWinch` | one turn of the winch loop: INSERT or UPDATE and adjustDrums' SELECT. The UPDATE writes and locks only a winch of the vessel saved (`Writes`); the drums of any other are listed all the same |
| `InsertDrum` | adjustDrums' INSERTs, in the order of idx: each waits for an uncommitted entry of its `UNIQUE (winch_id, idx)` and for who is deleting the winch, and fails on a committed entry or a missing winch |
| `ListWinches`, `SaveStore`, `ListStores` | idsForVessel and the storage loop |
| `CheckEmpty`, `Remove`, `SetNull` | `SELECT EXISTS`, `DELETE`, and the referential action it triggers; used for drums, winches and storage locations |
| `Emit`, `Commit`, `Cancel`, `Deadlock` | writeOutbox, Commit, the context, error 40P01 |

**AtomicPlacement** is the abstract specification of the same tables: register, move and
relayout each in one step, where a relayout changes the storage locations of one vessel, and
drums, and may take lines off what it removes. (It may change drums of another vessel's
winches, because a save does.) `Placement`
implements it (`AtomicSpec`): `line` and `pos` are the committed tables, a commit is the
abstract step, and everything before it a stutter.

**Turning** (`store/turn.go`, `domain/derive.go`, migration 0005). `Read` is the unlocked
SELECT; `Date` takes `today`; `Update` locks the row; `Turned` is what the UPDATE computes
from the row *as it is then* (`accumulated + elapsed`) and from what was *read before* (which
side leaves, since when); `Record` writes turn_event and outbox; `Commit`. `Tick` is
midnight. `LiveSideAge`, `AgeDays`, `DaysBetween`, `TurnDue` are derive.go. **SideAge** is the
abstract view: one side ages per day (`Pass`), a turn only changes which (`Turn`), and may
count as of the day the request came. Turns that overlap break it (section 6), so the
refinement is stated step by step: `FreshTurnAges` says that every step is a step of
`SideAge` or a stutter, as long as no turn commits over a row that has changed since it was
read.

**Inspections** (`store/inspections.go`, migration 0006). `Begin`/`NotFound`,
`Insert` (`ON CONFLICT DO NOTHING`, waiting for an uncommitted row with the same
external_id, and the read of the existing row that answers a repetition), `Update` (row of
the line), `Record`, `Commit`. LogInspection is the same without an external id.
`Latest`/`ReportedStatus` are ConditionReport's LATERAL join.

**Files** (`httpapi/files.go`, `store/files.go`, `storage/s3.go`, migration 0007).
`Put`/`PutFails`, `Add`/`AddFails` (where an error of Commit does not say whether it took
effect), `Delete`, `Purge` (an error of Remove is ignored), `Cancel` (the server stops).

### The client

**FilesTab** (`features/files`) EXTENDS Files: the same requests, sent by a page.

| Action | Code |
|---|---|
| `Choose`, `Submit`, `ReadFails`, `Mutate` | the file input; `submit` up to `fileToBase64`, whose rejection nothing catches; `mutateAsync`, from which on `isPending` disables the button |
| `Uploaded`, `UploadFails` | what follows the await: invalidate, `setFile(null)`; or the throw that skips it. A failure may come before, while or after the server acts |
| `Remove`, `Removed`, `RemoveFails` | the Delete button of PhotoTimeline and useDeletePhoto |
| `ServeList`, `ListArrives`, `ListFails`, `Retry` | the list queries |
| `Server` | the actions of Files for what was sent, and deletes by somebody else |

**DeckEdit** (`DeckPage.tsx`, `VesselContext.tsx`, `useSaveLayout`, `store/vessel.go`): editors
with a cached layout per vessel, a draft, and one PUT each.

| Action | Code |
|---|---|
| `EnterEdit`, `CancelEdit`, `ResetEdit` | the functions of these names; `Clone` is `clone` |
| `AddWinch`, `AddStorage`, `RemoveSel`, `Drag`, `SetStation`, `Rename`, `UseAuto`, `StepDrums` | the controls, with `renumberAuto` (`RenumberAuto`) where the code calls it; all work while a save is pending |
| `Save` → `SaveCommits` / `SaveFails` → `SaveSucceeds` / `SaveErrors` | doSave and useSaveLayout; the PUT names the vessel selected at the click, `onSuccess` seeds the one selected at the answer, and the answer may be lost after the commit |
| `Refused`, `Dropped`, `Adjusted`, `Saved` | SaveLayout as one step: what it refuses, what it deletes, and that the UPDATE of a winch asks for the vessel while adjustDrums does not |
| `FetchWinches`, `FetchStores`, `FetchArrives` | GetLayout's snapshots, and the answer that replaces the cached layout; `Ordered` is its ORDER BY |
| `SwitchVessel` | VesselSwitcher |

**Ropes** (`AddLineDialog.tsx`; `MovePicker`, `AssignPicker` and `isAssignable` of
`WinchPanel.tsx`; `useRegisterLine`, `useMoveLine`): each opened dialog is a `Flow`, with what
it is for and how far it has come; `shown` is the dialog a browser displays, which is another
matter. `OpenDialog`, `Close`, `Leave` are the user and the browser; `PickTarget`, `PickLine`,
`SubmitRegister` the buttons; `RegisterArrives`, `MoveArrives`, `RequestFails` the server and the
network; `Relayout` a layout save by anybody, which adds and removes positions (`deck`) and takes
the place of a line that a move has put there; `RegisterAnswered`, `RegisterErrs`, `MoveAnswered`, `MoveErrs` what follows each await.
`CloseAny` is `onClose()` after the awaits of `submit`; `CloseOwn` the `onSuccess` of a picker,
which TanStack Query drops with the component.

**ClientCache** (`api/hooks.ts`, `queryClient.ts`, `features/*/api.ts`, `useTurnLine.ts`,
`router.tsx`, `vite.config.ts`, `CataloguePage.tsx`). Data is how many of the browser's own
writes the server had executed when it was read. `Shows`, `Invalidates`, `Offered` are tables
of the code: which page has which queries, which mutation invalidates which, and when its
button is enabled; `Changes` says what a mutation changes on the server, and `LeftToAge` which
of that no code invalidates. `GoTo`, `Age`, `Collect`, `Serve`, `FetchFails`, `Deliver` are the
life of the one query that is followed; `FromCache`, `Revalidate`, `RevalidateFails`, `Store`,
`Expire` the service worker; `Submit`, `Execute`, `Fails`, `Succeed` a mutation with its
`onSuccess` (`Seeded`, `Invalidated`). `owed`, history, is the latest answered write the query has
to show, and is never lowered; `raced`, history, says that an answer has overtaken another
(`Overtaken`: an older response is on its way and nothing cancels its fetch, or an older save's
layout replaces a newer one) and the query has not been asked for since.

**SignIn** (`RequireAuth.tsx`, `AuthProvider.tsx`, `httpapi/auth.go`, `store/auth.go`). Tabs
share the cookies `state` and `session`; `attempts` is what each tab keeps in sessionStorage,
a list of ages, oldest first, which recentAttempts filters (`Aged`).

| Action | Code |
|---|---|
| `Check`, `Refetch` | the session query, and the effect of RequireAuth (`Guard`) that it runs |
| `TryAgain`, `Visit`, `Logout` | the button of the error screen, opening the app, handleLogout (either of its two effects, deleted row and cleared cookie, may be missing) |
| `Login`, `LoginFails` | handleLogin: CreateFlow and the state cookie |
| `SentBack`, `Declined` | the identity provider |
| `Callback` | handleCallback: the comparison with the cookie it came with, TakeFlow (`Taken`), flowTTL (`Expired`), the exchange, CreateSession. `Revisit` opens its URL again; `Leave` abandons a callback the server may still handle |
| `GrowsOld`, `Ends`, `Tick` | flowTTL, the end of a session, WINDOW_MS |

**Access** (`httpapi/authmw.go`, `auth/groups.go`, `httpapi/access.go`, `PermissionsPage.tsx`,
`WriteGuard.tsx`). `ReadSession`, `ReadUser`, `ReadGrants` are resolveSession, `Resolve` is
`auth.Resolve`, the last also decides as AuthMiddleware does; `ReadFails` is an error of any of
the three, answered 401 like a missing session; `LogIn` rewrites the groups
(UpsertUserByOIDC). `stood`, history, is how the user stood at each instant of the request (a
stranger, barred, a writer); `moved` and `torn` say that a login or logout made untrue what had
been read, and that after it something changed that was still to be read. `AdmitChange` and
`ServeChange` are requireAdmin and the write that follows it. `Choose` is onMutate, `Succeeds` and `Errs` are onSuccess, onError and
onSettled; `ServeList`, `ListArrives`, `ListFails`, `Reload` the groups query, whose groups
without a grant are there or not as the identity provider answers.

**MCPlacement, MCTurning, MCInspections, MCFilesTab, MCDeckEdit, MCRopes, MCClientCache,
MCSignIn, MCAccess** give the constants their values. **PlacementProofs, TurningProofs,
InspectionsProofs, FilesProofs, RopesProofs, SignInProofs, AccessProofs** and
**BrowserProofs** (DeckEdit and ClientCache) hold the theorems. An inductive invariant that no
run checks is defined next to its proof.

**How far the client's modules abstract.** DeckEdit reduces `x` to the side of the deck and
a winch's drums and lines to how many drum rows it has and the highest that holds a line,
and derives names up to nine of a place (beyond, `ORDER BY label` is not the array's order). Its saves, and Ropes'
requests, are atomic: overlaps are Placement's subject, and what Ropes' `Relayout` may do to a
line is what Placement shows (`UnmovedStays`, `OccupiedStays`). Access and FilesTab leave the
service worker, and FilesTab the first load of its lists, to ClientCache. A behaviour of
Access follows the page or the user who writes, a behaviour of FilesTab uses one of the two
forms, a behaviour of ClientCache follows one query: each pair shares no state but what the
model keeps (grants may change in all of them).

## 3. What is assumed of the environment

Postgres is modelled from how the code relies on it. In short: a statement sees what was
committed when it began, plus its own transaction's writes; an UPDATE or DELETE waits for
the row's lock and then acts on the new version, and one that finds no row locks nothing; a
unique index makes an insert wait for an
uncommitted entry of the same key; a foreign key makes an update of the referring column
lock the row it names, and a DELETE wait for such locks, and `ON DELETE SET NULL` finds the
referring rows with a fresh snapshot; of a circle of waiting transactions one is aborted
(`Deadlocked`, over the wait-for relation `Blockers`). Rollback is complete. The object
store keeps what a successful Put stored, and a failed Put or Remove may have taken effect.
uuid v7 ids increase in the order they are taken (one server process). A crash of the
server is, for the database, the rollback of every open transaction, which is what a
`Cancel` of each does; for files it matters where it stops, and `Cancel` is a step between
each two effects there.

The network loses requests and answers: each request of the client's modules may fail
before the server acts, or after. Browsers may be closed at any time (Ropes), tabs may
leave a page at any time (SignIn). TanStack Query 5, Workbox's StaleWhileRevalidate and the
identity provider are modelled from how the code uses them: a mutation's own `onSuccess`
runs even if its component is gone, a callback given to `mutate` does not; `invalidateQueries`
refetches what is shown, and cancels a running fetch only if the query has data;
`setQueryData` cancels nothing; the service worker answers from its cache if it can, asks
the server meanwhile, and stores answers in the order they come.

**Fairness.** In Placement and Inspections `FairSpec` is weak fairness of the step of each
request that is open: a handler that has begun is scheduled by the Go runtime, and a
statement that nothing blocks returns, a deadlock being resolved after `deadlock_timeout`.
Nothing is assumed about new requests coming, about cancellation, or about which of
several enabled statements is first. Turning and Files state no liveness: turns wait only
for one row (no circle), and uploads wait for nobody.

In ClientCache fetches end (weak fairness of `Fetch`, `Deliver` and `Store`), and a server
that is asked again and again answers at last (strong fairness of `Serve` and `Revalidate`,
which an unlucky network may disable by failing instead). No user has to visit a page:
`EventuallyShown` has the premise that the query is fetched again and again. In SignIn the
session query, the login request and the callback are answered, one way or another; neither
the user nor the identity provider has to act.

## 4. The runs

Passing runs check the whole model, with errors, cancellations and stops at every point.

| Run | Instance (bounds) | Checks |
|---|---|---|
| `placement_race` | two vessels; two lines, on the drums or registered without a place, a winch of two drums on one vessel, a storage location on the other; two moves and a save, of either vessel, that may keep, shrink or remove anything or cross; `FairSpec`; 155k states | `OneLinePerDrum`, `OwnVessel`, `PlacesExist`, `OutboxTracksPlacement`, `IInv`, `AtomicSpec`, `UnmovedStays`, `EveryRequestEnds` |
| `placement_edit` | two vessels; one line, perhaps not registered yet, a winch, and a winch and a storage location that a save may add; a move, a registration and two saves, of either vessel, up to two drums; lines registered as ordered; two connections, so two at a time; 924k | `TypeOK`, `DrumsMatchCount`, `PlacedLifecycle`, `SaveApplied` |
| `turning_race` | one line (installed today, later, or at an unknown date; not turnable; no side), three turns, five days, a request stays open over at most one midnight; 15k | `TypeOK`, `HistoryExplainsLine`, `AgeCovered`, `DueInTime`, `FreshTurnAges` |
| `inspections_deliver` | one line, one external id, two deliveries and a manual inspection, any status and any order of `inspected_at`, `FairSpec`; 310k | `ExternalOnce`, `DeliveryRecorded`, `StatusFollowsEvents`, `ReportMatchesLine`, `RepeatChangesNothing`, `EveryRequestEnds` |
| `files_race` | two photos or two documents to upload, two files on disk, three deletes, by the page or by others; 510k | `RowsHaveObject`, `FailedIsKept`, `ToldIsShown` |
| `deck_edit` | two vessels, one of them with two winches and a storage location, one line; two editors, one of whom makes one change and may switch vessels; two saves, one fetch; 493k | `AutoNamesFollowPlace`, `AddedOnce`, `DrumsKept`, `ShownStays` |
| `ropes` | two browsers, two dialogs of any kind, two lines, a drum that a save may add, a storage location; layout saves at any time; 1.7M | `NeverHalfPlaced`, `SavedAsSpare` |
| `cache` | two pages, saves and inspections, two writes, the layout or the logbook, with and without the service worker, `FairSpec`; 531k | `OwnWritesShown`, `EventuallyShown` |
| `signin` | two tabs, two flows in use at once, MAX_ATTEMPTS 3, cookies stored or refused, `FairSpec`; 311k | `TypeOK`, `FlowOnce`, `RefusedForAReason`, `SignInSettles` |
| `access` | two groups, two changes at a time, another administrator; 1.4M | `DecidedAsAtOnce`, `SettledShows` |
| `placement_occupied` | one move, one save | `OccupiedStays` is **violated** |
| `turning_frozen` | two turns | `OutOfServiceFrozen` is **violated** |

What the properties mean is in the comment above each. What they are for:

- `OneLinePerDrum` needs two moves that both read an empty drum and update in either
  order, including a swap, where each waits for the entry the other vacates.
- `PlacesExist` and `OccupiedStays` are the two sides of one race. A position may go while
  a move onto it is between its SELECT and its UPDATE (the foreign key catches it), or
  between its UPDATE and the save's DELETE (the referential action catches the line, and
  the line loses its place). `UnmovedStays` is what is left of the check: it does protect
  a line that nobody moves.
- `DrumsMatchCount` rests on one fact not stated in the code: adjustDrums lists drums after
  the UPDATE that locks the winch. Read before the lock, one editor removes drums that the
  other's count includes, or misses drums it should remove. A save of another vessel takes
  no lock on the winch and leaves its count: of such a winch only the first two conjuncts
  hold, no idx twice (by the unique index) and no drum without its winch. `SaveApplied`
  exempts the same, by name.
- `SaveApplied` says what the rollback must guarantee when a later winch of the save fails.
- `OutboxTracksPlacement` and `StatusFollowsEvents` hold because the event's id is taken
  after the row is locked, so ids order the row's versions.
- `HistoryExplainsLine` and `AgeCovered` are what is left of correct turning when turns
  overlap: no day is lost, some may be counted twice. `FreshTurnAges` says that
  only a turn that overtakes another is wrong. `DueInTime` is what they are for: the days
  credited to a side may be wrong, but a line whose last recorded turn is an interval ago is
  reported due. It needs the row lock, without which a turn that commits late
  leaves the row of another than the last recorded one, and the clamp, without which turns
  that commit in another order than their dates, or before installation, leave a negative age.
- `DeliveryRecorded` and `RepeatChangesNothing` are what an at-least-once sender needs: an
  acknowledged inspection is there, and a late repetition does not revert the status a
  later inspection has set.
- `FailedIsKept` and `ToldIsShown` hold though a photo is uploaded twice by two clicks, a
  delete may find nothing, and lists arrive late. The first exempts a form that was
  changed while its upload was under way, which the code really clears (section 6).
- `ShownStays` and `DrumsKept` say what saving a whole draft may and may not destroy. Two
  things are legitimate in this design and make both hard to state: a symbol that was added
  after the draft was taken is removed (the user was never shown it), and a draft saved on
  another vessel than its own (`Crossing`) is another matter, which `DrumsKept` exempts by
  name. It is also why `AddedOnce` holds when the answer of a save is lost and the draft,
  whose new symbols have no ids, is saved again: the second save removes what the first
  one added.
- `NeverHalfPlaced` and `SavedAsSpare` are what the comments of AddLineDialog promise, with
  the dialog closed, submitted again with another serial number, and answers lost. The
  first exempts, by name, a line whose move succeeded and whose position a layout save then
  removed (the race of `placement_occupied`); the dialog can do nothing about that.
- `OwnWritesShown` speaks of the latest write the user was told of. What it exempts is narrow
  and stated on the code's events (`Overtaken`), and ends with the next fetch; without
  either disjunct of `Overtaken` TLC finds it violated. It is
  false with a service worker, by design of stale-while-revalidate;
  `EventuallyShown` is what remains of it, and fails for a cache that is asked first and not
  revalidated.
- `RefusedForAReason` lists the only reasons a callback may be refused for. `SignInSettles`
  needs the attempt to be counted before the redirect and kept in the tab.
- `DecidedAsAtOnce` is not trivial because three reads could decide by a state that never
  was. It tells a 403 (a session without the right) from a 401 (no session) and both from a
  permission, and holds through any one change between the reads, of the session, the user
  or a grant; only two that follow each other, the first of what was read and the second of
  what was not yet, can defeat it, and are exempted by name (`torn`). Of a failed
  read, which is answered 401 too, it says nothing.
- `SettledShows` holds although rollbacks overwrite each other, because every settlement
  fetches again.

**Why the bounds are enough.** Every conflict on the server is between two transactions over
one row, index entry or reference; a third one can only be queued behind, or come in
between (`placement_race` has three; `placement_edit` has four, two of them open at once). A circle of waits needs
two. Two winches, or a winch and a storage location, distinguish "this one" from "another one";
two drums on one winch let adjustDrums keep one and remove one. Two vessels are enough for a
save to be of the wrong one, in each order with a save of the right one (`placement_edit`)
and with moves (`placement_race`). Days matter only by their difference: a day before, on, and after
each change date fits in five. `SeedRows` are rows as the seeder, CreateLine and moves
leave them. `MaxDrums` is 2 in place of 6 (1 in `placement_occupied`), and `Chosen` has one of the
statuses a line may be registered with: none of them stops a move.

In the browser two saves let an answer be lost and the draft saved again, or two editors
interleave; two dialogs let one close the other; two writes let an older answer come
after a newer one; two uploads let one succeed and clear the form of the other; two tabs
share a cookie. One edit reaches every editing action, before or after either save (with
`MaxEdits` 2 and `MaxFetches` 0 the properties hold too, in 942k states). Queries do not interact,
so following one is enough, and the two followed stand for those a mutation invalidates or
seeds (`layout`) and those left to age (`logbook`). Three attempts are the code's; a window
of one tick makes them expire between any two steps. Flows, and so sessions, are reused
once nothing refers to them. `Followed` and `Used` (Access, FilesTab) only keep apart what does
not interact.

Symmetry is declared where no liveness is checked and the seeds are symmetric: turns,
dialogs, browsers and lines of Ropes, groups and changes of Access, files and requests of
FilesTab. `CHECK_DEADLOCK FALSE` is set for Turning, where days are bounded, and for the
client's modules, whose users may have nothing left to do within the bounds; Placement and
Inspections say explicitly that all requests have finished (`Finished`), so TLC would
report a standstill there. Type invariants are stated where they say something of the code:
columns within their CHECK, ages that are never negative, attempts within the budget.

## 5. The proofs

The proof modules are checked by TLAPS (Z3, Zenon, LS4), for every finite or infinite
set of lines, winches, storage locations, requests, files, writes, browsers, tabs, dialogs,
groups and changes, any number of vessels, and any connection pool, under the named assumption of the
module only (identifiers of different kinds differ, ids belong to one vessel and one
creator, and seeds are well formed); TLC evaluates that assumption in every run. Each
inductive invariant was checked by TLC on the instance of the run before it was proved.

**PlacementProofs**

- `TypeCorrect`: `Spec => []TypeOK` (inductive on its own: `TypesInductive`).
- `Invariant`: `Spec => []IInv`, from `SafeInductive`.
- `DrumsExclusive`, `NoDanglingPlace`, `StaysAboard`, `LifecycleFollowsPlace`,
  `CountsMatch`, `ReplayIsFaithful`: `OneLinePerDrum`, `PlacesExist`, `OwnVessel`,
  `PlacedLifecycle`, `DrumsMatchCount` and `OutboxTracksPlacement` follow.
- `SaveTakesEffect`, `UnmovedKeepsPlace`: the action properties `SaveApplied` and
  `UnmovedStays`.
- `Atomicity`: `Spec => AtomicSpec`, the refinement of AtomicPlacement.

None of these is inductive: each is about committed rows, and a commit publishes what a
transaction prepared many steps before. `IInv` adds what an open transaction may rely on
at each of its stages (besides its check in `placement_race`, TLC has checked it on the instance of
`placement_edit`, where saves of two vessels overlap and a line is registered):

- `RowLocks`: one transaction at most has written a row, so the committed row it read when
  it wrote is still there when it commits;
- `MoverRows`, `RegistrarRows`, `SaverRows`: what exactly it has written;
- `KeyHeld`: past the index check of drum *d*, no other move is past it for *d*, and no
  other line is committed there. A save cannot disturb this, as it only takes lines away;
- `RefHeld`: past the reference check the target exists and no save has deleted it, unless
  the line was there before. That exception is real: an UPDATE that does not change the
  column checks nothing, and then it is the save's own `SetNull` that must wait for the
  row (the mutant `SetNullNoWait` shows what happens if it does not);
- `SettledAtCommit`: a save about to commit has cleared every line on what it removes.

- `Layouts`: what a save may rely on of the winches it goes through. Those of its own vessel it
  has locked, or they were removed and the save will fail (`Locked`, `LockedExist`); nobody else
  has (`HeldApart`). What it inserts, deletes and lists are drums of winches it went through or
  deleted (`DrumsClaimed`), what it removes is surplus (`SurplusOnly`), and on a winch it has
  locked, and no other vessel's save has crossed meanwhile, it sees or is about to insert one
  drum for every index it was asked for, and sees others only while they wait to be removed
  (`Adjusted`); past the winch loop it has gone through all (`AllSaved`). On a winch it has
  crossed it holds no lock, and what keeps drums apart there is the unique index: a drum
  inserted and not committed is the only one with its idx, and its winch cannot go
  (`BornAlone`, `Emptied`). Beside drums it touches nothing of another vessel (`SaveHome`,
  `Named`);
- `Unmoved`: a line nobody has moved is nowhere a save has removed something, nor where it
  has looked and is about to. The occupancy check establishes this, and only a move could
  disturb it;
- `Outbox`: a move takes its event id while it holds the row, so after the events of all
  that moved the row before (`EventOrder`), and positions are made once (`MadeOnce`).

The proof has one lemma per action and conjunct it can disturb; the interesting ones are
the commits. A mover's commit uses `KeyHeld` for `OneLinePerDrum` and `RefHeld` for
`PlacesExist`; a saver's uses `SettledAtCommit` and `SaverRows` there, and `Adjusted` with
`AllSaved` for `DrumsMatchCount`. In the refinement a commit is the abstract step of the
same request, and every other step leaves the committed tables alone; that the abstract
relayout takes off only lines whose position it removes is `SaverRows`, and that the storage
locations it changes are of its own vessel is `SaveHome`.

**TurningProofs**: `TurningInvariant` (`Spec => []IInv`), and from it `TurningTypes`
(`TypeOK`), `EventExplains` (`HistoryExplainsLine`), `NoDayLost` (`AgeCovered`), `DueIsReported`
(`DueInTime`: the last event dates the change of the side in service, and accumulated ages are
never negative) and `FreshTurnsAge` (`FreshTurnAges`). A
turn commits from a row it read without a lock, so `SeenBefore` says what stays true of it:
it was covered (`Covered`: its ages reach up to the day its side entered service), and its
ages have only grown since; that is why two turns that both freeze a side count days twice
and lose none (`TurnedCovered`). `LineLock` and `EventOrder` order the events: the turn that
holds the row took its outbox id after all that are done, so its side is what the last event
says. `FreshTurnsAge` is the refinement of SideAge: `Timely` says that a request's date is
not before what it read and at most `Late` days old, and then a commit of a row nobody
changed moves at most `Late` days from one side to the other (`CommitTurns`), a midnight
adds one to the side in service (`TickPasses`), and every other step stutters.

**InspectionsProofs**: `InspectionsInvariant` (`Spec => []IInv`), and from it `RecordedOnce`
(`ExternalOnce`), `AcknowledgedIsRecorded` (`DeliveryRecorded`), `EventsExplainStatus`
(`StatusFollowsEvents`), `ReportAgrees` (`ReportMatchesLine`) and the action property
`RepeatHarmless` (`RepeatChangesNothing`). `KeyOnce` is the unique index on external_id over
rows inserted and not yet committed, which is what a second delivery waits for; `Answers`
ties the answer of a delivery to the row it found; `LineLock` and `EventOrder` are as in
Turning. Here the requests are finitely many, for the range of `inspected_at` only.

**FilesProofs**: `FilesInvariant` (`Spec => []IInv`) and `NoDanglingFile`
(`RowsHaveObject`). A row names an object; only Purge removes objects, and only of a file
whose row is gone; `UploadedOnce` says why the row cannot come back (its one upload is
over), and `ObjectWaits` that a file between Put and Add has its object.
For the page over it, `TabUsesFiles` (`TabSpec => Spec`: what the page sends is what Files
allows, so its theorems hold here), `TabInvariant` (`TabSpec => []TabInv`), `FailedFileKept`
(`FailedIsKept`) and `AnswersShow` (`ToldIsShown`). A failed file is lost only if the form
changes: `FormHolds` says who may have cleared it, and `ClearsItsOwn` why a success clears no
file but its own and those that were parted from the form. A list shows what the page was
told because an answer cancels the fetch that is under way: `ToldTheTruth` ties each answer to
what the server did, `VictimsGone` says that a deleted row never returns, and `ListsAgree`
that both an answer on its way and a list at rest agree with everything told so far.

**RopesProofs**: `RopesInvariant` (`Spec => []IInv`), and from it `SparesUntilPlaced`
(`NeverHalfPlaced`) and `ToldTruthfully` (`SavedAsSpare`). Both are about what two requests
of one dialog did, with other dialogs in between. `IInv` says what a dialog relies on after
each await: `Asked` and `AsksForSpare`, what its pending request asks for (its line and place
cannot change under it: a form that is not shown is not edited); `RegisteredIsSaved`, that
from the answer to its registration on its line exists and is a spare without a place
unless somebody has moved it; `ToldInForm` and `ToldWhenPlacing`, that an error belongs to
the attempt it is about. The lemmas go by what a step does to a dialog: opened
(`OpenRopes`), submitted (`SubmitRopes`), served (`RegisterRopes`, `MoveRopes`), advanced
(`StageRopes`), ended (`EndRopes`), or sent back to its form with an error (`ErrorRopes`).
A registration keeps `RegisteredIsSaved` because its line did not exist, so that no dialog
has been told of it.

**BrowserProofs**, of DeckEdit: `DeckInvariant` (`Spec => []IInv`), and from it
`NamesFollowAlways` (`AutoNamesFollowPlace`), `AddedOnceAlways` (`AddedOnce`) and the action
properties `DrumsKeptAlways` (`DrumsKept`) and `ShownStaysAlways` (`ShownStays`). A save writes
a draft, and the draft is a copy of a copy: of what a fetch read, or an answer brought, of a
layout that an earlier save wrote, perhaps of another vessel. So the invariant speaks of every
copy there is, on the server, in caches, drafts, requests, answers and half-done fetches
(`Decks`, `Shelves`, `Seen`), and of any two of them:

- each is in order by itself: a symbol is there once, derived names follow places
  (`DecksGood`, `ShelvesGood`, `ListsListed`);
- `KindsApart`: a symbol that is a winch in one is a storage
  location in none;
- `Homes`: two that have a saved id in common are of the same vessel. This is what a crossing
  save needs: it finds nothing of its draft on the vessel, so all it writes is new there, and
  it deletes nothing of any other vessel;
- `Numbered`, `PutsOwn`: no id has the number of a save that has yet to reach the server, so
  what that save inserts is nowhere, not even in a copy of a save whose answer was lost;
- `ShownKept`: what a user was shown is in the draft or was removed from it, which is all
  that `ShownStays` needs.

The steps fall into three kinds. Most only carry copies from place to place (`Carried`,
`CarriedKeeps`); an edit changes one draft, by at most one symbol that is nowhere yet
(`UserEdits`, `NewSymbol`, `EditKeeps`); a save that commits puts ids of its own on one vessel
(`SavedFrom`, `StoredGood`, `CommitKeeps`). `Spread` is the argument the last two share.
`Renumbered` is what renumberAuto does for a list of any length: it keeps places and ids, and
two winches of one place get different numbers because the set of those counted grows. That
`ORDER BY` has a result to return is `SortedExists`, by well-founded induction on subsets.

**BrowserProofs**, of ClientCache: `CacheInvariant` (`CacheSpec => []CacheInv`) and `WritesShow`
(`OwnWritesShown`). Unless an answer overtook another, what a query owes the user is in its
data, in an answer on its way that was read late enough (`AnswerPays`), or to be had by
asking again, since the server has it (`Payable`) and data that lacks it never counts as
fresh while nothing is under way (`FreshPays`). The tables of invalidated queries enter in one lemma: `NothingForgotten` says
that what a mutation changes and that is not left to age is invalidated or seeded, for
each mutation and query of the code.

**SignInProofs**: `SignInInvariant` (`Spec => []IInv`), and from it `SessionOnce`
(`FlowOnce`) and the action property `UndisturbedNotRefused` (`RefusedForAReason`).
`RowMeansUnmade` carries the first: a login with a row has made no session, and the one
DELETE ... RETURNING that makes it a session takes the row. The second rests on what stays
with a login nothing has disturbed (`Undisturbed`): its row is fresh, the browser's cookie
names it, and the callback brought that cookie; `OneCarries` says that it is in one tab only,
so that no other tab's callback can take its row without disturbing it. `AttemptsLimited`
(`TypeOK`) bounds the redirects within a window by MAX_ATTEMPTS: an attempt is recorded only
below the limit, and ageing only shortens the list (`AgedShrinks`).

**AccessProofs**: `AccessInvariant` (`Spec => []IInv`), and from it `DecidesAsAtOnce`
(`DecidedAsAtOnce`) and `QuietPageShows` (`SettledShows`). `ReadHolds` says that what a
request has read of session and user still holds, so that its last read decides by what is
true at that instant, or that it held at an instant together with all that is still to be
read, so that the request is decided as at that instant; `ResolveEdit` shows that
`auth.Resolve` gives edit exactly to an administrator or the member of a group that may
edit. `AnswerShows` says the same of a list on its way: taken after the last change by others
and with no change of the page pending, it is the grants as they are when it arrives. The
other way for the page to come to rest, a change that settles, starts a fetch, so rest
always ends in such an arrival.

## 6. Where the code and its words differ

Checked by a run each:

- **A layout save can take a position from under a line** (`placement_occupied`,
  `store/vessel.go:232`). Occupancy is checked, then the row is deleted; a move that commits
  in between is undone by `ON DELETE SET NULL`, and leaves an `active` line with no place. The
  comment at `store/vessel.go:185-186` says the save refuses to remove an occupied position.
  `UnmovedStays` (`placement_race`) shows the check is right for lines that are not moved
  meanwhile.
- **Overlapping turns age the side out of service** (`turning_frozen`, `store/turn.go:30`).
  Both read side A and both add A's days, the second after A has left service; two
  turns also end on B as one would. `domain/derive.go:30-31`: "Age accrues only on the side in
  use".

Seen while modelling, without a run of their own. On the server:

- A line that was never turned is never due (`domain/derive.go:34`): the reported age counts
  from the change date, which is not set until the first turn, while the turn itself
  counts from installation. `DueInTime` therefore speaks of lines once turned.
- An UPDATE of a storage location another save has removed touches no row, and the save
  answers success without it (`store/vessel.go:257`); the same save of a removed winch
  fails, on the foreign key of its drums. `SaveStore` and `SaveWinch` model both.
- A layout saved with winches of another vessel (`store/vessel.go:195-216`; the deck editor can
  send one, see below) leaves their rows alone, as the UPDATE asks for the vessel, takes no lock
  on them, and changes their drums all the same, as adjustDrums does not ask. `drum_count` is
  then no longer the number of drums, and a drum of that winch may be removed while a save of
  its own vessel counts on it. Placement has such saves; `DrumsMatchCount`, `SaveApplied` and,
  in DeckEdit, `DrumsKept` exempt them by name.
- A line that loses its place to `ON DELETE SET NULL` is in no outbox event: the one event of
  the save names the vessel (`store/vessel.go:286`). A consumer that replays the events has
  such a line still at the removed position, which `OutboxTracksPlacement` exempts.
- TurnLine never asks whether the line is installed, though `store/turn.go:9-10` says so.
- A back-dated inspection sets the line's status, while the condition report shows the one
  with the latest `inspected_at`; `ReportMatchesLine` therefore has the premise that
  inspections come in order (`seed/seed.go:204` says the two match).
- DeletePhoto writes no outbox event (`store/files.go:100`), nor do CreateVessel and the
  catalogue; `0001_init.up.sql:22` says every operational mutation does.
- An upload whose row fails, or a delete whose Remove fails, leaves its object in the
  bucket; nothing collects it.
- Expired login flows are never deleted, and sessions have no end.
- A grant is stored with the case of the id in the path, while the list of groups is in lower
  case (`httpapi/access.go`).
- A request whose session is deleted, or whose user logs in with other groups, between
  the reads of resolveSession, and then a second change before the last of them, may be
  decided by a state that never was (`torn`).
- `docs/authentication.md:12-14` and `105-113` say that only administrators may write and that
  every other user's mutation gets 403. The code lets the members of a group with an `edit`
  grant write (`auth/groups.go`, migration 0010); Access has the code's rule.
- A read of session, user or grants that fails, say because the database does not answer, is
  answered 401 "authentication required" (`httpapi/authmw.go:108-121`, `72-76`), as if the user
  had no session.

In the deck editor and the dialogs:

- A save replaces the whole layout: what another editor has added since the draft was taken
  is removed. What the user changes while the save is pending is thrown away with the
  draft (`DeckPage.tsx:88`).
- The vessel can be switched while a draft is open: the save then names the new vessel and
  carries the symbols of the old one; the answer of a save seeds the cache of the vessel
  selected when it comes (`api/hooks.ts:176`).
- With ten winches of one place `ORDER BY label` puts the tenth second, and the next change
  renumbers winches nobody touched.
- AssignPicker offers what a cached list says is spare or stored; a rope put on a drum since is
  taken off it. `onClose()` after the awaits of AddLineDialog closes whichever dialog is
  open; cancelling the dialog does not stop it from registering and placing. After a failed
  placement the form can only be submitted with another serial number. "Saved as a spare" is
  wrong if the move took effect and its answer was lost; `SavedAsSpare` exempts that.

In the caches:

- With the service worker a refetch after a mutation brings back what was there before it,
  and `/api/health` is answered from the cache, so that the badge shows "online" offline.
- `setQueryData` after a save is meant to close a window in which the view falls back to the
  stale layout (`api/hooks.ts:171-174`); a fetch already under way overwrites the seed, and
  the late answer of an older save replaces a newer layout. Both are `Overtaken`.
- An invalidation does not cancel a first load, nor the fetch of a query that is not shown;
  the old result then counts as fresh.
- Products and line types created in the catalogue are not invalidated under the keys the
  register page and dialog use; a move or a save does not invalidate the line, and nothing
  invalidates the overview and the logbook.

In the other pages:

- Files: two clicks while a file is read upload it twice; a success clears what has been
  chosen since; a file that cannot be read and a delete that finds nothing (404) show
  no error, and the photo of the second stays listed until the list is fetched again.
- Sign-in: of two tabs that log in at once the first to return fails with `state_mismatch` and
  clears the cookie of the second. Any answer of the session endpoint but 200 is taken
  for signed out. The third attempt within the window blocks without a redirect
  (`RequireAuth.tsx:100`), so MAX_ATTEMPTS allows two; a loop slower than the window is
  never stopped; `?auth_error=` stays in the URL, so a reload shows the error again.
- Permissions: a group set to "denied" whose name cannot be fetched disappears from the list
  and cannot be granted again from there.

The seeded `turn_event` rows need not agree with the seeded `current_side`, which is why
Turning begins from rows as CreateLine leaves them.

## 7. Only model-checked

Liveness (`EveryRequestEnds`, `EventuallyShown`, `SignInSettles`) is out of the prover's reach
(fairness and ENABLED) and stays with TLC, as do the two runs that show a violation. Every
invariant, action property and refinement that a passing run checks has a theorem. The
inductive invariants of the modules other than Placement are proved and not checked by a run.

## 8. Not modelled, and why

- **Scope guard**: a comparison of the request's vessel with a configured one; no state.
- **OIDC client, token encryption**: an external protocol and cryptography; SignIn takes
  their results as given.
- **Catalogue on the server, CreateVessel**: single inserts of rows nobody updates or deletes.
  The catalogue's client is in ClientCache.
- **GetLayout's snapshots of drums and occupancy**: the editor saves neither.
- **Overview, reports, routing, seed, configuration, migrations, drawing and formatting,
  generated types**: queries, formatting and start-up over rows the other modules keep.
  `api/schema.ts`, a third of the client's lines, is generated.
- **Sync worker**: described in `docs/architecture.md`, absent from the code.
- **Coordinates, labels as text, certificates, product data**: columns no guard reads.
- **Retries**: each is a request of its own in the server's modules; the client's modules
  have them as the code makes them (a fetch is tried twice, a mutation once).

## 9. Plan

Done: Placement with AtomicPlacement; Turning with SideAge; Inspections; Files with FilesTab
over it; DeckEdit; Ropes; ClientCache; SignIn; Access; and the proofs of all of them.

Models that could still be added: the worst-status roll-up of the dashboard as an operator
against a reference definition; a composition of DeckEdit with Placement in place of the
atomic save; a sync worker, when there is one.
