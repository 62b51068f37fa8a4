------------------------------- MODULE Access -------------------------------
(***************************************************************************)
(* Access control: how the server decides a request from the session, the  *)
(* user and the grants (api/internal/httpapi/authmw.go, auth/groups.go,    *)
(* httpapi/access.go), and the page on which an administrator changes the  *)
(* grants (web/src/features/permissions/PermissionsPage.tsx).              *)
(*                                                                         *)
(* One administrator has the page open, one user sends write requests, and *)
(* other administrators change grants elsewhere. The user's groups come    *)
(* from the identity provider at each login. The service worker, which may *)
(* put an older list in place of an answer, is left to ClientCache.        *)
(***************************************************************************)
EXTENDS Integers, FiniteSets

CONSTANTS
  Group,
  Change,    \* bound: changes of grants the page has pending at once
  Followed,  \* bound: a behaviour follows one of these, "page" or "user"
  Used,      \* bound: the levels in use while the page is followed
  None

Level == {"denied", "view", "edit"}

ASSUME FollowedAssumption ==
  Followed \subseteq {"page", "user"} /\ Used \subseteq Level /\ None \notin Level

VARIABLES
  follows,  \* what this behaviour follows
  grants,   \* group_access: the level of each group, "denied" without a row
  admin,    \* is the page's user an administrator
  \* The user who writes, and the request under way.
  user,     \* app_user: position and groups
  live,     \* auth_session has the session that the user's cookie names
  known,    \* the level of the last session answer, in the browser
  request,
  stood,    \* history: how the user stood, at each instant since it was sent
  moved,    \* history: a login or logout has changed what it had read
  torn,     \* history: and then something changed that it had yet to read
  \* The page.
  list,     \* the groups query: each group's level, or that it is "absent"
  change,   \* the mutations of the rows
  fresh     \* history: the lists taken since the last change made elsewhere

vars == <<follows, grants, admin, user, live, known, request, stood, moved, torn,
          list, change, fresh>>
writing == <<user, live, known, request, stood, moved, torn>>
page == <<admin, list, change, fresh>>

-----------------------------------------------------------------------------
(* Permissions.                                                            *)

Rank == [level \in Level |-> CASE level = "denied" -> 0
                               [] level = "view" -> 1
                               [] level = "edit" -> 2]

\* auth.Resolve: an administrator may edit, everyone else has the highest level
\* granted to one of their groups.
Resolve(u) ==
  IF u.admin THEN "edit"
  ELSE CHOOSE level \in Level :
         /\ \/ level = "denied"
            \/ \E g \in u.groups : grants[g] = level
         /\ \A g \in u.groups : Rank[grants[g]] <= Rank[level]

\* No request, no mutation.
Idle == [phase |-> "idle", user |-> None]

NoFetch == [phase |-> "none", got |-> None]

User == [admin : BOOLEAN, groups : SUBSET Group]

Levels == IF follows = "page" THEN Used ELSE Level

Init ==
  /\ follows \in Followed
  /\ grants \in [Group -> Levels]
  /\ admin = TRUE
  /\ user = [admin |-> FALSE, groups |-> {}]
  /\ live = FALSE
  /\ known = "denied"
  /\ request = Idle
  /\ stood = {} /\ moved = FALSE /\ torn = FALSE
  /\ list = [data |-> None, error |-> FALSE,
             fetch |-> IF follows = "page" THEN [NoFetch EXCEPT !.phase = "sent"] ELSE NoFetch]
  /\ change = [c \in Change |-> Idle]
  /\ fresh = {}

-----------------------------------------------------------------------------
(* The user who writes.                                                    *)

\* What the right to write is, in so many words, and who is refused for what.
Standing(session, u, granted) ==
  IF ~session THEN "stranger"
  ELSE IF u.admin \/ \E g \in u.groups : granted[g] = "edit" THEN "writer"
  ELSE "barred"

\* A 403, whether the level is "denied" or "view"; a 401 without a session; a 401
\* as well when a read fails, whoever asks.
Refusal == {"forbidden", "unauthenticated", "failed"}

Decided == request.phase \in Refusal \cup {"granted"}

\* The history sees every instant the request lives through.
Watch ==
  stood' = IF request'.phase = "idle" THEN {}
           ELSE IF Decided THEN stood
           ELSE stood \cup {Standing(live, user, grants), Standing(live', user', grants')}

\* /auth/session is asked again: its three reads are taken at once, nothing is
\* decided by them.
Session ==
  /\ live
  /\ known' = Resolve(user)
  /\ UNCHANGED <<follows, grants, page, user, live, request, stood, moved, torn>>

\* A button inside a WriteGuard is offered to those who may write. (Others are
\* offered to everyone, and answered by the server alone.)
Send(guarded) ==
  /\ follows = "user" /\ request = Idle
  /\ guarded => known = "edit"
  /\ request' = [Idle EXCEPT !.phase = "sent"]
  /\ UNCHANGED <<follows, grants, page, user, live, known, moved, torn>>
  /\ Watch

\* resolveSession: the session, ...
ReadSession ==
  /\ request.phase = "sent"
  /\ request' = [request EXCEPT !.phase = IF live THEN "session" ELSE "unauthenticated"]
  /\ UNCHANGED <<follows, grants, page, user, live, known, moved, torn>>
  /\ Watch

\* ... the user, ...
ReadUser ==
  /\ request.phase = "session"
  /\ request' = [phase |-> "user", user |-> user]
  /\ UNCHANGED <<follows, grants, page, user, live, known, moved, torn>>
  /\ Watch

CanWrite(level) == level = "edit"

\* Mutant: permissions are cached, the grants are not read again.
ReadGrantsCached ==
  /\ request.phase = "user"
  /\ request' = [request EXCEPT !.phase = IF CanWrite(known) THEN "granted" ELSE "forbidden"]
  /\ UNCHANGED <<follows, grants, page, user, live, known, moved, torn>>
  /\ Watch

\* ... and the grants, by which AuthMiddleware decides.
ReadGrants ==
  /\ request.phase = "user"
  /\ request' = [request EXCEPT !.phase = IF CanWrite(Resolve(request.user))
                                          THEN "granted" ELSE "forbidden"]
  /\ UNCHANGED <<follows, grants, page, user, live, known, moved, torn>>
  /\ Watch

\* One of the three reads fails.
ReadFails ==
  /\ request.phase \in {"sent", "session", "user"}
  /\ request' = [request EXCEPT !.phase = "failed"]
  /\ UNCHANGED <<follows, grants, page, user, live, known, moved, torn>>
  /\ Watch

\* The request is answered, by its handler or with the refusal.
Finish ==
  /\ Decided
  /\ request' = Idle
  /\ moved' = FALSE /\ torn' = FALSE
  /\ UNCHANGED <<follows, grants, page, user, live, known>>
  /\ Watch

\* UpsertUserByOIDC and CreateSession, in this browser or another. A request that
\* is under way was sent with the cookie of before.
LogIn ==
  /\ follows = "user"
  /\ user' \in User
  /\ live' \in IF request = Idle THEN {live, TRUE} ELSE {live}
  /\ moved' = (moved \/ (request.phase = "user" /\ user' # request.user))
  /\ torn' = (torn \/ (request.phase = "session" /\ moved /\ user' # user))
  /\ UNCHANGED <<follows, grants, page, known, request>>
  /\ Watch

\* DeleteSession.
LogOut ==
  /\ live
  /\ live' = FALSE
  /\ moved' = (moved \/ request.phase \in {"session", "user"})
  /\ UNCHANGED <<follows, grants, page, user, known, request, torn>>
  /\ Watch

-----------------------------------------------------------------------------
(* The page.                                                               *)

\* invalidateQueries and refetch replace a fetch that is under way.
Refetch == [NoFetch EXCEPT !.phase = "sent"]

\* "Reload groups", Retry.
Reload ==
  /\ follows = "page"
  /\ list' = [list EXCEPT !.fetch = Refetch]
  /\ UNCHANGED <<follows, grants, writing, admin, change, fresh>>

\* GET /access/groups. A group without a grant is on the list when the names of
\* the teams could be fetched.
ServeList ==
  /\ list.fetch.phase = "sent"
  /\ \E named \in BOOLEAN :
       list' = [list EXCEPT !.fetch =
                  IF admin
                  THEN [phase |-> "read",
                        got |-> [g \in Group |-> IF grants[g] = "denied" /\ ~named
                                                 THEN "absent" ELSE grants[g]]]
                  ELSE [@ EXCEPT !.phase = "refused"]]
  /\ fresh' = fresh \cup {"fetch"}
  /\ UNCHANGED <<follows, grants, writing, admin, change>>

ListArrives ==
  /\ list.fetch.phase = "read"
  /\ list' = [data |-> list.fetch.got, error |-> FALSE, fetch |-> NoFetch]
  /\ fresh' = IF "fetch" \in fresh THEN {"list"} ELSE {}
  /\ UNCHANGED <<follows, grants, writing, admin, change>>

\* It is refused, fails or is lost: what was loaded stays.
ListFails ==
  /\ list.fetch.phase # "none"
  /\ list' = [list EXCEPT !.error = TRUE, !.fetch = NoFetch]
  /\ UNCHANGED <<follows, grants, writing, admin, change, fresh>>

\* onMutate: a fetch is cancelled, the list is remembered, the row is changed.
\* The select of a row is disabled while its mutation is pending, until the page
\* is left and opened again.
Choose(c, g, level) ==
  /\ list.data # None
  /\ list.data[g] \notin {"absent", level}
  /\ change[c] = Idle
  /\ change' = [change EXCEPT ![c] = [phase |-> "sent", group |-> g, level |-> level,
                                      prev |-> list.data]]
  /\ list' = [data |-> [list.data EXCEPT ![g] = level], error |-> FALSE, fetch |-> NoFetch]
  /\ UNCHANGED <<follows, grants, writing, admin, fresh>>

\* requireAdmin, by the permissions that AuthMiddleware resolved, ...
AdmitChange(c) ==
  /\ change[c].phase = "sent"
  /\ change' = [change EXCEPT ![c].phase = IF admin THEN "admitted" ELSE "failed"]
  /\ UNCHANGED <<follows, grants, writing, admin, list, fresh>>

\* ... then the grant is written or deleted; the statement may fail.
ServeChange(c) ==
  /\ change[c].phase = "admitted"
  /\ \/ /\ grants' = [grants EXCEPT ![change[c].group] = change[c].level]
        /\ change' = [change EXCEPT ![c].phase = "done"]
     \/ /\ change' = [change EXCEPT ![c].phase = "failed"]
        /\ UNCHANGED grants
  /\ UNCHANGED <<follows, writing, admin, list, fresh>>

\* onSuccess and onSettled.
Succeeds(c) ==
  /\ change[c].phase = "done"
  /\ change' = [change EXCEPT ![c] = Idle]
  /\ list' = [list EXCEPT !.fetch = Refetch]
  /\ UNCHANGED <<follows, grants, writing, admin, fresh>>

\* Mutant: onSettled is forgotten here.
ErrsSilently(c) ==
  /\ change[c].phase # "idle"
  /\ change' = [change EXCEPT ![c] = Idle]
  /\ list' = [list EXCEPT !.data = change[c].prev, !.error = FALSE]
  /\ UNCHANGED <<follows, grants, writing, admin, fresh>>

\* onError and onSettled: the request failed, or its answer was lost, before or
\* after it was served. The whole list goes back to what it was.
Errs(c) ==
  /\ change[c].phase # "idle"
  /\ change' = [change EXCEPT ![c] = Idle]
  /\ list' = [data |-> change[c].prev, error |-> FALSE, fetch |-> Refetch]
  /\ UNCHANGED <<follows, grants, writing, admin, fresh>>

-----------------------------------------------------------------------------
(* The others.                                                             *)

\* Another administrator changes a grant, or the statement of a request runs
\* whose answer this page has given up.
Elsewhere ==
  /\ \E g \in Group, level \in Levels :
       grants[g] # level /\ grants' = [grants EXCEPT ![g] = level]
  /\ fresh' = {}
  /\ UNCHANGED <<follows, admin, list, change, user, live, known, request, moved>>
  /\ torn' = (torn \/ (request.phase \in {"session", "user"} /\ moved))
  /\ Watch

\* The page's user logs in with another position.
Position ==
  /\ follows = "page"
  /\ admin' = ~admin
  /\ UNCHANGED <<follows, grants, writing, list, change, fresh>>

Next ==
  \/ Session \/ \E guarded \in BOOLEAN : Send(guarded)
  \/ ReadSession \/ ReadUser \/ ReadGrants \/ ReadFails \/ Finish \/ LogIn \/ LogOut
  \/ Reload \/ ServeList \/ ListArrives \/ ListFails
  \/ \E c \in Change :
       \/ \E g \in Group, level \in Levels : Choose(c, g, level)
       \/ AdmitChange(c) \/ ServeChange(c) \/ Succeeds(c) \/ Errs(c)
  \/ Elsewhere \/ Position

Spec == Init /\ [][Next]_vars

-----------------------------------------------------------------------------
(* Properties.                                                             *)

\* The server decides as if it had looked at session, user and grants at once, at
\* some instant of the request: whom it lets write had a session and the right
\* then, whom it answers 403 had a session and not the right, and where it misses
\* the session there was none. (The right is an administrator's position or an
\* "edit" grant, as the code has it; docs/authentication.md knows administrators
\* only.) A change between its reads is never enough to make it decide by what
\* never was: exempt is a request for which two fall there, a logout or login
\* that makes what it has read untrue, and then one that changes what it has yet
\* to read. A read that fails says nothing of the user, though it is answered 401.
DecidedAsAtOnce ==
  ~torn => /\ request.phase = "granted" => "writer" \in stood
           /\ request.phase = "forbidden" => "barred" \in stood
           /\ request.phase = "unauthenticated" => "stranger" \in stood

\* Two rows may be saved at once, each with a snapshot of the whole list, fail
\* and roll back over each other; once all is quiet the page shows the grants,
\* unless its last fetch failed or somebody else has changed them since.
SettledShows ==
  (/\ list.fetch = NoFetch /\ ~list.error /\ list.data # None
   /\ \A c \in Change : change[c] = Idle
   /\ "list" \in fresh)
  => \A g \in Group : list.data[g] = grants[g] \/ (list.data[g] = "absent" /\ grants[g] = "denied")
=============================================================================
