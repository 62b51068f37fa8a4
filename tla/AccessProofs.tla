---------------------------- MODULE AccessProofs ----------------------------
(***************************************************************************)
(* How requests are decided and what the page of the grants shows, for any *)
(* number of groups and of changes at a time.                              *)
(***************************************************************************)
EXTENDS Access, TLAPS

Lists == [Group -> Level \cup {"absent"}]

Fetch == [phase : {"none", "sent", "read", "refused"}, got : Lists \cup {None}]

Pending == [phase : {"sent", "admitted", "done", "failed"}, group : Group,
            level : Level, prev : Lists]

Types ==
  /\ grants \in [Group -> Level]
  /\ user \in User
  /\ live \in BOOLEAN /\ moved \in BOOLEAN /\ torn \in BOOLEAN
  /\ request \in [phase : {"idle", "sent", "session", "user", "granted"} \cup Refusal,
                  user : User \cup {None}]
  /\ request.phase = "user" => request.user \in User
  /\ list \in [data : Lists \cup {None}, error : BOOLEAN, fetch : Fetch]
  /\ change \in [Change -> {Idle} \cup Pending]

\* What the request has read is still so; or something of it has changed, but
\* nothing since, and just before it was as the request will see it.
ReadHolds ==
  ~torn =>
  /\ request.phase = "session" => IF moved THEN Standing(TRUE, user, grants) \in stood ELSE live
  /\ request.phase = "user" => IF moved THEN Standing(TRUE, request.user, grants) \in stood
                               ELSE live /\ request.user = user

\* A behaviour follows the user or the page, and the other has nothing under way.
Apart ==
  /\ request.phase # "idle" => follows = "user"
  /\ follows = "user" => /\ list.data = None /\ list.fetch.phase = "none"
                         /\ \A c \in Change : change[c] = Idle

\* A list that shows the grants as they are.
Shows(rows) ==
  \A g \in Group : rows[g] = grants[g] \/ (rows[g] = "absent" /\ grants[g] = "denied")

Quiet == \A c \in Change : change[c] = Idle

\* An answer on its way, taken since the last change made elsewhere, is the list
\* as it is, unless a change of this page is pending.
AnswerShows ==
  Quiet /\ list.fetch.phase = "read" /\ "fetch" \in fresh => Shows(list.fetch.got)

IInv == Types /\ Apart /\ ReadHolds /\ DecidedAsAtOnce /\ AnswerShows /\ SettledShows

-----------------------------------------------------------------------------

\* A user may edit exactly when an administrator or granted it by some group.
LEMMA ResolveEdit ==
  ASSUME grants \in [Group -> Level], NEW u \in User
  PROVE  (Resolve(u) = "edit" <=> Standing(TRUE, u, grants) = "writer")
         /\ Standing(TRUE, u, grants) \in {"writer", "barred"}
<1> DEFINE Highest(level) ==
      /\ level = "denied" \/ \E g \in u.groups : grants[g] = level
      /\ \A g \in u.groups : Rank[grants[g]] <= Rank[level]
<1>1. Rank["denied"] = 0 /\ Rank["view"] = 1 /\ Rank["edit"] = 2
  BY DEF Rank, Level
<1>2. u.groups \subseteq Group
  BY DEF User
<1>3. \A g \in u.groups : grants[g] \in {"denied", "view", "edit"}
  BY <1>2 DEF Level
<1>4. CASE u.admin
  BY <1>4 DEF Resolve, Standing
<1>5. CASE ~u.admin /\ \E g \in u.groups : grants[g] = "edit"
  <2>1. Highest("edit")
    BY <1>1, <1>3, <1>5
  <2>2. \A level \in Level : Highest(level) => level = "edit"
    BY <1>1, <1>5 DEF Level
  <2>3. Resolve(u) = CHOOSE level \in Level : Highest(level)
    BY <1>5 DEF Resolve
  <2> HIDE DEF Highest
  <2>4. Resolve(u) = "edit"
    BY <2>1, <2>2, <2>3 DEF Level
  <2> QED  BY <1>5, <2>4 DEF Standing
<1>6. CASE ~u.admin /\ ~\E g \in u.groups : grants[g] = "edit"
  <2>1. Highest("view") \/ Highest("denied")
    BY <1>1, <1>3, <1>6
  <2>2. ~Highest("edit")
    BY <1>6
  <2>3. Resolve(u) = CHOOSE level \in Level : Highest(level)
    BY <1>6 DEF Resolve
  <2> HIDE DEF Highest
  <2>4. Resolve(u) # "edit"
    BY <2>1, <2>2, <2>3 DEF Level
  <2> QED  BY <1>6, <2>4 DEF Standing
<1> QED  BY <1>4, <1>5, <1>6

\* At the start nothing is asked and nothing is shown.
LEMMA InitAccess == Init => IInv
<1> SUFFICES ASSUME Init PROVE IInv
  OBVIOUS
<1>1. Levels \subseteq Level
  BY FollowedAssumption DEF Levels
<1>2. grants \in [Group -> Level] /\ user \in User /\ live \in BOOLEAN
  BY <1>1 DEF Init, User
<1>3. NoFetch \in Fetch /\ [NoFetch EXCEPT !.phase = "sent"] \in Fetch
  BY DEF NoFetch, Fetch
<1>4. list \in [data : Lists \cup {None}, error : BOOLEAN, fetch : Fetch]
  BY <1>3 DEF Init
<1>5. Types
  BY <1>2, <1>4 DEF Init, Types, Idle
<1>6. Apart /\ ReadHolds /\ DecidedAsAtOnce /\ AnswerShows /\ SettledShows
  BY DEF Init, Apart, NoFetch, ReadHolds, DecidedAsAtOnce, AnswerShows, SettledShows, Idle
<1> QED  BY <1>5, <1>6 DEF IInv

-----------------------------------------------------------------------------
(* The user who writes.                                                    *)

Writes ==
  Session \/ (\E guarded \in BOOLEAN : Send(guarded)) \/ ReadSession \/ ReadUser \/ ReadGrants
    \/ ReadFails \/ Finish \/ LogIn \/ LogOut

\* The requests are well formed.
LEMMA WritesTypes == ASSUME Types, Writes PROVE Types'
<1>1. UNCHANGED <<grants, list, change>>
  BY DEF Writes, Session, Send, ReadSession, ReadUser, ReadGrants, ReadFails, Finish, LogIn,
         LogOut, page
<1>2. user' \in User /\ live' \in BOOLEAN /\ moved' \in BOOLEAN /\ torn' \in BOOLEAN
  BY DEF Types, Writes, Session, Send, ReadSession, ReadUser, ReadGrants, ReadFails, Finish,
         LogIn, LogOut
<1> DEFINE Requests == [phase : {"idle", "sent", "session", "user", "granted"} \cup Refusal,
                        user : User \cup {None}]
<1>3. request' \in Requests /\ (request'.phase = "user" => request'.user \in User)
  <2>0. request \in Requests /\ (request.phase = "user" => request.user \in User)
    BY DEF Types
  <2>1. CASE Session \/ LogIn \/ LogOut
    BY <2>0, <2>1 DEF Session, LogIn, LogOut
  <2>2. CASE Finish \/ \E guarded \in BOOLEAN : Send(guarded)
    BY <2>2 DEF Finish, Send, Idle
  <2>3. CASE ReadSession
    BY <2>0, <2>3 DEF ReadSession, Refusal
  <2>4. CASE ReadUser
    BY <2>0, <2>4 DEF ReadUser, Types
  <2>5. CASE ReadGrants \/ ReadFails
    BY <2>0, <2>5 DEF ReadGrants, ReadFails, Refusal
  <2> QED  BY <2>1, <2>2, <2>3, <2>4, <2>5 DEF Writes
<1> QED  BY <1>1, <1>2, <1>3 DEF Types

\* A request reads one thing after the other and decides by what it has read,
\* which holds at that moment, or did just before the one change since.
LEMMA WritesKeeps ==
  ASSUME Types, ReadHolds, DecidedAsAtOnce, Writes
  PROVE  ReadHolds' /\ DecidedAsAtOnce'
<1> DEFINE Now == Standing(live, user, grants)
<1>1. CASE Session
  BY <1>1 DEF Session, ReadHolds, DecidedAsAtOnce
<1>2. CASE Finish \/ ReadFails \/ \E guarded \in BOOLEAN : Send(guarded)
  <2>1. request'.phase \in {"idle", "sent", "failed"}
    BY <1>2 DEF Finish, ReadFails, Send, Idle, Types
  <2> QED  BY <2>1 DEF ReadHolds, DecidedAsAtOnce
<1>3. CASE ReadSession
  <2>1. /\ request.phase = "sent" /\ UNCHANGED <<user, live, grants, moved, torn>>
        /\ request'.phase = IF live THEN "session" ELSE "unauthenticated"
        /\ Now \in stood'
    BY <1>3 DEF ReadSession, Watch, Types, Decided, Refusal
  <2>2. ~live => "stranger" \in stood'
    BY <2>1 DEF Standing
  <2>3. live => Standing(TRUE, user, grants) \in stood'
    BY <2>1 DEF Types
  <2> QED  BY <2>1, <2>2, <2>3 DEF ReadHolds, DecidedAsAtOnce
<1>4. CASE ReadUser
  <2>1. /\ request.phase = "session" /\ request' = [phase |-> "user", user |-> user]
        /\ UNCHANGED <<user, live, grants, moved, torn>>
        /\ stood \subseteq stood'
    BY <1>4 DEF ReadUser, Watch, Decided, Refusal
  <2> QED  BY <2>1 DEF ReadHolds, DecidedAsAtOnce
<1>5. CASE ReadGrants
  <2>1. /\ request.phase = "user" /\ UNCHANGED <<user, live, grants, moved, torn>>
        /\ request'.phase = IF Resolve(request.user) = "edit" THEN "granted" ELSE "forbidden"
        /\ Now \in stood' /\ stood \subseteq stood'
    BY <1>5 DEF ReadGrants, Watch, Types, CanWrite, Decided, Refusal
  <2>2. SUFFICES ASSUME ~torn  PROVE ReadHolds' /\ DecidedAsAtOnce'
    BY <2>1 DEF ReadHolds, DecidedAsAtOnce
  <2>3. request.user \in User /\ Standing(TRUE, request.user, grants) \in stood'
    <3>1. CASE moved
      BY <2>1, <2>2, <3>1 DEF ReadHolds, Types
    <3>2. CASE ~moved
      <4>1. live = TRUE /\ request.user = user
        BY <2>1, <2>2, <3>2 DEF ReadHolds, Types
      <4> QED  BY <2>1, <4>1 DEF Types
    <3> QED  BY <3>1, <3>2
  <2>4. /\ Resolve(request.user) = "edit" <=> Standing(TRUE, request.user, grants) = "writer"
        /\ Standing(TRUE, request.user, grants) \in {"writer", "barred"}
    BY <2>3, ResolveEdit DEF Types
  <2> QED  BY <2>1, <2>3, <2>4 DEF ReadHolds, DecidedAsAtOnce
<1>6. CASE LogIn \/ LogOut
  <2>1. /\ request' = request /\ UNCHANGED grants
        /\ torn => torn'
        /\ moved => moved'
    <3>1. CASE LogIn
      BY <3>1, Zenon DEF LogIn
    <3>2. CASE LogOut
      BY <3>2, Zenon DEF LogOut
    <3> QED  BY <1>6, <3>1, <3>2
  <2>2. /\ request.phase \in {"session", "user"} => Now \in stood' /\ stood \subseteq stood'
        /\ request.phase \in {"granted"} \cup Refusal => stood' = stood
    BY <1>6, <2>1 DEF LogIn, LogOut, Watch, Decided, Refusal
  <2>3. DecidedAsAtOnce'
    BY <2>1, <2>2 DEF DecidedAsAtOnce, Refusal
  <2>4. ASSUME ~torn', request.phase = "session"
        PROVE  IF moved' THEN Standing(TRUE, user', grants) \in stood' ELSE live'
    <3>1. CASE moved
      <4>1. Standing(TRUE, user, grants) \in stood /\ user' = user
        BY <1>6, <2>1, <2>4, <3>1 DEF ReadHolds, LogIn, LogOut
      <4> QED  BY <2>1, <2>2, <2>4, <3>1, <4>1
    <3>2. CASE ~moved
      <4>1. live = TRUE
        BY <2>1, <2>4, <3>2 DEF ReadHolds, Types
      <4>2. CASE LogIn
        BY <2>4, <3>2, <4>1, <4>2 DEF LogIn, Idle
      <4>3. CASE LogOut
        BY <2>2, <2>4, <4>1, <4>3 DEF LogOut
      <4> QED  BY <1>6, <4>2, <4>3
    <3> QED  BY <3>1, <3>2
  <2>5. ASSUME ~torn', request.phase = "user"
        PROVE  IF moved' THEN Standing(TRUE, request.user, grants) \in stood'
               ELSE live' /\ request.user = user'
    <3>1. CASE moved
      BY <2>1, <2>2, <2>5, <3>1 DEF ReadHolds
    <3>2. CASE ~moved
      <4>1. live = TRUE /\ request.user = user
        BY <2>1, <2>5, <3>2 DEF ReadHolds, Types
      <4>2. Standing(TRUE, request.user, grants) \in stood'
        BY <2>2, <2>5, <4>1
      <4>3. ~moved' => live' /\ request.user = user'
        BY <1>6, <2>5, <3>2, <4>1 DEF LogIn, LogOut, Idle
      <4> QED  BY <4>2, <4>3
    <3> QED  BY <3>1, <3>2
  <2> QED  BY <2>1, <2>3, <2>4, <2>5 DEF ReadHolds
<1> QED  BY <1>1, <1>2, <1>3, <1>4, <1>5, <1>6 DEF Writes

-----------------------------------------------------------------------------
(* The page.                                                               *)

\* Steps of the page and the server that handle its requests.
Shown ==
  Reload \/ ServeList \/ ListArrives \/ ListFails
    \/ \E c \in Change : \/ \E g \in Group, level \in Levels : Choose(c, g, level)
                         \/ AdmitChange(c) \/ ServeChange(c) \/ Succeeds(c) \/ Errs(c)

\* The lists and the changes are well formed.
LEMMA ShownTypes == ASSUME Types, Shown PROVE Types'
<1>1. UNCHANGED <<user, live, request, moved, torn>>
  BY DEF Shown, Reload, ServeList, ListArrives, ListFails, Choose, AdmitChange, ServeChange,
       Succeeds, Errs, writing
<1>2. NoFetch \in Fetch /\ Refetch \in Fetch
  BY DEF NoFetch, Refetch, Fetch
<1>3. Idle.phase = "idle"
  BY DEF Idle
<1>4. CASE Reload \/ ServeList \/ ListArrives \/ ListFails
  <2>1. UNCHANGED <<grants, change>>
    BY <1>4 DEF Reload, ServeList, ListArrives, ListFails
  <2>2. CASE Reload
    BY <1>1, <1>2, <2>1, <2>2 DEF Reload, Types
  <2>3. CASE ServeList
    <3>1. ASSUME NEW named \in BOOLEAN
          PROVE  [g \in Group |-> IF grants[g] = "denied" /\ ~named
                                  THEN "absent" ELSE grants[g]] \in Lists
      BY DEF Types, Lists
    <3>2. PICK fetch : /\ list' = [list EXCEPT !.fetch = fetch]
                       /\ \/ fetch = [list.fetch EXCEPT !.phase = "refused"]
                          \/ \E got \in Lists : fetch = [phase |-> "read", got |-> got]
      BY <2>3, <3>1 DEF ServeList
    <3>3. fetch \in Fetch
      BY <3>2 DEF Types, Fetch
    <3> QED  BY <1>1, <2>1, <3>2, <3>3 DEF Types
  <2>4. CASE ListArrives
    <3>1. list' = [data |-> list.fetch.got, error |-> FALSE, fetch |-> NoFetch]
      BY <2>4 DEF ListArrives
    <3>2. list.fetch.got \in Lists \cup {None}
      BY DEF Types, Fetch
    <3> QED  BY <1>1, <1>2, <2>1, <3>1, <3>2 DEF Types
  <2>5. CASE ListFails
    BY <1>1, <1>2, <2>1, <2>5 DEF ListFails, Types
  <2> QED  BY <1>4, <2>2, <2>3, <2>4, <2>5
<1>5. ASSUME NEW c \in Change, NEW g \in Group, NEW level \in Levels, Choose(c, g, level)
      PROVE  Types'
  <2>1. level \in Level
    BY FollowedAssumption DEF Levels
  <2>2. list.data \in Lists
    BY <1>5 DEF Choose, Types
  <2>3. [list.data EXCEPT ![g] = level] \in Lists
    BY <2>1, <2>2 DEF Lists
  <2>4. list' = [data |-> [list.data EXCEPT ![g] = level], error |-> FALSE, fetch |-> NoFetch]
    BY <1>5 DEF Choose
  <2>5. [phase |-> "sent", group |-> g, level |-> level, prev |-> list.data] \in Pending
    BY <2>1, <2>2 DEF Pending
  <2>6. change' \in [Change -> {Idle} \cup Pending] /\ UNCHANGED grants
    BY <1>5, <2>5 DEF Choose, Types
  <2> QED  BY <1>1, <1>2, <2>3, <2>4, <2>6 DEF Types
<1>6. ASSUME NEW c \in Change, AdmitChange(c) \/ ServeChange(c) PROVE Types'
  <2>1. change[c] \in Pending /\ UNCHANGED list
    BY <1>3, <1>6 DEF AdmitChange, ServeChange, Types
  <2>2. change[c].level \in Level
    BY <2>1 DEF Pending
  <2>3. grants' \in [Group -> Level]
    BY <1>6, <2>2 DEF AdmitChange, ServeChange, Types
  <2>4. \A phase \in {"admitted", "done", "failed"} :
          [change[c] EXCEPT !.phase = phase] \in Pending
    BY <2>1 DEF Pending
  <2>5. \E phase \in {"admitted", "done", "failed"} :
          change' = [change EXCEPT ![c] = [change[c] EXCEPT !.phase = phase]]
    BY <1>6 DEF AdmitChange, ServeChange, Types
  <2>6. change' \in [Change -> {Idle} \cup Pending]
    BY <2>4, <2>5 DEF Types
  <2> QED  BY <1>1, <2>1, <2>3, <2>6 DEF Types
<1>7. ASSUME NEW c \in Change, Succeeds(c) \/ Errs(c) PROVE Types'
  <2>1. change' \in [Change -> {Idle} \cup Pending] /\ UNCHANGED grants
    BY <1>7 DEF Succeeds, Errs, Types
  <2>2. CASE Succeeds(c)
    BY <1>1, <1>2, <2>1, <2>2 DEF Succeeds, Types
  <2>3. CASE Errs(c)
    <3>1. change[c] \in Pending
      BY <1>3, <2>3 DEF Errs, Types
    <3>2. change[c].prev \in Lists
      BY <3>1 DEF Pending
    <3>3. list' = [data |-> change[c].prev, error |-> FALSE, fetch |-> Refetch]
      BY <2>3 DEF Errs
    <3> QED  BY <1>1, <1>2, <2>1, <3>2, <3>3 DEF Types
  <2> QED  BY <1>7, <2>2, <2>3
<1> QED  BY <1>4, <1>5, <1>6, <1>7 DEF Shown

\* What the page relies on.
PageHolds == AnswerShows /\ SettledShows

\* The end of a change asks for the list again, and no list is taken for quiet
\* while a change is pending.
LEMMA ShownKeeps ==
  ASSUME Types, PageHolds, Shown, Types'
  PROVE  PageHolds'
<1>1. Refetch.phase = "sent" /\ NoFetch.phase = "none" /\ Idle.phase = "idle"
  BY DEF Refetch, NoFetch, Idle
<1>2. SUFFICES ASSUME Quiet' PROVE PageHolds'
  BY DEF PageHolds, AnswerShows, SettledShows, Quiet
<1>3. CASE Reload \/ \E c \in Change : Succeeds(c) \/ Errs(c)
  <2>1. list'.fetch = Refetch
    BY <1>3 DEF Reload, Succeeds, Errs, Types
  <2> QED  BY <1>1, <2>1 DEF PageHolds, AnswerShows, SettledShows
<1>4. CASE \E c \in Change : \/ AdmitChange(c) \/ ServeChange(c)
                           \/ \E g \in Group, level \in Levels : Choose(c, g, level)
  <2>1. PICK c \in Change : \/ AdmitChange(c) \/ ServeChange(c)
                           \/ \E g \in Group, level \in Levels : Choose(c, g, level)
    BY <1>4
  <2>2. change'[c].phase \in {"sent", "admitted", "done", "failed"}
    <3>1. CASE AdmitChange(c) \/ ServeChange(c)
      <4>1. change[c] \in Pending
        BY <1>1, <3>1 DEF AdmitChange, ServeChange, Types
      <4> QED  BY <3>1, <4>1 DEF AdmitChange, ServeChange, Types, Pending
    <3>2. CASE \E g \in Group, level \in Levels : Choose(c, g, level)
      BY <3>2 DEF Choose, Types
    <3> QED  BY <2>1, <3>1, <3>2
  <2> QED  BY <1>1, <1>2, <2>2 DEF Quiet
<1>5. CASE ServeList
  <2>1. Quiet /\ UNCHANGED grants
    BY <1>2, <1>5 DEF ServeList, Quiet
  <2>2. PICK named \in BOOLEAN :
          list' = [list EXCEPT !.fetch =
                     IF admin
                     THEN [phase |-> "read",
                           got |-> [g \in Group |-> IF grants[g] = "denied" /\ ~named
                                                    THEN "absent" ELSE grants[g]]]
                     ELSE [@ EXCEPT !.phase = "refused"]]
    BY <1>5 DEF ServeList
  <2>3. list'.fetch.phase \in {"read", "refused"}
        /\ (list'.fetch.phase = "read" => Shows(list.fetch.got)')
    <3>1. CASE admin
      <4> DEFINE rows == [g \in Group |-> IF grants[g] = "denied" /\ ~named
                                         THEN "absent" ELSE grants[g]]
      <4>1. list'.fetch = [phase |-> "read", got |-> rows]
        BY <2>2, <3>1 DEF Types
      <4>2. \A g \in Group : rows[g] = grants[g] \/ (rows[g] = "absent" /\ grants[g] = "denied")
        OBVIOUS
      <4> HIDE DEF rows
      <4> QED  BY <2>1, <4>1, <4>2 DEF Shows
    <3>2. CASE ~admin
      BY <2>2, <3>2 DEF Types, Fetch
    <3> QED  BY <3>1, <3>2
  <2> QED  BY <1>1, <2>3 DEF PageHolds, AnswerShows, SettledShows
<1>6. CASE ListArrives
  <2>1. /\ Quiet /\ list.fetch.phase = "read" /\ UNCHANGED grants
        /\ list' = [data |-> list.fetch.got, error |-> FALSE, fetch |-> NoFetch]
        /\ "list" \in fresh' => "fetch" \in fresh
    BY <1>2, <1>6 DEF ListArrives, Quiet
  <2>2. "list" \in fresh' => Shows(list.data)'
    BY <2>1 DEF PageHolds, AnswerShows, Shows
  <2> QED  BY <1>1, <2>1, <2>2 DEF PageHolds, AnswerShows, SettledShows, Shows
<1>7. CASE ListFails
  <2>1. list'.error = TRUE /\ list'.fetch = NoFetch
    BY <1>7 DEF ListFails, Types
  <2> QED  BY <1>1, <2>1 DEF PageHolds, AnswerShows, SettledShows
<1> QED  BY <1>3, <1>4, <1>5, <1>6, <1>7 DEF Shown

-----------------------------------------------------------------------------
(* Both together.                                                          *)

\* A grant changes elsewhere: what was read of session and user still holds.
LEMMA ElsewhereKeeps ==
  ASSUME IInv, Elsewhere
  PROVE  Types' /\ ReadHolds' /\ DecidedAsAtOnce' /\ PageHolds'
<1> USE DEF IInv
<1>1. /\ UNCHANGED <<list, change, user, live, request, moved>> /\ fresh' = {}
      /\ torn' = (torn \/ (request.phase \in {"session", "user"} /\ moved))
      /\ request.phase \in {"granted"} \cup Refusal => stood' = stood
  BY DEF Elsewhere, Watch, Decided, Refusal, Types, Idle
<1>2. Levels \subseteq Level
  BY FollowedAssumption DEF Levels
<1>3. Types'
  BY <1>1, <1>2 DEF Elsewhere, Types
<1>4. ReadHolds' /\ DecidedAsAtOnce'
  <2>1. ReadHolds'
    BY <1>1 DEF ReadHolds
  <2>2. DecidedAsAtOnce'
    BY <1>1 DEF DecidedAsAtOnce, Refusal
  <2> QED  BY <2>1, <2>2
<1>5. AnswerShows' /\ SettledShows'
  BY <1>1 DEF AnswerShows, SettledShows
<1> QED  BY <1>3, <1>4, <1>5 DEF PageHolds

\* Nothing is sent on the side that is not followed.
LEMMA NextApart ==
  ASSUME Types, Apart, [Next]_vars
  PROVE  Apart'
<1>0. Idle.phase = "idle" /\ NoFetch.phase = "none"
  BY DEF Idle, NoFetch
<1>1. CASE Writes
  <2>1. UNCHANGED <<follows, list, change>>
    BY <1>1 DEF Writes, Session, Send, ReadSession, ReadUser, ReadGrants, ReadFails, Finish, LogIn,
                LogOut, page
  <2>2. request'.phase # "idle" => request.phase # "idle" \/ follows = "user"
    BY <1>0, <1>1 DEF Writes, Session, Send, ReadSession, ReadUser, ReadGrants, ReadFails, Finish,
                      LogIn, LogOut
  <2> QED  BY <2>1, <2>2 DEF Apart
<1>2. CASE Shown
  <2>1. UNCHANGED <<follows, request>>
    BY <1>2 DEF Shown, Reload, ServeList, ListArrives, ListFails, Choose, AdmitChange, ServeChange,
                Succeeds, Errs, writing
  <2>2. ~(follows = "user")
    <3> SUFFICES ASSUME follows = "user"  PROVE FALSE
      OBVIOUS
    <3>1. /\ list.data = None /\ list.fetch.phase = "none"
          /\ \A c \in Change : change[c].phase = "idle"
      BY <1>0 DEF Apart
    <3> QED  BY <1>2, <3>1 DEF Shown, Reload, ServeList, ListArrives, ListFails, Choose,
                               AdmitChange, ServeChange, Succeeds, Errs
  <2> QED  BY <2>1, <2>2 DEF Apart
<1>3. CASE Elsewhere \/ Position \/ UNCHANGED vars
  <2>1. UNCHANGED <<follows, request, list, change>>
    BY <1>3 DEF Elsewhere, Position, vars, writing
  <2> QED  BY <2>1 DEF Apart
<1> QED  BY <1>1, <1>2, <1>3 DEF Next, Writes, Shown

\* Every step keeps the invariant.
LEMMA NextAccess == IInv /\ [Next]_vars => IInv'
<1> SUFFICES ASSUME IInv, [Next]_vars PROVE IInv'
  OBVIOUS
<1> USE DEF IInv
<1>1. ASSUME UNCHANGED <<grants, list, change, fresh>> PROVE PageHolds'
  BY <1>1 DEF PageHolds, AnswerShows, SettledShows, Quiet, Shows
<1>a. Apart'
  BY NextApart
<1>2. ASSUME UNCHANGED <<user, live, request, stood, moved, torn>>,
             UNCHANGED grants \/ request.phase = "idle"
      PROVE  ReadHolds' /\ DecidedAsAtOnce'
  <2>1. DecidedAsAtOnce'
    BY <1>2 DEF DecidedAsAtOnce
  <2>2. CASE UNCHANGED grants
    BY <1>2, <2>1, <2>2 DEF ReadHolds
  <2>3. CASE request.phase = "idle"
    BY <1>2, <2>1, <2>3 DEF ReadHolds
  <2> QED  BY <1>2, <2>2, <2>3
<1>3. CASE Writes
  <2>1. UNCHANGED <<grants, list, change, fresh>>
    BY <1>3 DEF Writes, Session, Send, ReadSession, ReadUser, ReadGrants, ReadFails, Finish,
         LogIn, LogOut,
                page
  <2> QED  BY <1>1, <1>3, <2>1, <1>a, WritesTypes, WritesKeeps DEF PageHolds
<1>4. CASE Shown
  <2>1. UNCHANGED <<user, live, request, stood, moved, torn>>
    BY <1>4 DEF Shown, Reload, ServeList, ListArrives, ListFails, Choose, AdmitChange,
         ServeChange, Succeeds,
                Errs, writing
  <2>2. UNCHANGED grants \/ request.phase = "idle"
    <3>1. CASE \E c \in Change : ServeChange(c)
      <4>1. PICK c \in Change : change[c].phase = "admitted"
        BY <3>1 DEF ServeChange
      <4> QED  BY <4>1 DEF Apart, Idle
    <3>2. CASE ~\E c \in Change : ServeChange(c)
      BY <1>4, <3>2 DEF Shown, Reload, ServeList, ListArrives, ListFails, Choose, AdmitChange,
                        Succeeds, Errs
    <3> QED  BY <3>1, <3>2
  <2> QED  BY <1>2, <1>a, <1>4, <2>1, <2>2, ShownTypes, ShownKeeps DEF PageHolds
<1>5. CASE Position \/ UNCHANGED vars
  <2>1. UNCHANGED <<grants, user, live, request, stood, moved, torn, list, change, fresh>>
    BY <1>5 DEF Position, vars, writing
  <2>2. Types'
    BY <2>1 DEF Types
  <2> QED  BY <1>1, <1>2, <1>a, <2>1, <2>2 DEF PageHolds
<1> QED  BY <1>3, <1>4, <1>5, <1>a, ElsewhereKeeps DEF PageHolds, Next, Writes, Shown

\* What a request has read and what the page shows, in every reachable state.
THEOREM AccessInvariant == Spec => []IInv
BY InitAccess, NextAccess, PTL DEF Spec

\* The server decides as if it had looked at session, user and grants at once,
\* except where two changes fall between its reads: a logout or login that makes
\* what it has read untrue, then one of what it has yet to read.
THEOREM DecidesAsAtOnce == Spec => []DecidedAsAtOnce
<1>1. IInv => DecidedAsAtOnce
  BY DEF IInv
<1> QED  BY <1>1, AccessInvariant, PTL

\* However many changes are saved, fail and roll back at once, the quiet page
\* shows the grants.
THEOREM QuietPageShows == Spec => []SettledShows
<1>1. IInv => SettledShows
  BY DEF IInv
<1> QED  BY <1>1, AccessInvariant, PTL
=============================================================================
