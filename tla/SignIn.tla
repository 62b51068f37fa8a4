------------------------------- MODULE SignIn -------------------------------
(***************************************************************************)
(* Signing in and out in one browser: the route guard and its loop breaker *)
(* (web/src/app/auth/RequireAuth.tsx, AuthProvider.tsx) in several tabs,   *)
(* and the login, callback and logout handlers of the server               *)
(* (api/internal/httpapi/auth.go, store/auth.go).                          *)
(*                                                                         *)
(* The tabs share the cookies; the attempts of the loop breaker are kept   *)
(* per tab. A flow stands for its random state, and for the                *)
(* session that is made from it. The identity provider is external: it     *)
(* answers with a code or an error, or never.                              *)
(***************************************************************************)
EXTENDS Naturals, FiniteSets, Sequences

CONSTANTS
  Tab,
  Flow,         \* bound: logins under way or in use at once; reused after
  MaxAttempts,  \* MAX_ATTEMPTS
  Window,       \* WINDOW_MS, in ticks
  None

ASSUME BreakerAssumption ==
  /\ MaxAttempts \in Nat \ {0} /\ Window \in Nat \ {0}
  /\ None \notin Flow

VARIABLES
  keeps,     \* whether the browser stores the cookies of this site
  tab,       \* what each tab shows
  attempts,  \* sessionStorage of each tab: the ages of its logins, oldest first
  state,     \* the state cookie
  session,   \* the session cookie
  flows,     \* oidc_flow: the flows that have a row, fresh or too old
  sessions,  \* auth_session
  made,      \* history: sessions made from each flow
  smooth     \* history: the last flow, as long as nothing has disturbed it

vars == <<keeps, tab, attempts, state, session, flows, sessions, made, smooth>>
history == <<made, smooth>>
database == <<flows, sessions>>
cookies == <<state, session>>

\* auth_error: the callback is refused for its state (state_mismatch,
\* invalid_state, state_expired), or something else goes wrong (an error of the
\* identity provider, exchange_failed and what follows).
Error == {"refused", "failed"}

\* The app, loaded: with ?auth_error= or without. (A tab that is not
\* authenticated and does not redirect is blocked: it shows the error screen.)
Page(reason) ==
  [at |-> "app", status |-> "loading", reason |-> reason,
   flow |-> None, bound |-> None]

Init ==
  /\ keeps \in BOOLEAN
  /\ tab = [t \in Tab |-> Page(None)]
  /\ attempts = [t \in Tab |-> <<>>]
  /\ state = None
  /\ session = None
  /\ flows = [f \in Flow |-> "none"]
  /\ sessions = {}
  /\ made = [f \in Flow |-> 0]
  /\ smooth = None

-----------------------------------------------------------------------------
(* The route guard.                                                        *)

\* recentAttempts().length.
Recent(t) == Len(attempts[t])

\* Mutant: the attempt is recorded and not counted.
GuardUncounted(t) ==
  IF tab[t].reason # None
  THEN /\ tab' = [tab EXCEPT ![t].status = "unauthenticated"]
       /\ UNCHANGED attempts
  ELSE /\ attempts' = [attempts EXCEPT ![t] = IF Len(@) < MaxAttempts THEN Append(@, 0) ELSE @]
       /\ tab' = [tab EXCEPT ![t] = [Page(None) EXCEPT !.at = "login"]]

\* Mutant: one attempt too many, and none stops at the limit itself.
GuardPast(t) ==
  IF tab[t].reason # None \/ Recent(t) > MaxAttempts
  THEN /\ tab' = [tab EXCEPT ![t].status = "unauthenticated"]
       /\ UNCHANGED attempts
  ELSE /\ attempts' = [attempts EXCEPT ![t] = Append(@, 0)]
       /\ tab' = [tab EXCEPT ![t] = [Page(None) EXCEPT !.at = "login"]]

\* The effect of RequireAuth without a session: stop at an error or after too
\* many attempts, else redirect.
Guard(t) ==
  IF tab[t].reason # None \/ Recent(t) >= MaxAttempts
  THEN /\ tab' = [tab EXCEPT ![t].status = "unauthenticated"]
       /\ UNCHANGED attempts
  ELSE /\ attempts' = [attempts EXCEPT ![t] = Append(@, 0)]
       /\ tab' = [tab EXCEPT ![t] =
                    IF Recent(t) + 1 >= MaxAttempts
                    THEN [@ EXCEPT !.status = "unauthenticated"]
                    ELSE [Page(None) EXCEPT !.at = "login"]]

LiveSession == session \in sessions

\* The session query answers, for the first time or again when the window gets
\* the focus. Whatever is not a 200 means not authenticated.
Answered(t) ==
  \/ /\ LiveSession
     /\ tab' = [tab EXCEPT ![t].status = "authenticated"]
     /\ attempts' = [attempts EXCEPT ![t] = <<>>]
  \/ Guard(t)

Check(t) ==
  /\ tab[t].at = "app" /\ tab[t].status = "loading"
  /\ Answered(t)
  /\ UNCHANGED <<keeps, cookies, database, history>>

\* The status has to change for the effect to run.
Refetch(t) ==
  /\ tab[t].at = "app"
  /\ \/ tab[t].status = "authenticated" /\ Guard(t)
     \/ /\ tab[t].status = "unauthenticated" /\ LiveSession
        /\ tab' = [tab EXCEPT ![t].status = "authenticated"]
        /\ attempts' = [attempts EXCEPT ![t] = <<>>]
  /\ UNCHANGED <<keeps, cookies, database, history>>

\* The button of the error screen.
TryAgain(t) ==
  /\ tab[t].at = "app" /\ tab[t].status = "unauthenticated"
  /\ tab' = [tab EXCEPT ![t] = [Page(None) EXCEPT !.at = "login"]]
  /\ attempts' = [attempts EXCEPT ![t] = <<>>]
  /\ UNCHANGED <<keeps, cookies, database, history>>

\* Attempts that the next tick makes as old as the window are filtered out.
Aged(ages) ==
  LET gone == Cardinality({i \in DOMAIN ages : ages[i] = Window - 1})
  IN  [i \in 1..Len(ages) - gone |-> ages[i + gone] + 1]

\* Time passes.
Tick ==
  /\ \E t \in Tab : attempts[t] # <<>>
  /\ attempts' = [t \in Tab |-> Aged(attempts[t])]
  /\ UNCHANGED <<keeps, tab, cookies, database, history>>

-----------------------------------------------------------------------------
(* The server.                                                             *)

Stored(value) == IF keeps THEN value ELSE None

\* A flow that nothing refers to any more: a session that nobody holds is
\* forgotten when its name is used again.
Unused(f) ==
  /\ flows[f] = "none"
  /\ f # state /\ f # session
  /\ \A t \in Tab : f # tab[t].flow /\ f # tab[t].bound

\* handleLogin: a new flow, and its state in a cookie that replaces the last.
Login(t) ==
  /\ tab[t].at = "login"
  /\ \E f \in Flow :
       /\ Unused(f)
       /\ flows' = [flows EXCEPT ![f] = "fresh"]
       /\ state' = Stored(f)
       /\ tab' = [tab EXCEPT ![t] = [Page(None) EXCEPT !.at = "idp", !.flow = f]]
       /\ sessions' = sessions \ {f}
       /\ made' = [made EXCEPT ![f] = 0]
       /\ smooth' = Stored(f)
  /\ UNCHANGED <<keeps, attempts, session>>

\* It cannot be started: the browser shows the text of the error.
LoginFails(t) ==
  /\ tab[t].at = "login"
  /\ tab' = [tab EXCEPT ![t] = [Page(None) EXCEPT !.at = "stopped"]]
  /\ UNCHANGED <<keeps, attempts, cookies, database, history>>

\* The identity provider sends the browser back, with a code or an error. The
\* callback carries the state cookie of this moment.
SentBack(t) ==
  /\ tab[t].at = "idp"
  /\ tab' = [tab EXCEPT ![t].at = "callback", ![t].bound = state]
  /\ UNCHANGED <<keeps, attempts, cookies, database, history>>

Declined(t) ==
  /\ tab[t].at = "idp"
  /\ tab' = [tab EXCEPT ![t] = Page("failed")]
  /\ UNCHANGED <<keeps, attempts, cookies, database, history>>

\* Mutant: the flow is read and stays.
TakenNot(f) == flows

\* TakeFlow: DELETE ... RETURNING.
Taken(f) == [flows EXCEPT ![f] = "none"]

\* Mutant: the times are compared the other way round.
ExpiredNot(f) == flows[f] = "fresh"

\* time.Since(flow.CreatedAt) > flowTTL.
Expired(f) == flows[f] = "old"

\* handleCallback, to the answer: an error, or "ok" when a session was made.
Handled(f, bound, answer) ==
  \/ /\ bound # f \/ flows[f] = "none"
     /\ answer = "refused"
     /\ UNCHANGED <<database, made>>
  \/ /\ bound = f /\ flows[f] # "none"
     /\ flows' = Taken(f)
     /\ \/ /\ Expired(f)
           /\ answer = "refused"
           /\ UNCHANGED <<sessions, made>>
        \/ /\ ~Expired(f)
           /\ answer = "ok"
           /\ sessions' = sessions \cup {f}
           /\ made' = [made EXCEPT ![f] = @ + 1]
        \/ \* The exchange, the checks of the token or a later statement fail.
           /\ ~Expired(f)
           /\ answer = "failed"
           /\ UNCHANGED <<sessions, made>>

\* A callback is handled and answered: the state cookie is cleared whatever
\* comes out, and the browser is redirected.
Callback(t) ==
  LET f == tab[t].flow
  IN  /\ tab[t].at = "callback"
      /\ \E answer \in Error \cup {"ok"} :
           /\ Handled(f, tab[t].bound, answer)
           /\ tab' = [tab EXCEPT ![t] = Page(IF answer = "ok" THEN None ELSE answer)]
           /\ session' = IF answer = "ok" THEN Stored(f) ELSE session
      /\ state' = None
      /\ smooth' = None
      /\ UNCHANGED <<keeps, attempts>>

\* The tab leaves its page. A callback it waits for may be handled all the
\* same, without an answer. (Later is as good as now: a session made then is
\* nobody's, and a flow that is taken in between leaves nothing to do.)
Leave(t) ==
  \/ UNCHANGED <<database, made>>
  \/ /\ tab[t].at = "callback"
     /\ \E answer \in Error \cup {"ok"} : Handled(tab[t].flow, tab[t].bound, answer)

\* The user opens the app again.
Visit(t) ==
  /\ tab[t] # Page(None)
  /\ Leave(t)
  /\ tab' = [tab EXCEPT ![t] = Page(None)]
  /\ UNCHANGED <<keeps, attempts, cookies, smooth>>

\* The URL of a callback is opened once more, in this tab or another: reload,
\* the back button, a link kept.
Revisit(t) ==
  \E f \in Flow :
    /\ tab[t].at # "login"
    /\ \A u \in Tab : tab[u].at = "idp" => tab[u].flow # f
    /\ Leave(t)
    /\ tab' = [tab EXCEPT ![t] = [Page(None) EXCEPT !.at = "callback", !.flow = f,
                                                    !.bound = state]]
    /\ smooth' = IF smooth = f THEN None ELSE smooth
    /\ UNCHANGED <<keeps, attempts, cookies>>

\* flowTTL has passed.
GrowsOld(f) ==
  /\ flows[f] = "fresh"
  /\ flows' = [flows EXCEPT ![f] = "old"]
  /\ smooth' = IF smooth = f THEN None ELSE smooth
  /\ UNCHANGED <<keeps, tab, attempts, cookies, sessions, made>>

\* handleLogout; the app is loaded again, also when the request failed. The row
\* is deleted or not, the cookie cleared or not: a DELETE that fails is logged and
\* the cookie cleared all the same, and an answer may be lost.
Logout(t) ==
  /\ tab[t].at = "app" /\ tab[t].status = "authenticated"
  /\ tab' = [tab EXCEPT ![t] = Page(None)]
  /\ sessions' \in {sessions, sessions \ {session}} /\ session' \in {session, None}
  /\ UNCHANGED <<keeps, attempts, state, flows, history>>

\* The session ends otherwise.
Ends(f) ==
  /\ f \in sessions
  /\ sessions' = sessions \ {f}
  /\ UNCHANGED <<keeps, tab, attempts, cookies, flows, history>>

-----------------------------------------------------------------------------

\* What the user, the clock and the life of sessions bring.
Outside ==
  \/ Tick
  \/ \E t \in Tab : Refetch(t) \/ TryAgain(t) \/ Visit(t) \/ Revisit(t) \/ Logout(t)
  \/ \E f \in Flow : GrowsOld(f) \/ Ends(f)

Next ==
  \/ Outside
  \/ \E t \in Tab : Check(t) \/ Login(t) \/ LoginFails(t) \/ SentBack(t) \/ Declined(t)
                      \/ Callback(t)

Spec == Init /\ [][Next]_vars

\* Requests are answered. Neither the identity provider nor the user has to act.
FairSpec ==
  /\ Spec
  /\ \A t \in Tab : WF_vars(Check(t)) /\ WF_vars(Login(t) \/ LoginFails(t))
                      /\ WF_vars(Callback(t))

-----------------------------------------------------------------------------
(* Properties.                                                             *)

TypeOK ==
  /\ \A t \in Tab :
       /\ tab[t].at \in {"app", "login", "idp", "callback", "stopped"}
       /\ tab[t].status \in {"loading", "authenticated", "unauthenticated"}
       /\ tab[t].reason \in Error \cup {None}
       /\ {tab[t].flow, tab[t].bound} \subseteq Flow \cup {None}
       /\ Recent(t) <= MaxAttempts
  /\ {state, session, smooth} \subseteq Flow \cup {None}
  /\ flows \in [Flow -> {"none", "fresh", "old"}] /\ sessions \subseteq Flow

\* A flow makes one session at most, though its callback may be opened again
\* and again, in several tabs, while it is still being handled ("TakeFlow
\* atomically fetches and deletes").
FlowOnce == \A f \in Flow : made[f] <= 1

\* A callback is refused only for a reason: the flow grew old, the browser
\* stores no cookies, the callback was opened before, or another login of the
\* same browser started, or came back, between this one's start and its end.
RefusedForAReason ==
  [][\A t \in Tab : tab[t].at = "callback" /\ tab[t].flow = smooth
       => tab'[t].reason \in {None, "failed"}]_vars

Settled(t) ==
  \/ tab[t].at = "app" /\ tab[t].status # "loading"
  \/ tab[t].at \in {"idp", "stopped"}

\* The loop breaker: redirects come to an end by themselves, in every tab,
\* whatever the session endpoint, the cookies and the callbacks do. Only what
\* comes from outside can keep a sign-in going: the user, or a clock that lets
\* the window pass between redirects.
SignInSettles ==
  []<><<Outside>>_vars \/ <>[](\A t \in Tab : Settled(t))
=============================================================================
