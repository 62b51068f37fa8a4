---------------------------- MODULE SignInProofs ----------------------------
(***************************************************************************)
(* A login makes one session at most, and is refused only for a reason,    *)
(* and no tab redirects past the limit, for any number of tabs and logins. *)
(***************************************************************************)
EXTENDS SignIn, FiniteSetTheorems, TLAPS

Shown == [at : {"app", "login", "idp", "callback", "stopped"},
          status : {"loading", "authenticated", "unauthenticated"},
          reason : Error \cup {None},
          flow : Flow \cup {None}, bound : Flow \cup {None}]

Types ==
  /\ tab \in [Tab -> Shown]
  /\ state \in Flow \cup {None}
  /\ flows \in [Flow -> {"none", "fresh", "old"}]
  /\ made \in [Flow -> Nat]

\* The tab is at the identity provider or has been sent back from it.
Away(t) == tab[t].at \in {"idp", "callback"}

OnItsWay == \A t \in Tab : Away(t) => tab[t].flow \in Flow /\ tab[t].reason = None

\* A flow has a row or has made a session, never both.
RowMeansUnmade == \A f \in Flow : flows[f] # "none" => made[f] = 0

\* The login that nothing has disturbed is this tab's.
Carries(t) == Away(t) /\ tab[t].flow = smooth

Undisturbed ==
  \A t \in Tab : Carries(t) =>
    /\ flows[smooth] = "fresh" /\ state = smooth
    /\ tab[t].at = "callback" => tab[t].bound = smooth

OneCarries == \A t, u \in Tab : Carries(t) /\ Carries(u) => t = u

IInv ==
  Types /\ OnItsWay /\ RowMeansUnmade /\ FlowOnce /\ Undisturbed /\ OneCarries

-----------------------------------------------------------------------------

\* A page of the app that has just been loaded.
LEMMA Loaded ==
  ASSUME NEW reason \in Error \cup {None}
  PROVE  /\ Page(reason) \in Shown /\ Page(reason).at = "app"
         /\ Page(reason).reason = reason
BY DEF Page, Shown

\* At the start no login is under way.
LEMMA InitSignIn == Init => IInv
<1> SUFFICES ASSUME Init PROVE IInv
  OBVIOUS
<1>1. Page(None) \in Shown /\ Page(None).at = "app"
  BY Loaded
<1>2. Types
  BY <1>1 DEF Init, Types
<1>3. OnItsWay /\ RowMeansUnmade /\ FlowOnce /\ Undisturbed /\ OneCarries
  BY <1>1 DEF Init, OnItsWay, RowMeansUnmade, FlowOnce, Undisturbed, OneCarries, Carries, Away
<1> QED  BY <1>2, <1>3 DEF IInv

\* What the handler of a callback does to the database, whichever way it ends.
LEMMA HandledKeeps ==
  ASSUME Types, RowMeansUnmade, FlowOnce,
         NEW f \in Flow, NEW bound, NEW answer, Handled(f, bound, answer)
  PROVE  /\ flows' \in [Flow -> {"none", "fresh", "old"}] /\ made' \in [Flow -> Nat]
         /\ RowMeansUnmade' /\ FlowOnce'
         /\ \A g \in Flow : g # f => flows'[g] = flows[g]
         /\ bound = f /\ flows[f] = "fresh" => answer \in {"ok", "failed"}
<1>1. CASE flows' = flows /\ made' = made
  <2>1. bound = f /\ flows[f] = "fresh" => answer \in {"ok", "failed"}
    BY DEF Handled, Expired
  <2> QED  BY <1>1, <2>1 DEF Types, RowMeansUnmade, FlowOnce
<1>2. CASE /\ flows' = [flows EXCEPT ![f] = "none"] /\ flows[f] # "none"
           /\ \/ made' = made /\ (Expired(f) \/ answer = "failed")
              \/ made' = [made EXCEPT ![f] = @ + 1] /\ answer = "ok"
  <2>1. made[f] = 0
    BY <1>2 DEF RowMeansUnmade
  <2>2. made' \in [Flow -> Nat] /\ \A g \in Flow : IF g = f THEN made'[g] \in {0, 1}
                                                         ELSE made'[g] = made[g]
    BY <1>2, <2>1 DEF Types
  <2>3. flows' \in [Flow -> {"none", "fresh", "old"}]
        /\ \A g \in Flow : flows'[g] = IF g = f THEN "none" ELSE flows[g]
    BY <1>2 DEF Types
  <2>4. RowMeansUnmade' /\ FlowOnce'
    BY <2>2, <2>3 DEF RowMeansUnmade, FlowOnce
  <2>5. flows[f] = "fresh" => answer \in {"ok", "failed"}
    BY <1>2 DEF Expired
  <2> QED  BY <2>2, <2>3, <2>4, <2>5
<1> QED  BY <1>1, <1>2 DEF Handled, Taken, database

\* A tab shows a page on which no login is under way.
LEMMA TabHere ==
  ASSUME IInv, NEW t \in Tab, NEW page \in Shown, page.at \notin {"idp", "callback"},
         tab' = [tab EXCEPT ![t] = page], UNCHANGED <<state, flows, made, smooth>>
  PROVE  IInv'
<1> USE DEF IInv
<1>1. Types'
  BY DEF Types
<1>2. \A u \in Tab : Away(u)' => Away(u) /\ tab'[u] = tab[u]
  BY DEF Types, Away
<1>3. OnItsWay'
  BY <1>2 DEF OnItsWay
<1>4. RowMeansUnmade' /\ FlowOnce'
  BY DEF RowMeansUnmade, FlowOnce
<1>5. Undisturbed' /\ OneCarries'
  BY <1>2 DEF Undisturbed, OneCarries, Carries
<1> QED  BY <1>1, <1>3, <1>4, <1>5

\* The route guard stays in the app or goes to the login.
LEMMA GuardHere ==
  ASSUME IInv, NEW t \in Tab, tab[t].at = "app", Guard(t)
  PROVE  \E page \in Shown : page.at \in {"app", "login"} /\ tab' = [tab EXCEPT ![t] = page]
<1> DEFINE blocked == [tab[t] EXCEPT !.status = "unauthenticated"]
           login == [Page(None) EXCEPT !.at = "login"]
<1>1. blocked \in Shown /\ blocked.at = "app"
  BY DEF IInv, Types, Shown
<1>2. login \in Shown /\ login.at = "login"
  BY DEF Page, Shown
<1>3. tab' = [tab EXCEPT ![t] = blocked] \/ tab' = [tab EXCEPT ![t] = login]
  BY DEF Guard, IInv, Types
<1> HIDE DEF blocked, login
<1> QED  BY <1>1, <1>2, <1>3

\* What the session query answers leaves the tab in the app or at the login.
LEMMA QueryHere ==
  ASSUME IInv, NEW t \in Tab, Check(t) \/ Refetch(t)
  PROVE  IInv'
<1>1. tab[t].at = "app" /\ UNCHANGED <<state, flows, made, smooth>>
  BY DEF Check, Refetch, cookies, database, history
<1>2. CASE Guard(t)
  BY <1>1, <1>2, GuardHere, TabHere
<1>3. CASE tab' = [tab EXCEPT ![t].status = "authenticated"]
  <2> DEFINE page == [tab[t] EXCEPT !.status = "authenticated"]
  <2>1. page \in Shown /\ page.at = "app"
    BY <1>1 DEF IInv, Types, Shown
  <2>2. tab' = [tab EXCEPT ![t] = page]
    BY <1>3 DEF IInv, Types
  <2> HIDE DEF page
  <2> QED  BY <1>1, <2>1, <2>2, TabHere
<1> QED  BY <1>2, <1>3 DEF Check, Refetch, Answered

\* The other ways to show a page without a login under way.
LEMMA OtherHere ==
  ASSUME IInv, NEW t \in Tab, TryAgain(t) \/ LoginFails(t) \/ Declined(t) \/ Logout(t)
  PROVE  IInv'
<1>1. [Page(None) EXCEPT !.at = "login"] \in Shown
      /\ [Page(None) EXCEPT !.at = "login"].at = "login"
  BY DEF Page, Shown
<1>2. [Page(None) EXCEPT !.at = "stopped"] \in Shown
      /\ [Page(None) EXCEPT !.at = "stopped"].at = "stopped"
  BY DEF Page, Shown
<1>3. Page("failed") \in Shown /\ Page("failed").at = "app"
  BY Loaded DEF Error
<1>4. Page(None) \in Shown /\ Page(None).at = "app"
  BY Loaded
<1>5. UNCHANGED <<state, flows, made, smooth>>
  BY DEF TryAgain, LoginFails, Declined, Logout, cookies, database, history
<1>6. CASE TryAgain(t)
  BY <1>1, <1>5, <1>6, TabHere DEF TryAgain
<1>7. CASE LoginFails(t)
  BY <1>2, <1>5, <1>7, TabHere DEF LoginFails
<1>8. CASE Declined(t)
  BY <1>3, <1>5, <1>8, TabHere DEF Declined
<1>9. CASE Logout(t)
  BY <1>4, <1>5, <1>9, TabHere DEF Logout
<1> QED  BY <1>6, <1>7, <1>8, <1>9

\* A login starts a flow that nothing refers to.
LEMMA LoginKeeps ==
  ASSUME IInv, NEW t \in Tab, Login(t)
  PROVE  IInv'
<1> USE DEF IInv
<1>1. PICK f \in Flow :
        /\ Unused(f) /\ flows' = [flows EXCEPT ![f] = "fresh"]
        /\ state' \in {f, None} /\ smooth' = state'
        /\ tab' = [tab EXCEPT ![t] = [Page(None) EXCEPT !.at = "idp", !.flow = f]]
        /\ made' = [made EXCEPT ![f] = 0]
  BY DEF Login, Stored
<1> DEFINE page == [Page(None) EXCEPT !.at = "idp", !.flow = f]
<1>2. page \in Shown /\ page.at = "idp" /\ page.flow = f /\ page.reason = None
  BY DEF Page, Shown
<1> HIDE DEF page
<1>3. tab' = [tab EXCEPT ![t] = page]
  BY <1>1 DEF page
<1>4. Types'
  BY <1>1, <1>2, <1>3 DEF Types
<1>5. tab'[t] = page /\ \A u \in Tab \ {t} : tab'[u] = tab[u]
  BY <1>3 DEF Types
<1>6. OnItsWay'
  BY <1>2, <1>5 DEF OnItsWay, Away
<1>7. RowMeansUnmade' /\ FlowOnce'
  BY <1>1 DEF Types, RowMeansUnmade, FlowOnce
<1>8. \A u \in Tab : Carries(u)' => u = t /\ smooth' = f
  BY <1>1, <1>2, <1>5, BreakerAssumption DEF Carries, Away, OnItsWay, Unused
<1>9. Undisturbed' /\ OneCarries'
  BY <1>1, <1>2, <1>5, <1>8 DEF Types, Undisturbed, OneCarries
<1> QED  BY <1>4, <1>6, <1>7, <1>9

\* The callback is sent with the state cookie of this moment.
LEMMA SentBackKeeps ==
  ASSUME IInv, NEW t \in Tab, SentBack(t)
  PROVE  IInv'
<1> USE DEF IInv
<1> DEFINE page == [tab[t] EXCEPT !.at = "callback", !.bound = state]
<1>1. page \in Shown /\ page.at = "callback" /\ page.bound = state
      /\ page.flow = tab[t].flow /\ page.reason = tab[t].reason
  BY DEF Types, Shown
<1>2. tab' = [tab EXCEPT ![t] = page]
  BY DEF SentBack, Types
<1> HIDE DEF page
<1>3. tab[t].at = "idp" /\ UNCHANGED <<state, flows, made, smooth>>
  BY DEF SentBack, cookies, database, history
<1>4. Types'
  BY <1>1, <1>2, <1>3 DEF Types
<1>5. tab'[t] = page /\ \A u \in Tab \ {t} : tab'[u] = tab[u]
  BY <1>2 DEF Types
<1>6. OnItsWay'
  BY <1>1, <1>3, <1>5 DEF OnItsWay, Away
<1>7. RowMeansUnmade' /\ FlowOnce'
  BY <1>3 DEF RowMeansUnmade, FlowOnce
<1>8. \A u \in Tab : Carries(u)' => Carries(u)
  BY <1>1, <1>3, <1>5 DEF Carries, Away
<1>9. Undisturbed' /\ OneCarries'
  BY <1>1, <1>3, <1>5, <1>8 DEF Undisturbed, OneCarries
<1> QED  BY <1>4, <1>6, <1>7, <1>9

\* A callback is answered; whatever else was under way is disturbed by it.
LEMMA CallbackKeeps ==
  ASSUME IInv, NEW t \in Tab, Callback(t)
  PROVE  IInv'
<1> USE DEF IInv
<1>1. PICK answer \in Error \cup {"ok"} :
        /\ Handled(tab[t].flow, tab[t].bound, answer)
        /\ tab' = [tab EXCEPT ![t] = Page(IF answer = "ok" THEN None ELSE answer)]
  BY DEF Callback
<1>2. tab[t].flow \in Flow /\ state' = None /\ smooth' = None
  BY DEF Callback, OnItsWay, Away
<1> DEFINE page == Page(IF answer = "ok" THEN None ELSE answer)
<1>3. page \in Shown /\ page.at = "app"
  BY Loaded
<1> HIDE DEF page
<1>4. tab' = [tab EXCEPT ![t] = page]
  BY <1>1 DEF page
<1>5. /\ flows' \in [Flow -> {"none", "fresh", "old"}] /\ made' \in [Flow -> Nat]
      /\ RowMeansUnmade' /\ FlowOnce'
  BY <1>1, <1>2, HandledKeeps
<1>6. Types'
  BY <1>2, <1>3, <1>4, <1>5 DEF Types
<1>7. \A u \in Tab : Away(u)' => Away(u) /\ tab'[u] = tab[u]
  BY <1>3, <1>4 DEF Types, Away
<1>8. OnItsWay'
  BY <1>7 DEF OnItsWay
<1>9. \A u \in Tab : ~Carries(u)'
  BY <1>2, <1>8, BreakerAssumption DEF Carries, OnItsWay
<1> QED  BY <1>5, <1>6, <1>8, <1>9 DEF Undisturbed, OneCarries

\* A tab that leaves a page takes at most the flow it carried with it.
LEMMA LeaveKeeps ==
  ASSUME IInv, NEW t \in Tab, Leave(t)
  PROVE  /\ flows' \in [Flow -> {"none", "fresh", "old"}] /\ made' \in [Flow -> Nat]
         /\ RowMeansUnmade' /\ FlowOnce'
         /\ \A g \in Flow : flows'[g] = flows[g] \/ (Away(t) /\ tab[t].flow = g)
<1> USE DEF IInv
<1>1. CASE UNCHANGED <<flows, made>>
  BY <1>1 DEF Types, RowMeansUnmade, FlowOnce
<1>2. CASE /\ tab[t].at = "callback"
           /\ \E answer \in Error \cup {"ok"} : Handled(tab[t].flow, tab[t].bound, answer)
  <2>1. tab[t].flow \in Flow /\ Away(t)
    BY <1>2 DEF OnItsWay, Away
  <2> QED  BY <1>2, <2>1, HandledKeeps
<1> QED  BY <1>1, <1>2 DEF Leave, database

\* The user goes elsewhere in a tab: to the app, or to the URL of a callback.
LEMMA GoesKeeps ==
  ASSUME IInv, NEW t \in Tab, Visit(t) \/ Revisit(t)
  PROVE  IInv'
<1> USE DEF IInv
<1>1. PICK page \in Shown :
        /\ tab' = [tab EXCEPT ![t] = page]
        /\ \/ page.at = "app" /\ smooth' = smooth
           \/ /\ page.at = "callback" /\ page.reason = None /\ page.flow \in Flow
              /\ smooth' = IF smooth = page.flow THEN None ELSE smooth
  <2>1. CASE Visit(t)
    <3>1. Page(None) \in Shown /\ Page(None).at = "app"
      BY Loaded
    <3> QED  BY <2>1, <3>1 DEF Visit
  <2>2. CASE Revisit(t)
    <3>1. PICK f \in Flow :
            /\ tab' = [tab EXCEPT ![t] = [Page(None) EXCEPT !.at = "callback", !.flow = f,
                                                            !.bound = state]]
            /\ smooth' = IF smooth = f THEN None ELSE smooth
      BY <2>2 DEF Revisit
    <3> DEFINE page == [Page(None) EXCEPT !.at = "callback", !.flow = f, !.bound = state]
    <3>2. page \in Shown /\ page.at = "callback" /\ page.reason = None /\ page.flow = f
      BY DEF Page, Shown, Types
    <3> HIDE DEF page
    <3>3. tab' = [tab EXCEPT ![t] = page]
      BY <3>1 DEF page
    <3> QED  BY <3>1, <3>2, <3>3
  <2> QED  BY <2>1, <2>2
<1>2. Leave(t) /\ UNCHANGED state
  BY DEF Visit, Revisit, cookies
<1>3. /\ flows' \in [Flow -> {"none", "fresh", "old"}] /\ made' \in [Flow -> Nat]
      /\ RowMeansUnmade' /\ FlowOnce'
      /\ \A g \in Flow : flows'[g] = flows[g] \/ (Away(t) /\ tab[t].flow = g)
  BY <1>2, LeaveKeeps
<1>4. Types'
  BY <1>1, <1>2, <1>3 DEF Types
<1>5. tab'[t] = page /\ \A u \in Tab \ {t} : tab'[u] = tab[u]
  BY <1>1 DEF Types
<1>6. OnItsWay'
  BY <1>1, <1>5 DEF OnItsWay, Away
<1>7. \A u \in Tab : Carries(u)' => u # t /\ Carries(u) /\ smooth' = smooth
  BY <1>1, <1>5, <1>6, BreakerAssumption DEF Carries, Away, OnItsWay
<1>8. Undisturbed'
  <2> SUFFICES ASSUME NEW u \in Tab, Carries(u)'
               PROVE  /\ flows'[smooth'] = "fresh" /\ state' = smooth'
                      /\ tab'[u].at = "callback" => tab'[u].bound = smooth'
    BY DEF Undisturbed
  <2>1. u # t /\ Carries(u) /\ smooth' = smooth /\ ~Carries(t) /\ smooth \in Flow
    BY <1>7 DEF OneCarries, Carries, OnItsWay
  <2>2. flows'[smooth] = flows[smooth]
    BY <1>3, <2>1 DEF Carries
  <2> QED  BY <1>2, <1>5, <2>1, <2>2 DEF Undisturbed
<1>9. OneCarries'
  BY <1>7 DEF OneCarries
<1> QED  BY <1>3, <1>4, <1>6, <1>8, <1>9

\* A flow grows old, which disturbs it.
LEMMA GrowsOldKeeps ==
  ASSUME IInv, NEW f \in Flow, GrowsOld(f)
  PROVE  IInv'
<1> USE DEF IInv
<1>1. /\ flows[f] = "fresh" /\ flows' = [flows EXCEPT ![f] = "old"]
      /\ smooth' = IF smooth = f THEN None ELSE smooth
      /\ UNCHANGED <<tab, state, made>>
  BY DEF GrowsOld, cookies
<1>2. Types' /\ OnItsWay' /\ RowMeansUnmade' /\ FlowOnce'
  BY <1>1 DEF Types, OnItsWay, Away, RowMeansUnmade, FlowOnce
<1>3. \A u \in Tab : Carries(u)' => Carries(u) /\ smooth' = smooth /\ smooth # f
  BY <1>1, <1>2, BreakerAssumption DEF Carries, Away, OnItsWay
<1>4. Undisturbed'
  BY <1>1, <1>3 DEF Undisturbed, Types
<1>5. OneCarries'
  BY <1>3 DEF OneCarries
<1> QED  BY <1>2, <1>4, <1>5

\* Every step keeps the invariant.
LEMMA NextSignIn == IInv /\ [Next]_vars => IInv'
<1> SUFFICES ASSUME IInv, [Next]_vars PROVE IInv'
  OBVIOUS
<1>1. CASE UNCHANGED <<tab, state, flows, made, smooth>>
  BY <1>1 DEF IInv, Types, OnItsWay, Away, RowMeansUnmade, FlowOnce, Undisturbed, OneCarries,
              Carries
<1>2. CASE UNCHANGED vars
  BY <1>1, <1>2 DEF vars
<1>3. CASE Tick
  BY <1>1, <1>3 DEF Tick, cookies, database, history
<1>4. ASSUME NEW f \in Flow, Ends(f) PROVE IInv'
  BY <1>1, <1>4 DEF Ends, cookies, history
<1>5. ASSUME NEW t \in Tab,
             Refetch(t) \/ TryAgain(t) \/ Visit(t) \/ Revisit(t) \/ Logout(t)
               \/ Check(t) \/ Login(t) \/ LoginFails(t) \/ SentBack(t) \/ Declined(t)
               \/ Callback(t)
      PROVE  IInv'
  BY <1>5, QueryHere, OtherHere, GoesKeeps, LoginKeeps, SentBackKeeps, CallbackKeeps
<1> QED  BY <1>2, <1>3, <1>4, <1>5, GrowsOldKeeps DEF Next, Outside

\* What the flows, the cookies and the tabs have to do with each other.
THEOREM SignInInvariant == Spec => []IInv
BY InitSignIn, NextSignIn, PTL DEF Spec

\* A flow makes one session at most, however often its callback is opened.
THEOREM SessionOnce == Spec => []FlowOnce
<1>1. IInv => FlowOnce
  BY DEF IInv
<1> QED  BY <1>1, SignInInvariant, PTL

\* The callback of an undisturbed login is not refused for its state.
THEOREM UndisturbedNotRefused == Spec => RefusedForAReason
<1> DEFINE A == \A t \in Tab : tab[t].at = "callback" /\ tab[t].flow = smooth
                  => tab'[t].reason \in {None, "failed"}
<1>1. IInv /\ [Next]_vars => [A]_vars
  <2> SUFFICES ASSUME IInv, Next, NEW t \in Tab, tab[t].at = "callback", tab[t].flow = smooth
               PROVE  tab'[t].reason \in {None, "failed"}
    OBVIOUS
  <2>1. /\ tab[t].reason = None /\ tab[t].flow \in Flow
        /\ tab[t].bound = tab[t].flow /\ flows[tab[t].flow] = "fresh"
    BY DEF IInv, OnItsWay, Undisturbed, Carries, Away
  <2>2. CASE tab'[t] = tab[t]
    BY <2>1, <2>2
  <2>3. CASE Callback(t)
    <3>1. PICK answer \in Error \cup {"ok"} :
            /\ Handled(tab[t].flow, tab[t].bound, answer)
            /\ tab' = [tab EXCEPT ![t] = Page(IF answer = "ok" THEN None ELSE answer)]
      BY <2>3 DEF Callback
    <3>2. answer \in {"ok", "failed"}
      BY <2>1, <3>1, HandledKeeps DEF IInv
    <3>3. tab'[t] = Page(IF answer = "ok" THEN None ELSE "failed")
      BY <3>1, <3>2 DEF IInv, Types
    <3> QED  BY <3>3, Loaded DEF Error
  <2>4. CASE Visit(t)
    BY <2>4, Loaded DEF Visit, IInv, Types
  <2>5. CASE Revisit(t)
    BY <2>5 DEF Revisit, Page, IInv, Types
  <2>6. CASE Tick \/ \E f \in Flow : GrowsOld(f) \/ Ends(f)
    BY <2>2, <2>6 DEF Tick, GrowsOld, Ends
  <2>7. ASSUME NEW u \in Tab,
               Refetch(u) \/ TryAgain(u) \/ Logout(u) \/ Check(u) \/ Login(u) \/ LoginFails(u)
                 \/ SentBack(u) \/ Declined(u)
        PROVE  tab'[t] = tab[t]
    <3>1. u # t
      BY <2>7 DEF Refetch, TryAgain, Logout, Check, Login, LoginFails, SentBack, Declined
    <3>2. CASE Refetch(u) \/ Check(u)
      BY <3>1, <3>2 DEF Refetch, Check, Answered, Guard, IInv, Types
    <3>3. CASE TryAgain(u) \/ Logout(u) \/ Login(u) \/ LoginFails(u) \/ SentBack(u) \/ Declined(u)
      BY <3>1, <3>3 DEF TryAgain, Logout, Login, LoginFails, SentBack, Declined, IInv, Types
    <3> QED  BY <2>7, <3>2, <3>3
  <2>8. ASSUME NEW u \in Tab, u # t, Visit(u) \/ Revisit(u) \/ Callback(u)
        PROVE  tab'[t] = tab[t]
    BY <2>8 DEF Visit, Revisit, Callback, IInv, Types
  <2> QED  BY <2>2, <2>3, <2>4, <2>5, <2>6, <2>7, <2>8 DEF Next, Outside
<1> QED  BY <1>1, SignInInvariant, PTL DEF Spec, RefusedForAReason

-----------------------------------------------------------------------------
(* The types, and the limit of the loop breaker.                           *)

\* Time only takes attempts off the list.
LEMMA AgedShrinks ==
  ASSUME NEW ages \in Seq(Nat)
  PROVE  Aged(ages) \in Seq(Nat) /\ Len(Aged(ages)) <= Len(ages)
<1> DEFINE old == {i \in DOMAIN ages : ages[i] = Window - 1}
           gone == Cardinality(old)
           n == Len(ages)
<1>1. n \in Nat /\ DOMAIN ages = 1..n /\ \A i \in 1..n : ages[i] \in Nat
  OBVIOUS
<1>2. IsFiniteSet(1..n) /\ Cardinality(1..n) = n
  BY <1>1, FS_Interval
<1>3. old \subseteq 1..n
  BY <1>1
<1>4. gone \in Nat /\ gone <= n
  BY <1>2, <1>3, FS_Subset, FS_CardinalityType
<1> HIDE DEF gone, old
<1> DEFINE left == [i \in 1..n - gone |-> ages[i + gone] + 1]
<1>5. n - gone \in Nat /\ \A i \in 1..n - gone : i + gone \in 1..n
  BY <1>1, <1>4
<1>6. left \in [1..n - gone -> Nat]
  BY <1>1, <1>5
<1>7. left \in Seq(Nat) /\ Len(left) = n - gone
  BY <1>5, <1>6
<1>8. Aged(ages) = left
  BY DEF Aged, gone, old
<1> QED  BY <1>1, <1>4, <1>7, <1>8

\* What the loop breaker and the sessions add to the types.
Bounds ==
  /\ attempts \in [Tab -> Seq(Nat)] /\ \A t \in Tab : Recent(t) <= MaxAttempts
  /\ {session, smooth} \subseteq Flow \cup {None} /\ sessions \subseteq Flow

\* The guard records an attempt only below the limit.
LEMMA GuardBounds ==
  ASSUME Bounds, NEW t \in Tab,
         \/ UNCHANGED attempts
         \/ Recent(t) < MaxAttempts /\ attempts' = [attempts EXCEPT ![t] = Append(@, 0)]
         \/ attempts' = [attempts EXCEPT ![t] = <<>>]
  PROVE  /\ attempts' \in [Tab -> Seq(Nat)] /\ \A u \in Tab : Recent(u)' <= MaxAttempts
<1>1. MaxAttempts \in Nat
  BY BreakerAssumption
<1>2. CASE UNCHANGED attempts
  BY <1>2 DEF Bounds, Recent
<1>3. ASSUME Recent(t) < MaxAttempts, attempts' = [attempts EXCEPT ![t] = Append(@, 0)]
      PROVE  attempts' \in [Tab -> Seq(Nat)] /\ \A u \in Tab : Recent(u)' <= MaxAttempts
  <2>1. Append(attempts[t], 0) \in Seq(Nat) /\ Len(Append(attempts[t], 0)) = Len(attempts[t]) + 1
        /\ Len(attempts[t]) \in Nat
    BY DEF Bounds
  <2>2. Len(Append(attempts[t], 0)) <= MaxAttempts
    BY <1>1, <1>3, <2>1 DEF Recent
  <2> QED  BY <1>3, <2>1, <2>2 DEF Bounds, Recent
<1>4. CASE attempts' = [attempts EXCEPT ![t] = <<>>]
  <2>1. <<>> \in Seq(Nat) /\ Len(<<>>) = 0
    OBVIOUS
  <2> QED  BY <1>1, <1>4, <2>1 DEF Bounds, Recent
<1> QED  BY <1>2, <1>3, <1>4

\* Every step keeps the attempts within the limit and the sessions what they are.
LEMMA NextBounds == IInv /\ Bounds /\ [Next]_vars => Bounds'
<1> SUFFICES ASSUME IInv, Bounds, [Next]_vars PROVE Bounds'
  OBVIOUS
<1> DEFINE Attempts == attempts' \in [Tab -> Seq(Nat)] /\ \A u \in Tab : Recent(u)' <= MaxAttempts
           Sessions == {session', smooth'} \subseteq Flow \cup {None} /\ sessions' \subseteq Flow
<1>0. SUFFICES Attempts /\ Sessions
  BY DEF Bounds
<1>1. UNCHANGED attempts => Attempts
  BY DEF Bounds, Recent
<1>2. UNCHANGED <<session, smooth, sessions>> => Sessions
  BY DEF Bounds
<1>3. CASE UNCHANGED vars
  BY <1>1, <1>2, <1>3 DEF vars
<1>4. CASE Tick
  <2>1. attempts' = [t \in Tab |-> Aged(attempts[t])]
    BY <1>4 DEF Tick
  <2>2. \A t \in Tab : /\ Aged(attempts[t]) \in Seq(Nat)
                       /\ Len(Aged(attempts[t])) <= Len(attempts[t])
    BY AgedShrinks DEF Bounds
  <2>3. \A t \in Tab : /\ Len(attempts[t]) \in Nat /\ Len(Aged(attempts[t])) \in Nat
                       /\ Len(attempts[t]) <= MaxAttempts
    BY <2>2 DEF Bounds, Recent
  <2>4. Attempts
    BY <2>1, <2>2, <2>3, BreakerAssumption DEF Recent
  <2> QED  BY <1>2, <1>4, <2>4 DEF Tick, cookies, database, history
<1>5. ASSUME NEW t \in Tab, Check(t) \/ Refetch(t)  PROVE Attempts /\ Sessions
  <2>1. UNCHANGED <<session, smooth, sessions>>
    BY <1>5 DEF Check, Refetch, cookies, database, history
  <2>2. CASE Guard(t)
    <3>1. UNCHANGED attempts \/ (/\ Recent(t) < MaxAttempts
                                 /\ attempts' = [attempts EXCEPT ![t] = Append(@, 0)])
      <4>1. Recent(t) \in Nat /\ MaxAttempts \in Nat
        BY BreakerAssumption DEF Bounds, Recent
      <4> QED  BY <2>2, <4>1 DEF Guard
    <3> QED  BY <1>2, <2>1, <3>1, GuardBounds
  <2>3. CASE attempts' = [attempts EXCEPT ![t] = <<>>]
    BY <1>2, <2>1, <2>3, GuardBounds
  <2> QED  BY <1>5, <2>2, <2>3 DEF Check, Refetch, Answered
<1>6. ASSUME NEW t \in Tab, TryAgain(t)  PROVE Attempts /\ Sessions
  <2>1. UNCHANGED <<session, smooth, sessions>> /\ attempts' = [attempts EXCEPT ![t] = <<>>]
    BY <1>6 DEF TryAgain, cookies, database, history
  <2> QED  BY <1>2, <2>1, GuardBounds
<1>7. ASSUME NEW t \in Tab, Login(t)  PROVE Attempts /\ Sessions
  <2>1. UNCHANGED <<attempts, session>> /\ smooth' \in Flow \cup {None} /\ sessions' \subseteq sessions
    BY <1>7 DEF Login, Stored
  <2> QED  BY <1>1, <2>1 DEF Bounds
<1>8. ASSUME NEW t \in Tab, LoginFails(t) \/ SentBack(t) \/ Declined(t)  PROVE Attempts /\ Sessions
  BY <1>1, <1>2, <1>8 DEF LoginFails, SentBack, Declined, cookies, database, history
<1>9. ASSUME NEW f \in Flow, NEW bound, NEW answer, Handled(f, bound, answer)
      PROVE  sessions' \subseteq Flow
  BY <1>9 DEF Handled, database, Bounds
<1>10. ASSUME NEW t \in Tab, Callback(t)  PROVE Attempts /\ Sessions
  <2>1. tab[t].flow \in Flow
    BY <1>10 DEF Callback, IInv, OnItsWay, Away
  <2>2. sessions' \subseteq Flow
    BY <1>9, <1>10, <2>1 DEF Callback
  <2>3. UNCHANGED attempts /\ smooth' = None /\ session' \in Flow \cup {None}
    BY <1>10, <2>1 DEF Callback, Stored, Bounds
  <2> QED  BY <1>1, <2>2, <2>3
<1>11. ASSUME NEW t \in Tab, Visit(t) \/ Revisit(t)  PROVE Attempts /\ Sessions
  <2>1. Leave(t) /\ UNCHANGED <<attempts, session>> /\ smooth' \in Flow \cup {None}
    BY <1>11 DEF Visit, Revisit, cookies, Bounds
  <2>2. sessions' \subseteq Flow
    <3>1. CASE UNCHANGED sessions
      BY <3>1 DEF Bounds
    <3>2. CASE tab[t].at = "callback"
      <4>1. tab[t].flow \in Flow
        BY <3>2 DEF IInv, OnItsWay, Away
      <4> QED  BY <1>9, <2>1, <3>1, <4>1 DEF Leave, database
    <3> QED  BY <2>1, <3>1, <3>2 DEF Leave, database
  <2> QED  BY <1>1, <2>1, <2>2 DEF Bounds
<1>12. ASSUME NEW t \in Tab, Logout(t)  PROVE Attempts /\ Sessions
  <2>1. /\ UNCHANGED <<attempts, smooth>> /\ sessions' \subseteq sessions
        /\ session' \in {session, None}
    BY <1>12 DEF Logout, history
  <2> QED  BY <1>1, <2>1 DEF Bounds
<1>13. ASSUME NEW f \in Flow, GrowsOld(f) \/ Ends(f)  PROVE Attempts /\ Sessions
  <2>1. UNCHANGED <<attempts, session>> /\ smooth' \in {smooth, None} /\ sessions' \subseteq sessions
    BY <1>13 DEF GrowsOld, Ends, cookies, history
  <2> QED  BY <1>1, <2>1 DEF Bounds
<1> QED
  BY <1>3, <1>4, <1>5, <1>6, <1>7, <1>8, <1>10, <1>11, <1>12, <1>13 DEF Next, Outside

\* Types, and the limit of the loop breaker: no tab has more attempts on record
\* than MAX_ATTEMPTS, whatever is answered in between.
THEOREM AttemptsLimited == Spec => []TypeOK
<1>1. Init => Bounds
  BY BreakerAssumption DEF Init, Bounds, Recent
<1>2. IInv /\ Bounds => TypeOK
  BY DEF IInv, Types, Shown, Bounds, TypeOK
<1>3. Spec => []Bounds
  BY <1>1, SignInInvariant, NextBounds, PTL DEF Spec
<1> QED  BY <1>2, <1>3, SignInInvariant, PTL
=============================================================================
