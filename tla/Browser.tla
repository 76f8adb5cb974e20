------------------------------- MODULE Browser -------------------------------
(***************************************************************************)
(* The web console in a browser: tabs that share one cookie jar, the page  *)
(* routes of internal/webui and the script static/js/camhub.js, composed   *)
(* with the handlers of Sessions.  Pages are served by the cookie's        *)
(* presence alone; the script asks /v1/auth/me when the dashboard loads,   *)
(* refreshes every RefreshEvery while its tab is visible and goes to       *)
(* /login on a 401.  Answers reach the browser in any order.               *)
(*                                                                         *)
(* The session and the CSRF cookie are set, cleared and expire together;   *)
(* the jar stands for both.                                                *)
(***************************************************************************)
EXTENDS Sessions

CONSTANTS
  RefreshEvery, \* REFRESH_EVERY_MS
  Watched       \* the tabs whose history is recorded, for the properties
ASSUME BrowserAssumption ==
  /\ RefreshEvery \in Nat \ {0}
  /\ RefreshEvery < AccessTTL
  /\ CallTakes < AccessTTL    \* a Set-Cookie has not expired when it arrives

VARIABLES
  jar,        \* the cookie
  tab         \* the page in each tab and its ticker

vars == <<sessionVars, jar, tab>>

NoCookie == [id |-> {}, until |-> 0]

\* timer is when the ticker fires next, empty while it is stopped; since
\* (when the session was created under which the user signed in here) and
\* bounces (redirects from /login to / in a row that a refused cookie caused,
\* counted up to 2) are history.
Page == [page : {"closed", "login", "dash"}, timer : Maybe(Times),
         since : Maybe(Times), bounces : 0..2]

BrowserTypeOK ==
  /\ SessionsTypeOK
  /\ jar \in [id : Maybe(Ids), until : Times]
  /\ jar.id # {} => now < jar.until
  /\ tab \in [Tabs -> Page]

Init ==
  /\ SessionsInit
  /\ jar = NoCookie
  /\ tab = [t \in Tabs |-> [page |-> "closed", timer |-> {}, since |-> {},
                            bounces |-> 0]]

-----------------------------------------------------------------------------
(* Pages *)

\* The page of tab t goes away: its fetches are aborted, the hub may have
\* taken them further and Set-Cookie may still arrive.
Abandon(t, c) == IF call[c] # NoCall /\ call[c].tab = {t}
                 THEN [call[c] EXCEPT !.tab = {}] ELSE call[c]

\* The browser loads / in tab t, slot c taking the first fetch of the page:
\* RequireSessionCookie looks at the presence of a cookie only.
LoadDash(t, c, cookie, since, bounces) ==
  /\ tab' = [tab EXCEPT ![t] = [page |-> "dash", timer |-> {now + RefreshEvery},
                                since |-> IF t \in Watched THEN since ELSE {},
                                bounces |-> IF t \in Watched THEN bounces ELSE 0]]
  /\ call' = [x \in Calls |-> IF x = c THEN NewCall("me", t, cookie, {})
                                       ELSE Abandon(t, x)]

LoadLogin(t, c) ==
  /\ tab' = [tab EXCEPT ![t] = [@ EXCEPT !.page = "login", !.timer = {}, !.bounces = 0]]
  /\ call' = [x \in Calls |-> IF x = c THEN NoCall ELSE Abandon(t, x)]

\* The user opens or reloads / in a tab.
Visit(t) ==
  /\ \E c \in Calls :
       /\ call[c] = NoCall
       /\ IF jar.id = {} THEN LoadLogin(t, c)
                         ELSE LoadDash(t, c, jar.id, tab[t].since, 0)
  /\ UNCHANGED <<now, sessions, drawn, jar>>

\* location.replace("/login") after a 401 or a logout:
\* RedirectIfAuthenticated sends whoever has a cookie back to /.
ReplaceWithLogin(t, c, cookie) ==
  IF cookie = {} THEN LoadLogin(t, c)
  ELSE LoadDash(t, c, cookie, tab[t].since,
                IF call[c].status # 401 \/ call[c].cookie # cookie THEN 0
                ELSE IF tab[t].bounces = 2 THEN 2 ELSE tab[t].bounces + 1)

-----------------------------------------------------------------------------
(* Requests *)

Send(kind, t) ==
  \E c \in Calls, new \in Draws(kind, jar.id) :
    /\ call[c] = NoCall
    /\ call' = [call EXCEPT ![c] = NewCall(kind, t, jar.id, new)]
    /\ drawn' = drawn \cup new

\* The form is disabled while its request is under way.
SubmitLogin(t) ==
  /\ tab[t].page = "login"
  /\ \A c \in Calls : call[c] # NoCall => call[c].tab # {t}
  /\ Send("login", t)
  /\ UNCHANGED <<now, sessions, jar, tab>>

ClickLogout(t) ==
  /\ tab[t].page = "dash"
  /\ Send("logout", t)
  /\ UNCHANGED <<now, sessions, jar, tab>>

\* (mutant) The ticker fires once.
TickerFiresOnce(t) ==
  /\ tab[t].timer = {now}
  /\ Send("refresh", t)
  /\ tab' = [tab EXCEPT ![t].timer = {}]
  /\ UNCHANGED <<now, sessions, jar>>

\* setInterval(doRefresh, REFRESH_EVERY_MS)
TickerFires(t) ==
  /\ tab[t].timer = {now}
  /\ Send("refresh", t)
  /\ tab' = [tab EXCEPT ![t].timer = {now + RefreshEvery}]
  /\ UNCHANGED <<now, sessions, jar>>

\* visibilitychange: the interval starts afresh when the tab is shown.
Hide(t) ==
  /\ tab[t].page = "dash" /\ tab[t].timer # {}
  /\ tab' = [tab EXCEPT ![t].timer = {}]
  /\ UNCHANGED <<sessionVars, jar>>

Show(t) ==
  /\ tab[t].page = "dash" /\ tab[t].timer = {}
  /\ tab' = [tab EXCEPT ![t].timer = {now + RefreshEvery}]
  /\ UNCHANGED <<sessionVars, jar>>

-----------------------------------------------------------------------------
(* Answers *)

\* The jar after the answer of call c.  me and every 500 leave it alone.
JarAfter(c) ==
  CASE call[c].status \in {200, 204} /\ call[c].kind \in {"login", "refresh"} ->
         [id |-> call[c].new, until |-> call[c].until]
    [] call[c].kind = "logout" \/ (call[c].kind = "refresh" /\ call[c].status = 401) ->
         NoCookie
    [] OTHER -> jar

\* The answer sends the tab to /login.
Ousts(c) == \/ call[c].kind = "logout"
            \/ call[c].kind \in {"refresh", "me"} /\ call[c].status = 401

SignsIn(c) == call[c].kind = "login" /\ call[c].status = 200

\* The answer of c arrives in a tab that still shows the page it is for.
Deliver(c) ==
  /\ Under(c, "answer")
  /\ jar' = JarAfter(c)
  /\ \E t \in call[c].tab :
       \/ /\ SignsIn(c)
          /\ LoadDash(t, c, jar'.id, {row.created : row \in call[c].row}, 0)
       \/ Ousts(c) /\ ReplaceWithLogin(t, c, jar'.id)
       \/ /\ ~SignsIn(c) /\ ~Ousts(c)
          /\ call' = [call EXCEPT ![c] = NoCall]
          /\ UNCHANGED tab
  /\ UNCHANGED <<now, sessions, drawn>>

\* The answer to a page that is gone: its cookies count, or it never comes.
DeliverOrphan(c) ==
  /\ Under(c, "answer") /\ call[c].tab = {}
  /\ jar' \in {jar, JarAfter(c)}
  /\ call' = [call EXCEPT ![c] = NoCall]
  /\ UNCHANGED <<now, sessions, drawn, tab>>

\* The answer is lost, or the hub dies before it is written and an open
\* transaction is rolled back: fetch rejects.  logout goes to /login all the
\* same (finally), the others say "network error".
FetchFails(c) ==
  /\ "gone" \in Faults
  /\ call[c] # NoCall
  /\ \E t \in call[c].tab :
       IF call[c].kind = "logout" THEN ReplaceWithLogin(t, c, jar.id)
       ELSE /\ call' = [call EXCEPT ![c] = NoCall]
            /\ UNCHANGED tab
  /\ UNCHANGED <<now, sessions, drawn, jar>>

\* (mutant) A cookie without Expires.
TickKeepsCookie ==
  /\ now < MaxTime
  /\ \A t \in Tabs : now \notin tab[t].timer
  /\ \A c \in Calls : call[c] # NoCall => now < call[c].at + CallTakes
  /\ now' = now + 1
  /\ UNCHANGED <<sessions, drawn, call, jar, tab>>

\* The clock, with the cookie's Expires.  No ticker is overdue and no request
\* under way for longer than CallTakes.
Tick ==
  /\ now < MaxTime
  /\ \A t \in Tabs : now \notin tab[t].timer
  /\ \A c \in Calls : call[c] # NoCall => now < call[c].at + CallTakes
  /\ now' = now + 1
  /\ jar' = IF jar.until <= now' THEN NoCookie ELSE jar
  /\ UNCHANGED <<sessions, drawn, call, tab>>

-----------------------------------------------------------------------------

ServerStep ==
  /\ PurgeExpired \/ \E c \in Calls : CallStep(c)
  /\ UNCHANGED <<jar, tab>>

Answered == \E c \in Calls : Deliver(c) \/ DeliverOrphan(c) \/ FetchFails(c)

Next ==
  \/ ServerStep \/ Answered \/ Tick
  \/ \E t \in Tabs :
       \/ Visit(t) \/ SubmitLogin(t) \/ ClickLogout(t)
       \/ TickerFires(t) \/ Hide(t) \/ Show(t)

Spec == Init /\ [][Next]_vars

\* A user who signs in once in one tab and leaves it in view.
WatchNext ==
  \/ ServerStep \/ Answered \/ Tick
  \/ \E t \in Tabs :
       \/ (tab[t].page = "closed" /\ Visit(t))
       \/ SubmitLogin(t) \/ TickerFires(t)

WatchSpec == Init /\ [][WatchNext]_vars

-----------------------------------------------------------------------------
(* Properties *)

\* STAYS SIGNED IN.  "This keeps the 15-min access window invisible to
\* operators": until the refresh window of a login has passed, the dashboard
\* it led to, left in view in one tab, is not sent to the login page, and its
\* cookie is one RequireSession accepts, or about to be replaced by a refresh
\* under way, whatever the purge does and however long, within CallTakes,
\* each request takes.
StaysSignedIn ==
  \A t \in Watched, created \in Times :
    tab[t].since = {created} /\ now <= created + Window =>
      /\ tab[t].page = "dash"
      /\ \/ \E row \in RowsWithId(jar.id) : row.expires > now
         \/ \E c \in Calls : call[c] # NoCall /\ call[c].kind = "refresh"

\* A STALE COOKIE BOUNCES ONCE.  "A stale cookie may bounce a user to / and
\* immediately back when the dashboard's first XHR returns 401, but that's a
\* single round trip."
BouncesOnce == \A t \in Watched : tab[t].bounces <= 1

=============================================================================
