------------------------------ MODULE Sessions ------------------------------
(***************************************************************************)
(* Console sessions on the hub: the table `sessions`                       *)
(* (internal/db/sessions.go) and the handlers of internal/httpapi/auth.go  *)
(* that use it.  A request is a goroutine, each statement one action:      *)
(*                                                                         *)
(*   login    insert           -> answer    Create                         *)
(*   refresh  select -> update -> answer    Rotate                         *)
(*   logout   delete           -> answer    Delete                         *)
(*   me       lookup           -> answer    RequireSession                 *)
(*                                                                         *)
(* Rotate keeps the row locked (SELECT .. FOR UPDATE) from its select to   *)
(* its commit; a statement that wants the row waits, and looks the id up   *)
(* again afterwards.  Session ids are 32 random bytes: one is never drawn  *)
(* twice.  Logins with wrong credentials touch nothing and are left out.   *)
(***************************************************************************)
EXTENDS HubCalls, Naturals

CONSTANTS
  Ids,          \* session ids; bound of the model: how many may be drawn
  Calls,        \* bound of the model: requests in flight at once
  Tabs,         \* browser tabs that send them
  AccessTTL,    \* auth.SessionAccessTTL
  Window,       \* auth.SessionRefreshWindow
  CallTakes,    \* how long a request may be under way
  MaxTime       \* bound of the model: where the clock stops

ASSUME SessionsAssumption ==
  {AccessTTL, Window, CallTakes, MaxTime} \subseteq Nat

VARIABLES
  now,          \* the clock
  sessions,     \* the rows of the table
  drawn,        \* session ids handed out by NewSessionID
  call          \* the request in each slot

sessionVars == <<now, sessions, drawn, call>>

Times == 0..(MaxTime + Window + AccessTTL)

\* `login` remembers the id the row was created under; no action reads it.
Row == [id : Ids, login : Ids, created : Times, expires : Times]

Maybe(S) == {{}} \cup {{x} : x \in S}

NoCall == [pc |-> "idle"]

\* What a request carries (cookie), works with (new, row) and answers (status
\* and the Expires of its cookie).  tab is empty once the page that sent it is
\* gone; at is when it left the browser.
Call == [pc : {"insert", "select", "update", "delete", "lookup", "answer"},
         kind : {"login", "refresh", "logout", "me"},
         tab : Maybe(Tabs), at : Times, cookie : Maybe(Ids), new : Maybe(Ids),
         row : Maybe(Row), until : Times, status : {0, 200, 204, 401, 500}]

SessionsTypeOK ==
  /\ now \in 0..MaxTime
  /\ sessions \subseteq Row
  /\ drawn \subseteq Ids
  /\ call \in [Calls -> Call \cup {NoCall}]

SessionsInit ==
  /\ now = 0
  /\ sessions = {}
  /\ drawn = {}
  /\ call = [c \in Calls |-> NoCall]

Under(c, step) == call[c] # NoCall /\ call[c].pc = step

RowsWithId(ids) == {row \in sessions : row.id \in ids}

\* The rows open Rotate transactions hold.
LockedIds == UNION {call[c].cookie : c \in {d \in Calls : Under(d, "update")}}

\* A request whose page is gone may also have lost its context.
Ends(c) == UNION {DbReplies(live) : live \in {TRUE, call[c].tab # {}}}

AnswerWith(c, status) ==
  call' = [call EXCEPT ![c] = [@ EXCEPT !.pc = "answer", !.status = status, !.row = {},
             !.until = IF status \in {200, 204} THEN now + AccessTTL ELSE 0]]

-----------------------------------------------------------------------------

\* A request as it leaves the browser.  Login and refresh draw an id before
\* they touch the table; requests without a cookie never do.
NewCall(kind, t, cookie, new) ==
  LET answered(status) == [pc |-> "answer", status |-> status]
      step == CASE kind = "login" -> [pc |-> "insert", status |-> 0]
                [] kind = "refresh" -> IF cookie = {} THEN answered(401)
                                       ELSE [pc |-> "select", status |-> 0]
                [] kind = "logout" -> IF cookie = {} THEN answered(204)
                                      ELSE [pc |-> "delete", status |-> 0]
                [] kind = "me" -> IF cookie = {} THEN answered(401)
                                  ELSE [pc |-> "lookup", status |-> 0]
  IN [pc |-> step.pc, kind |-> kind, tab |-> {t}, at |-> now,
      cookie |-> cookie, new |-> new, row |-> {}, until |-> 0, status |-> step.status]

\* NewSessionID, for the requests that call it.
Draws(kind, cookie) ==
  IF kind = "login" \/ (kind = "refresh" /\ cookie # {})
  THEN {{id} : id \in Ids \ drawn}
  ELSE {{}}

\* Create: expires_at is computed before the INSERT is sent.
Create(c) ==
  /\ Under(c, "insert")
  /\ \E reply \in Ends(c), id \in call[c].new :
       LET row == [id |-> id, login |-> id, created |-> now,
                   expires |-> now + AccessTTL]
       IN /\ sessions' = IF Done(reply) THEN sessions \cup {row} ELSE sessions
          /\ IF reply = "ok"
             THEN call' = [call EXCEPT ![c] = [@ EXCEPT !.pc = "answer", !.status = 200,
                             !.row = {row}, !.until = now + AccessTTL]]
             ELSE AnswerWith(c, 500)
  /\ UNCHANGED <<now, drawn>>

\* GetActiveWithUser: a plain SELECT, it sees what is committed.
Lookup(c) ==
  /\ Under(c, "lookup")
  /\ \E reply \in Ends(c) :
       AnswerWith(c, IF reply # "ok" THEN 500
                     ELSE IF \E row \in RowsWithId(call[c].cookie) :
                               row.expires > now
                          THEN 200 ELSE 401)
  /\ UNCHANGED <<now, sessions, drawn>>

\* Delete: errors are only logged, the answer clears the cookies anyway.
Delete(c) ==
  /\ Under(c, "delete")
  /\ call[c].cookie \cap LockedIds = {}
  /\ \E reply \in Ends(c) :
       sessions' = IF Done(reply) THEN sessions \ RowsWithId(call[c].cookie)
                                  ELSE sessions
  /\ AnswerWith(c, 204)
  /\ UNCHANGED <<now, drawn>>

\* (mutant) The SELECT does not lock the row.
RotateSelectNoLock(c) ==
  /\ Under(c, "select")
  /\ \E reply \in Ends(c) :
       IF reply # "ok" THEN AnswerWith(c, 500)
       ELSE \/ \E row \in RowsWithId(call[c].cookie) :
                 /\ now - row.created <= Window
                 /\ call' = [call EXCEPT ![c] = [@ EXCEPT !.pc = "update",
                      !.row = {[row EXCEPT !.expires = now + AccessTTL]}]]
            \/ /\ \A row \in RowsWithId(call[c].cookie) :
                    now - row.created > Window
               /\ AnswerWith(c, 401)
  /\ UNCHANGED <<now, sessions, drawn>>

\* Rotate, first statement and the checks behind it: unknown ids and rows
\* older than the window are 401, expires_at is not looked at.
RotateSelect(c) ==
  /\ Under(c, "select")
  /\ call[c].cookie \cap LockedIds = {}
  /\ \E reply \in Ends(c) :
       IF reply # "ok" THEN AnswerWith(c, 500)
       ELSE \/ \E row \in RowsWithId(call[c].cookie) :
                 /\ now - row.created <= Window
                 /\ call' = [call EXCEPT ![c] = [@ EXCEPT !.pc = "update",
                      !.row = {[row EXCEPT !.expires = now + AccessTTL]}]]
            \/ /\ \A row \in RowsWithId(call[c].cookie) :
                    now - row.created > Window
               /\ AnswerWith(c, 401)
  /\ UNCHANGED <<now, sessions, drawn>>

\* (mutants) The old row stays; the expiry is computed at the commit, or not
\* renewed.
RotateUpdateKeepsOld(c) ==
  /\ Under(c, "update")
  /\ \E reply \in Ends(c), id \in call[c].new, row \in call[c].row :
       /\ sessions' = IF Done(reply) THEN sessions \cup {[row EXCEPT !.id = id]}
                                     ELSE sessions
       /\ AnswerWith(c, IF reply = "ok" THEN 204 ELSE 500)
  /\ UNCHANGED <<now, drawn>>

RotateUpdateLate(c) ==
  /\ Under(c, "update")
  /\ \E reply \in Ends(c), id \in call[c].new, row \in call[c].row :
       /\ sessions' = IF Done(reply)
                      THEN (sessions \ RowsWithId(call[c].cookie))
                             \cup {[row EXCEPT !.id = id, !.expires = now + AccessTTL]}
                      ELSE sessions
       /\ AnswerWith(c, IF reply = "ok" THEN 204 ELSE 500)
  /\ UNCHANGED <<now, drawn>>

RotateUpdateKeepsExpiry(c) ==
  /\ Under(c, "update")
  /\ \E reply \in Ends(c), id \in call[c].new :
       /\ sessions' = IF Done(reply)
                      THEN {IF row.id \in call[c].cookie
                            THEN [row EXCEPT !.id = id] ELSE row : row \in sessions}
                      ELSE sessions
       /\ AnswerWith(c, IF reply = "ok" THEN 204 ELSE 500)
  /\ UNCHANGED <<now, drawn>>

\* Rotate, UPDATE and COMMIT.  The number of rows updated is not looked at.
RotateUpdate(c) ==
  /\ Under(c, "update")
  /\ \E reply \in Ends(c), id \in call[c].new, row \in call[c].row :
       /\ sessions' = IF Done(reply) /\ RowsWithId(call[c].cookie) # {}
                      THEN (sessions \ RowsWithId(call[c].cookie))
                             \cup {[row EXCEPT !.id = id]}
                      ELSE sessions
       /\ AnswerWith(c, IF reply = "ok" THEN 204 ELSE 500)
  /\ UNCHANGED <<now, drawn>>

\* PurgeExpired: every ten minutes and at every start of the hub, so at any
\* time.  It waits for a locked row and then finds it renewed, or meets it
\* again at the next run.
PurgeExpired ==
  /\ sessions' = {row \in sessions : row.expires >= now \/ row.id \in LockedIds}
  /\ sessions' # sessions
  /\ UNCHANGED <<now, drawn, call>>

CallStep(c) ==
  \/ Create(c) \/ Lookup(c) \/ Delete(c)
  \/ RotateSelect(c) \/ RotateUpdate(c)

-----------------------------------------------------------------------------
(* Properties *)

\* A GRANTED ID IS LIVE.  SELECT .. FOR UPDATE is there "so concurrent
\* refreshes can't both succeed": whatever else runs on the row (another
\* refresh, a logout, the purge), a refresh answered 204 has handed out an id
\* that is in the table, although Rotate never looks at RowsAffected.
GrantedIdIsLive ==
  [][\A c \in Calls :
       Under(c, "update") /\ call'[c] # NoCall /\ call'[c].status = 204
         => \E row \in sessions' : row.id \in call[c].new]_sessionVars

\* ONE SESSION PER LOGIN.  However often and by however many tabs a session
\* is refreshed, one login never leaves two live ids.
OneSessionPerLogin ==
  \A r, s \in sessions : r.login = s.login => r = s

\* THE HARD CAP.  "Beyond that the user must re-authenticate even if the
\* cookie is still present": no chain of refreshes, slow transactions
\* included, keeps a session valid past the window plus one access TTL.
HardCap ==
  \A r \in sessions : r.expires <= r.created + Window + AccessTTL

=============================================================================
