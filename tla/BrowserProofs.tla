---------------------------- MODULE BrowserProofs ----------------------------
(***************************************************************************)
(* Proofs about Browser: console sessions as the hub's requests and the    *)
(* browser's tabs interleave, for any numbers of ids, slots and tabs, any  *)
(* times that satisfy the assumptions, and all faults; and at the end,     *)
(* that a user who signs in and keeps one tab in view stays signed in, if  *)
(* nothing fails and the ticker leaves the cookie two round trips.         *)
(***************************************************************************)
EXTENDS Browser, TLAPS

-----------------------------------------------------------------------------
(* The inductive invariant *)

\* What a request knows about time: it has not been under way for longer
\* than CallTakes, and the cookie of a granted answer has all its TTL left
\* when it is written.
Timely(q) ==
  /\ q.at <= now /\ now <= q.at + CallTakes
  /\ q.pc # "answer" => q.status = 0
  /\ q.pc = "answer" /\ q.kind \in {"login", "refresh"} /\ q.status \in {200, 204}
       => q.until >= q.at + AccessTTL

CallInv == \A c \in Calls : call[c] # NoCall => Timely(call[c])

\* The row lock.  An open Rotate transaction holds the row of its cookie,
\* which nobody changes or removes, and holds it alone; the copy it works
\* with differs from the row by an expiry within the cap.
Holds(q) ==
  \E held \in sessions, copy \in Row :
    /\ q.cookie = {held.id} /\ q.row = {copy}
    /\ copy.login = held.login /\ copy.created = held.created
    /\ copy.expires <= copy.created + Window + AccessTTL

LockInv == \A c \in Calls : Under(c, "update") => Holds(call[c])

LockedOnce ==
  \A c, d \in Calls :
    c # d /\ Under(c, "update") /\ Under(d, "update")
      => call[c].cookie \cap call[d].cookie = {}

\* An id a request has drawn is nobody else's until its row is written.
Pending(c) == call[c] # NoCall /\ call[c].pc \in {"insert", "select", "update"}

DrawnInv == \A r \in sessions : r.id \in drawn /\ r.login \in drawn

FreshInv ==
  \A c \in Calls : Pending(c) =>
    /\ call[c].new \subseteq drawn
    /\ \A r \in sessions : r.id \notin call[c].new /\ r.login \notin call[c].new

FreshOnce ==
  \A c, d \in Calls :
    c # d /\ Pending(c) /\ Pending(d) => call[c].new \cap call[d].new = {}

RequestInv == CallInv /\ LockInv /\ LockedOnce /\ DrawnInv /\ FreshInv /\ FreshOnce

BrowserInv == BrowserTypeOK /\ RequestInv /\ OneSessionPerLogin /\ HardCap

-----------------------------------------------------------------------------
(* Requests that move while the clock stands still *)

\* The constants of time are numbers; a cookie outlives a request and the ticker.
LEMMA Durations ==
  /\ AccessTTL \in Nat /\ Window \in Nat /\ CallTakes \in Nat /\ MaxTime \in Nat
  /\ RefreshEvery \in Nat /\ RefreshEvery < AccessTTL /\ CallTakes < AccessTTL
BY SessionsAssumption, BrowserAssumption

\* A request that stays as it is, or that loses its page.
Kept(x) == \/ call'[x] = call[x]
           \/ call[x] # NoCall /\ call'[x] = [call[x] EXCEPT !.tab = {}]

\* What a request keeps that loses its page: all but the tab.
LEMMA KeptCall ==
  ASSUME SessionsTypeOK, NEW x \in Calls, Kept(x)
  PROVE  /\ call'[x] \in Call \cup {NoCall}
         /\ call'[x] = NoCall <=> call[x] = NoCall
         /\ call[x] # NoCall =>
              /\ call'[x].pc = call[x].pc /\ call'[x].kind = call[x].kind
              /\ call'[x].at = call[x].at /\ call'[x].cookie = call[x].cookie
              /\ call'[x].new = call[x].new /\ call'[x].row = call[x].row
              /\ call'[x].until = call[x].until /\ call'[x].status = call[x].status
<1>1. CASE call'[x] = call[x]
  BY <1>1 DEF SessionsTypeOK
<1>2. CASE call[x] # NoCall /\ call'[x] = [call[x] EXCEPT !.tab = {}]
  <2>1. call[x] \in Call
    BY <1>2 DEF SessionsTypeOK
  <2>2. call'[x] \in Call
    BY <1>2, <2>1 DEF Call, Maybe
  <2>3. NoCall \notin Call
    BY DEF NoCall, Call
  <2> QED
    BY <1>2, <2>1, <2>2, <2>3 DEF Call
<1> QED
  BY <1>1, <1>2 DEF Kept

\* One slot settles: it is freed, takes an answer, or takes a new request with
\* an id nobody has drawn before.  The others are kept, and so are the rows
\* they hold and the ids they are about to write.
Settled(q) ==
  \/ q = NoCall
  \/ /\ q \in Call /\ Timely(q) /\ q.pc # "update"
     /\ q.pc \in {"insert", "select"} => q.new \subseteq drawn' \ drawn

\* A step of one request that settles it keeps the request invariants of all, if
\* new rows have ids that are not pending and no locked row is removed.
LEMMA RequestsMove ==
  ASSUME SessionsTypeOK, RequestInv, NEW c \in Calls,
         now' = now, drawn \subseteq drawn', call' \in [Calls -> Call \cup {NoCall}],
         \A x \in Calls \ {c} : Kept(x),
         Settled(call'[c]),
         \A r \in sessions' \ sessions :
           /\ r.id \in drawn /\ r.login \in drawn
           /\ \A x \in Calls \ {c} : Pending(x) => /\ r.id \notin call[x].new
                                                   /\ r.login \notin call[x].new,
         \A r \in sessions \ sessions' :
           \A x \in Calls \ {c} : Under(x, "update") => r.id \notin call[x].cookie
  PROVE  RequestInv'
<1> USE DEF RequestInv
<1>1. \A x \in Calls \ {c} :
        /\ call'[x] = NoCall <=> call[x] = NoCall
        /\ call[x] # NoCall =>
             /\ call'[x].pc = call[x].pc /\ call'[x].kind = call[x].kind
             /\ call'[x].at = call[x].at /\ call'[x].cookie = call[x].cookie
             /\ call'[x].new = call[x].new /\ call'[x].row = call[x].row
             /\ call'[x].until = call[x].until /\ call'[x].status = call[x].status
  BY KeptCall
<1>2. /\ Under(c, "update")' = FALSE
      /\ Pending(c)' => call'[c].new \subseteq drawn' \ drawn
  BY DEF Settled, Under, Pending
<1>3. \A x \in Calls \ {c} : /\ Under(x, "update")' <=> Under(x, "update")
                             /\ Pending(x)' <=> Pending(x)
                             /\ Pending(x) => call'[x].new = call[x].new
  BY <1>1 DEF Under, Pending
<1>4. CallInv'
  <2>1. \A x \in Calls \ {c} : call'[x] # NoCall => Timely(call'[x])
    BY <1>1 DEF CallInv, Timely
  <2>2. call'[c] # NoCall => Timely(call'[c])
    BY DEF Settled
  <2> QED
    BY <2>1, <2>2 DEF CallInv, Timely
<1>5. LockInv'
  <2> SUFFICES ASSUME NEW x \in Calls, Under(x, "update")' PROVE Holds(call[x])'
    BY DEF LockInv
  <2>1. x # c /\ Under(x, "update") /\ call[x] # NoCall
    BY <1>2, <1>3 DEF Under
  <2>2. PICK held \in sessions, copy \in Row :
          /\ call[x].cookie = {held.id} /\ call[x].row = {copy}
          /\ copy.login = held.login /\ copy.created = held.created
          /\ copy.expires <= copy.created + Window + AccessTTL
    BY <2>1 DEF LockInv, Holds
  <2>3. held \in sessions'
    BY <2>1, <2>2
  <2>4. call'[x].cookie = call[x].cookie /\ call'[x].row = call[x].row
    BY <1>1, <2>1
  <2> QED
    BY <2>2, <2>3, <2>4 DEF Holds
<1>6. LockedOnce'
  <2> SUFFICES ASSUME NEW x \in Calls, NEW y \in Calls, x # y,
                      Under(x, "update")', Under(y, "update")'
               PROVE  call'[x].cookie \cap call'[y].cookie = {}
    BY DEF LockedOnce
  <2>1. x # c /\ y # c /\ Under(x, "update") /\ Under(y, "update")
        /\ call[x] # NoCall /\ call[y] # NoCall
    BY <1>2, <1>3 DEF Under
  <2>2. call'[x].cookie = call[x].cookie /\ call'[y].cookie = call[y].cookie
    BY <1>1, <2>1
  <2> QED
    BY <2>1, <2>2 DEF LockedOnce
<1>7. \A r \in sessions' : r.id \in drawn /\ r.login \in drawn
  BY DEF DrawnInv
<1>8. DrawnInv'
  BY <1>7 DEF DrawnInv
<1>9. FreshInv'
  <2>1. \A x \in Calls \ {c} : Pending(x) =>
          /\ call[x].new \subseteq drawn'
          /\ \A r \in sessions' : r.id \notin call[x].new /\ r.login \notin call[x].new
    BY DEF FreshInv
  <2> QED
    BY <1>2, <1>3, <1>7, <2>1 DEF FreshInv
<1>10. FreshOnce'
  <2> SUFFICES ASSUME NEW x \in Calls, NEW y \in Calls, x # y, Pending(x)', Pending(y)'
               PROVE  call'[x].new \cap call'[y].new = {}
    BY DEF FreshOnce
  <2>1. \A z \in Calls \ {c} : Pending(z) => call[z].new \subseteq drawn
    BY DEF FreshInv
  <2>2. CASE x = c
    BY <1>2, <1>3, <2>1, <2>2
  <2>3. CASE y = c
    BY <1>2, <1>3, <2>1, <2>3
  <2>4. CASE x # c /\ y # c
    BY <1>3, <2>4 DEF FreshOnce
  <2> QED
    BY <2>2, <2>3, <2>4
<1> QED
  BY <1>4, <1>5, <1>6, <1>8, <1>9, <1>10

\* A request's record after the updates of a step.
AnswerTo(q, status, row, until) ==
  [q EXCEPT !.pc = "answer", !.status = status, !.row = row, !.until = until]

WithCopy(q, copy) == [q EXCEPT !.pc = "update", !.row = {copy}]

\* What an answer changes in a request, field by field.
LEMMA CallAnswered ==
  ASSUME NEW q \in Call, NEW status \in {200, 204, 401, 500}, NEW row \in Maybe(Row),
         NEW until \in Times
  PROVE  LET r == AnswerTo(q, status, row, until)
         IN  /\ r \in Call /\ r.pc = "answer" /\ r.kind = q.kind /\ r.at = q.at
             /\ r.new = q.new /\ r.row = row /\ r.until = until /\ r.status = status
<1> DEFINE r == AnswerTo(q, status, row, until)
<1> DEFINE q1 == [q EXCEPT !.pc = "answer"]
           q2 == [q1 EXCEPT !.status = status]
           q3 == [q2 EXCEPT !.row = row]
           q4 == [q3 EXCEPT !.until = until]
<1>1. q1 \in Call
  BY DEF Call
<1>2. ASSUME NEW p \in Call PROVE [p EXCEPT !.status = status] \in Call
  BY DEF Call
<1>3. ASSUME NEW p \in Call PROVE [p EXCEPT !.row = row] \in Call
  BY DEF Call
<1>4. ASSUME NEW p \in Call PROVE [p EXCEPT !.until = until] \in Call
  BY DEF Call
<1>5. r \in Call
  <2>1. q2 \in Call
    BY <1>1, <1>2
  <2>2. q3 \in Call
    BY <2>1, <1>3
  <2>3. q4 \in Call
    BY <2>2, <1>4
  <2>4. r = q4
    BY DEF AnswerTo
  <2> QED
    BY <2>3, <2>4
<1>6. /\ r.pc = "answer" /\ r.kind = q.kind /\ r.at = q.at
      /\ r.new = q.new /\ r.row = row /\ r.until = until /\ r.status = status
  BY DEF Call, AnswerTo
<1> QED
  BY <1>5, <1>6

\* What the SELECT of a rotation changes in a request, field by field.
LEMMA CallAdvanced ==
  ASSUME NEW q \in Call, NEW copy \in Row
  PROVE  LET r == WithCopy(q, copy)
         IN  /\ r \in Call /\ r.pc = "update" /\ r.kind = q.kind /\ r.at = q.at
             /\ r.cookie = q.cookie /\ r.new = q.new /\ r.row = {copy}
             /\ r.status = q.status
<1> DEFINE r == WithCopy(q, copy)
           q1 == [q EXCEPT !.pc = "update"]
           q2 == [q1 EXCEPT !.row = {copy}]
<1>1. q1 \in Call
  BY DEF Call
<1>2. ASSUME NEW p \in Call PROVE [p EXCEPT !.row = {copy}] \in Call
  BY DEF Call, Maybe
<1>3. r \in Call
  <2>1. q2 \in Call
    BY <1>1, <1>2
  <2>2. r = q2
    BY DEF WithCopy
  <2> QED
    BY <2>1, <2>2
<1>4. /\ r.pc = "update" /\ r.kind = q.kind /\ r.at = q.at /\ r.cookie = q.cookie
      /\ r.new = q.new /\ r.row = {copy} /\ r.status = q.status
  BY DEF Call, WithCopy
<1> QED
  BY <1>3, <1>4

\* An answer is a settled slot: its cookie, if it grants one, has its whole
\* TTL left.
Until(status) == IF status \in {200, 204} THEN now + AccessTTL ELSE 0

\* An answered request is settled: in time, with the full TTL if it is granted.
LEMMA AnswerSettles ==
  ASSUME BrowserInv, NEW c \in Calls, call[c] # NoCall,
         NEW status \in {200, 204, 401, 500}, NEW row \in Maybe(Row)
  PROVE  LET r == AnswerTo(call[c], status, row, Until(status))
         IN  r \in Call /\ Settled(r) /\ r.pc = "answer" /\ r.status = status
<1> DEFINE r == AnswerTo(call[c], status, row, Until(status))
<1>1. call[c] \in Call /\ Timely(call[c]) /\ now \in 0 .. MaxTime
  BY DEF BrowserInv, BrowserTypeOK, SessionsTypeOK, RequestInv, CallInv
<1>2. Until(status) \in Times /\ (status \in {200, 204} => Until(status) = now + AccessTTL)
  BY <1>1, Durations DEF Times, Until
<1>3. /\ r \in Call /\ r.pc = "answer" /\ r.at = call[c].at
      /\ r.status = status /\ r.until = Until(status)
  BY <1>1, <1>2, CallAnswered
<1> HIDE DEF r
<1>4. call[c].at \in Nat /\ now \in Nat
  BY <1>1, Durations DEF Call, Times
<1>5. Timely(r)
  BY <1>1, <1>2, <1>3, <1>4, Durations DEF Timely
<1>6. Settled(r)
  BY <1>3, <1>5 DEF Settled
<1> QED
  BY <1>3, <1>6 DEF r

\* The same for the step that answers without touching a row.
LEMMA AnswerWithSettles ==
  ASSUME BrowserInv, NEW c \in Calls, call[c] # NoCall,
         NEW status \in {200, 204, 401, 500}, AnswerWith(c, status)
  PROVE  /\ call' \in [Calls -> Call \cup {NoCall}]
         /\ \A x \in Calls \ {c} : Kept(x)
         /\ Settled(call'[c])
         /\ call'[c].pc = "answer" /\ call'[c].status = status
<1> DEFINE r == AnswerTo(call[c], status, {}, Until(status))
<1>1. call' = [call EXCEPT ![c] = r]
  BY DEF AnswerWith, AnswerTo, Until
<1>2. r \in Call /\ Settled(r) /\ r.pc = "answer" /\ r.status = status
  <2>1. {} \in Maybe(Row)
    BY DEF Maybe
  <2> QED
    BY <2>1, AnswerSettles
<1> HIDE DEF r
<1>3. call \in [Calls -> Call \cup {NoCall}]
  BY DEF BrowserInv, BrowserTypeOK, SessionsTypeOK
<1> QED
  BY <1>1, <1>2, <1>3 DEF Kept

\* A request leaves the browser with an id nobody has drawn, or with none.
LEMMA NewCallSettles ==
  ASSUME BrowserInv, NEW kind \in {"login", "refresh", "logout", "me"},
         NEW t \in Tabs, NEW cookie \in Maybe(Ids), NEW new \in Draws(kind, cookie),
         new \subseteq drawn'
  PROVE  /\ Settled(NewCall(kind, t, cookie, new)) /\ new \in SUBSET Ids
         /\ NewCall(kind, t, cookie, new).status = 204 => kind = "logout"
<1> DEFINE q == NewCall(kind, t, cookie, new)
<1>1. new \in Maybe(Ids) /\ new \cap drawn = {} /\ new \in SUBSET Ids
  BY DEF Draws, Maybe
<1>2. PICK pc \in {"insert", "select", "delete", "lookup", "answer"},
           status \in {0, 204, 401} :
        /\ q = [pc |-> pc, kind |-> kind, tab |-> {t}, at |-> now, cookie |-> cookie,
                new |-> new, row |-> {}, until |-> 0, status |-> status]
        /\ pc # "answer" => status = 0
        /\ status = 204 => kind = "logout"
  <2> DEFINE Sent(pc, status) ==
               [pc |-> pc, kind |-> kind, tab |-> {t}, at |-> now, cookie |-> cookie,
                new |-> new, row |-> {}, until |-> 0, status |-> status]
  <2>1. \/ kind = "login" /\ q = Sent("insert", 0)
        \/ kind = "refresh" /\ (q = Sent("answer", 401) \/ q = Sent("select", 0))
        \/ kind = "logout" /\ (q = Sent("answer", 204) \/ q = Sent("delete", 0))
        \/ kind = "me" /\ (q = Sent("answer", 401) \/ q = Sent("lookup", 0))
    <3>1. CASE kind = "login"
      BY <3>1 DEF NewCall
    <3>2. CASE kind = "refresh"
      BY <3>2 DEF NewCall
    <3>3. CASE kind = "logout"
      BY <3>3 DEF NewCall
    <3>4. CASE kind = "me"
      BY <3>4 DEF NewCall
    <3> QED
      BY <3>1, <3>2, <3>3, <3>4
  <2> HIDE DEF Sent, q
  <2>2. \E pc \in {"insert", "select", "delete", "lookup", "answer"},
           status \in {0, 204, 401} :
          /\ q = Sent(pc, status)
          /\ pc # "answer" => status = 0
          /\ status = 204 => kind = "logout"
    BY <2>1
  <2> QED
    BY <2>2 DEF Sent, q
<1> HIDE DEF q
<1>3. now \in 0 .. MaxTime /\ now \in Times /\ 0 \in Times
  BY Durations DEF BrowserInv, BrowserTypeOK, SessionsTypeOK, Times
<1>4. q \in Call
  <2>1. {} \in Maybe(Row) /\ {t} \in Maybe(Tabs)
    BY DEF Maybe
  <2> QED
    BY <1>1, <1>2, <1>3, <2>1 DEF Call
<1>5. Timely(q)
  BY <1>2, <1>3, Durations DEF Timely
<1>6. Settled(q) /\ (q.status = 204 => kind = "logout")
  BY <1>1, <1>2, <1>4, <1>5 DEF Settled
<1> QED
  BY <1>1, <1>6 DEF q

-----------------------------------------------------------------------------
(* The statements of the hub *)

TableInv == SessionsTypeOK /\ RequestInv /\ OneSessionPerLogin /\ HardCap

\* The invariant in the form the steps of the hub need it.
LEMMA TableFacts ==
  ASSUME BrowserInv
  PROVE  /\ TableInv /\ now \in Nat /\ now <= MaxTime
         /\ call \in [Calls -> Call \cup {NoCall}]
         /\ \A r \in sessions : /\ r \in Row /\ r.id \in Ids /\ r.login \in Ids
                                /\ r.created \in Nat /\ r.expires \in Nat
BY Durations DEF BrowserInv, BrowserTypeOK, TableInv, SessionsTypeOK, Row, Times

\* A step that writes no row.
LEMMA RowsRemain ==
  ASSUME BrowserInv, NEW c \in Calls, call[c] # NoCall, now' = now, drawn' = drawn,
         sessions' \subseteq sessions,
         call[c].cookie \cap LockedIds = {} \/ sessions' = sessions,
         \A r \in sessions \ sessions' : r.id \in call[c].cookie,
         NEW status \in {200, 204, 401, 500}, AnswerWith(c, status)
  PROVE  TableInv'
<1>1. /\ call' \in [Calls -> Call \cup {NoCall}]
      /\ \A x \in Calls \ {c} : Kept(x)
      /\ Settled(call'[c])
  BY AnswerWithSettles
<1>2. \A r \in sessions \ sessions' :
        \A x \in Calls \ {c} : Under(x, "update") => r.id \notin call[x].cookie
  BY DEF LockedIds
<1>3. RequestInv'
  BY <1>1, <1>2, TableFacts, RequestsMove DEF TableInv
<1>4. SessionsTypeOK'
  BY <1>1, TableFacts DEF TableInv, SessionsTypeOK
<1>5. OneSessionPerLogin' /\ HardCap'
  BY TableFacts DEF TableInv, OneSessionPerLogin, HardCap
<1> QED
  BY <1>3, <1>4, <1>5 DEF TableInv

\* A logout or a query of the session keeps the table.
LEMMA DeleteStep ==
  ASSUME BrowserInv, NEW c \in Calls, Lookup(c) \/ Delete(c)
  PROVE  TableInv'
<1>1. call[c] # NoCall
  BY DEF Lookup, Delete, Under
<1>2. PICK status \in {200, 204, 401, 500} : AnswerWith(c, status)
  BY DEF Lookup, Delete
<1>3. /\ now' = now /\ drawn' = drawn /\ sessions' \subseteq sessions
      /\ call[c].cookie \cap LockedIds = {} \/ sessions' = sessions
      /\ \A r \in sessions \ sessions' : r.id \in call[c].cookie
  BY DEF Lookup, Delete, RowsWithId
<1> QED
  BY <1>1, <1>2, <1>3, RowsRemain

\* A login that inserts its row keeps the table: its id has never been drawn.
LEMMA CreateStep ==
  ASSUME BrowserInv, NEW c \in Calls, Create(c)
  PROVE  TableInv'
<1>1. PICK reply \in Ends(c), id \in call[c].new :
        LET row == [id |-> id, login |-> id, created |-> now,
                    expires |-> now + AccessTTL]
        IN /\ sessions' = IF Done(reply) THEN sessions \cup {row} ELSE sessions
           /\ IF reply = "ok"
              THEN call' = [call EXCEPT ![c] = [@ EXCEPT !.pc = "answer", !.status = 200,
                              !.row = {row}, !.until = now + AccessTTL]]
              ELSE AnswerWith(c, 500)
  BY DEF Create
<1> DEFINE row == [id |-> id, login |-> id, created |-> now, expires |-> now + AccessTTL]
<1>2. /\ call[c] # NoCall /\ Pending(c) /\ call[c] \in Call
      /\ now' = now /\ drawn' = drawn
  BY TableFacts DEF Create, Under, Pending
<1>3. id \in Ids /\ id \in drawn
  BY <1>2, TableFacts DEF TableInv, RequestInv, FreshInv, Call, Maybe
<1>4. /\ row \in Row /\ row.id = id /\ row.login = id
      /\ row.created = now /\ row.expires = now + AccessTTL
  BY <1>3, TableFacts, Durations DEF Row, Times
<1>5. sessions' = sessions \/ sessions' = sessions \cup {row}
  BY <1>1
<1> DEFINE r == AnswerTo(call[c], 200, {row}, Until(200))
<1>6. call' = [call EXCEPT ![c] = r] \/ AnswerWith(c, 500)
  BY <1>1 DEF AnswerTo, Until
<1> HIDE DEF row
<1>7. /\ call' \in [Calls -> Call \cup {NoCall}]
      /\ \A x \in Calls \ {c} : Kept(x)
      /\ Settled(call'[c])
  <2>1. {row} \in Maybe(Row)
    BY <1>4 DEF Maybe
  <2>2. r \in Call /\ Settled(r)
    BY <1>2, <2>1, AnswerSettles
  <2> HIDE DEF r
  <2>3. CASE call' = [call EXCEPT ![c] = r]
    BY <2>2, <2>3, TableFacts DEF Kept
  <2>4. CASE AnswerWith(c, 500)
    BY <1>2, <2>4, AnswerWithSettles
  <2> QED
    BY <1>6, <2>3, <2>4
<1>8. RequestInv'
  <2>1. \A o \in sessions' \ sessions :
          /\ o.id \in drawn /\ o.login \in drawn
          /\ \A x \in Calls \ {c} : Pending(x) => /\ o.id \notin call[x].new
                                                  /\ o.login \notin call[x].new
    BY <1>2, <1>3, <1>4, <1>5, TableFacts DEF TableInv, RequestInv, FreshOnce
  <2> QED
    BY <1>2, <1>5, <1>7, <2>1, TableFacts, RequestsMove DEF TableInv
<1>9. SessionsTypeOK'
  BY <1>2, <1>4, <1>5, <1>7, TableFacts DEF TableInv, SessionsTypeOK
<1>10. OneSessionPerLogin'
  <2>1. \A o \in sessions : o.login # id
    BY <1>2, TableFacts DEF TableInv, RequestInv, FreshInv
  <2> QED
    BY <1>4, <1>5, <2>1, TableFacts DEF TableInv, OneSessionPerLogin
<1>11. HardCap'
  BY <1>4, <1>5, TableFacts, Durations DEF TableInv, HardCap
<1> QED
  BY <1>8, <1>9, <1>10, <1>11 DEF TableInv

\* The first statement of Rotate takes the lock.
LEMMA RotateSelectStep ==
  ASSUME BrowserInv, NEW c \in Calls, RotateSelect(c)
  PROVE  TableInv'
<1>1. /\ call[c] # NoCall /\ Pending(c) /\ ~Under(c, "update")
      /\ call[c] \in Call /\ call[c].status = 0
      /\ call[c].cookie \cap LockedIds = {}
      /\ now' = now /\ sessions' = sessions /\ drawn' = drawn
  BY TableFacts DEF RotateSelect, Under, Pending, TableInv, RequestInv, CallInv, Timely
<1> DEFINE After(row) ==
             [call EXCEPT ![c] = [@ EXCEPT !.pc = "update",
                !.row = {[row EXCEPT !.expires = now + AccessTTL]}]]
<1>2. PICK reply \in Ends(c) :
        IF reply # "ok" THEN AnswerWith(c, 500)
        ELSE \/ \E row \in RowsWithId(call[c].cookie) :
                  now - row.created <= Window /\ call' = After(row)
             \/ /\ \A row \in RowsWithId(call[c].cookie) :
                     now - row.created > Window
                /\ AnswerWith(c, 401)
  BY DEF RotateSelect
<1>3. CASE AnswerWith(c, 401) \/ AnswerWith(c, 500)
  BY <1>1, <1>3, RowsRemain
<1>4. ASSUME NEW held \in RowsWithId(call[c].cookie),
             now - held.created <= Window, call' = After(held)
      PROVE  TableInv'
  <2> DEFINE copy == [held EXCEPT !.expires = now + AccessTTL]
  <2>1. held \in sessions /\ held \in Row /\ call[c].cookie = {held.id}
    BY <1>1, TableFacts DEF RowsWithId, Call, Maybe
  <2>2. /\ copy \in Row /\ copy.login = held.login /\ copy.created = held.created
        /\ copy.expires <= copy.created + Window + AccessTTL
    <3>1. now + AccessTTL \in Times /\ held.created \in Nat
      BY <2>1, TableFacts, Durations DEF Times
    <3>2. copy \in Row /\ copy.login = held.login /\ copy.created = held.created
          /\ copy.expires = now + AccessTTL
      BY <2>1, <3>1 DEF Row
    <3> QED
      BY <1>4, <3>1, <3>2, TableFacts, Durations
  <2>3. call' = [call EXCEPT ![c] = WithCopy(call[c], copy)]
    BY <1>4 DEF WithCopy
  <2> HIDE DEF copy
  <2>4. /\ call'[c] = WithCopy(call[c], copy)
        /\ \A x \in Calls \ {c} : call'[x] = call[x]
    BY <2>3, TableFacts
  <2>5. /\ call'[c] \in Call /\ call'[c].pc = "update" /\ call'[c].kind = call[c].kind
        /\ call'[c].at = call[c].at /\ call'[c].cookie = call[c].cookie
        /\ call'[c].new = call[c].new /\ call'[c].row = {copy}
        /\ call'[c].status = call[c].status
    BY <1>1, <2>2, <2>4, CallAdvanced
  <2>6. SessionsTypeOK'
    BY <1>1, <2>3, <2>4, <2>5, TableFacts DEF TableInv, SessionsTypeOK
  <2>7. call'[c] # NoCall
    BY <2>5 DEF NoCall
  <2>8. CallInv'
    <3>1. Timely(call'[c])
      BY <1>1, <2>5, TableFacts DEF TableInv, RequestInv, CallInv, Timely
    <3>2. \A x \in Calls : call'[x] # NoCall => Timely(call'[x])
      BY <2>4, <3>1, TableFacts DEF TableInv, RequestInv, CallInv
    <3> QED
      BY <1>1, <3>2 DEF CallInv, Timely
  <2>9. LockInv'
    <3>1. Holds(call'[c])
      BY <2>1, <2>2, <2>5 DEF Holds
    <3>2. \A x \in Calls : Under(x, "update")' => Holds(call'[x])
      BY <2>4, <3>1, TableFacts DEF TableInv, RequestInv, LockInv, Under
    <3> QED
      BY <1>1, <3>2 DEF LockInv, Holds
  <2>10. \A x \in Calls \ {c} : Under(x, "update")' =>
           Under(x, "update") /\ call[x].cookie \cap call[c].cookie = {}
    BY <1>1, <2>4 DEF Under, LockedIds
  <2>11. LockedOnce'
    BY <2>4, <2>5, <2>10, TableFacts DEF TableInv, RequestInv, LockedOnce
  <2>12. \A x \in Calls : /\ Pending(x)' <=> Pending(x)
                          /\ Pending(x) => call'[x].new = call[x].new
    BY <1>1, <2>4, <2>5, <2>7 DEF Pending
  <2>13. DrawnInv' /\ FreshInv'
    BY <1>1, <2>12, TableFacts DEF TableInv, RequestInv, DrawnInv, FreshInv
  <2>14. FreshOnce'
    BY <2>12, TableFacts DEF TableInv, RequestInv, FreshOnce
  <2>15. OneSessionPerLogin' /\ HardCap'
    BY <1>1, TableFacts DEF TableInv, OneSessionPerLogin, HardCap
  <2> QED
    BY <2>6, <2>8, <2>9, <2>11, <2>13, <2>14, <2>15 DEF TableInv, RequestInv
<1> HIDE DEF After
<1> QED
  BY <1>2, <1>3, <1>4

\* The second statement moves the row it holds to the new id.
LEMMA RotateUpdateStep ==
  ASSUME BrowserInv, NEW c \in Calls, RotateUpdate(c)
  PROVE  /\ TableInv'
         /\ call'[c].status = 204 => \E row \in sessions' : row.id \in call[c].new
<1>1. PICK reply \in Ends(c), id \in call[c].new, copy \in call[c].row :
        /\ sessions' = IF Done(reply) /\ RowsWithId(call[c].cookie) # {}
                       THEN (sessions \ RowsWithId(call[c].cookie))
                              \cup {[copy EXCEPT !.id = id]}
                       ELSE sessions
        /\ AnswerWith(c, IF reply = "ok" THEN 204 ELSE 500)
  BY DEF RotateUpdate
<1>2. /\ call[c] # NoCall /\ Pending(c) /\ Under(c, "update") /\ call[c] \in Call
      /\ now' = now /\ drawn' = drawn
  BY TableFacts DEF RotateUpdate, Under, Pending
<1>3. PICK held \in sessions :
        /\ call[c].cookie = {held.id} /\ copy \in Row
        /\ copy.login = held.login /\ copy.created = held.created
        /\ copy.expires <= copy.created + Window + AccessTTL
  <2>1. Holds(call[c])
    BY <1>2, TableFacts DEF TableInv, RequestInv, LockInv
  <2> QED
    BY <1>1, <2>1 DEF Holds
<1> DEFINE moved == [copy EXCEPT !.id = id]
<1>4. id \in Ids /\ id \in drawn
  BY <1>2, TableFacts DEF TableInv, RequestInv, FreshInv, Call, Maybe
<1>5. /\ moved \in Row /\ moved.id = id /\ moved.login = held.login
      /\ moved.created = copy.created /\ moved.expires = copy.expires
  BY <1>3, <1>4 DEF Row
<1>6. held \in RowsWithId(call[c].cookie)
  BY <1>3 DEF RowsWithId
<1>7. \/ sessions' = sessions /\ ~Done(reply)
      \/ sessions' = (sessions \ RowsWithId(call[c].cookie)) \cup {moved}
  BY <1>1, <1>6
<1> HIDE DEF moved
<1>8. PICK status \in {204, 500} :
        AnswerWith(c, status) /\ (status = 204 => Done(reply))
  BY <1>1 DEF Done
<1>9. /\ call' \in [Calls -> Call \cup {NoCall}]
      /\ \A x \in Calls \ {c} : Kept(x)
      /\ Settled(call'[c]) /\ call'[c].status = status
  BY <1>2, <1>8, AnswerWithSettles
<1>10. RequestInv'
  <2>1. \A r \in sessions' \ sessions :
          /\ r.id \in drawn /\ r.login \in drawn
          /\ \A x \in Calls \ {c} : Pending(x) => /\ r.id \notin call[x].new
                                                  /\ r.login \notin call[x].new
    <3>1. held.login \in drawn
      BY TableFacts DEF TableInv, RequestInv, DrawnInv
    <3>2. \A x \in Calls \ {c} : Pending(x) => /\ id \notin call[x].new
                                               /\ held.login \notin call[x].new
      BY <1>2, TableFacts DEF TableInv, RequestInv, FreshInv, FreshOnce
    <3> QED
      BY <1>4, <1>5, <1>7, <3>1, <3>2
  <2>2. \A r \in sessions \ sessions' :
          \A x \in Calls \ {c} : Under(x, "update") => r.id \notin call[x].cookie
    <3>1. \A r \in sessions \ sessions' : r.id \in call[c].cookie
      BY <1>7 DEF RowsWithId
    <3>2. \A x \in Calls \ {c} : Under(x, "update") =>
            call[x].cookie \cap call[c].cookie = {}
      BY <1>2, TableFacts DEF TableInv, RequestInv, LockedOnce
    <3> QED
      BY <3>1, <3>2
  <2> QED
    BY <1>2, <1>9, <2>1, <2>2, TableFacts, RequestsMove DEF TableInv
<1>11. SessionsTypeOK'
  BY <1>2, <1>5, <1>7, <1>9, TableFacts DEF TableInv, SessionsTypeOK
<1>12. OneSessionPerLogin'
  <2>1. \A r \in sessions \ RowsWithId(call[c].cookie) : r.login # held.login
    BY <1>6, TableFacts DEF TableInv, OneSessionPerLogin
  <2> QED
    BY <1>5, <1>7, <2>1, TableFacts DEF TableInv, OneSessionPerLogin
<1>13. HardCap'
  BY <1>3, <1>5, <1>7, TableFacts DEF TableInv, HardCap
<1>14. call'[c].status = 204 => \E row \in sessions' : row.id \in call[c].new
  BY <1>5, <1>7, <1>8, <1>9
<1> QED
  BY <1>10, <1>11, <1>12, <1>13, <1>14 DEF TableInv

\* The purge leaves the rows that transactions hold.
LEMMA PurgeStep ==
  ASSUME BrowserInv, PurgeExpired
  PROVE  TableInv'
<1>1. /\ sessions' \subseteq sessions /\ UNCHANGED <<now, drawn, call>>
      /\ \A r \in sessions : r.id \in LockedIds => r \in sessions'
  BY DEF PurgeExpired
<1>2. CallInv' /\ LockedOnce' /\ FreshOnce'
  BY <1>1, TableFacts
  DEF TableInv, RequestInv, CallInv, Timely, LockedOnce, Under, FreshOnce, Pending
<1>3. LockInv'
  <2> SUFFICES ASSUME NEW x \in Calls, Under(x, "update") PROVE Holds(call[x])'
    BY <1>1 DEF LockInv, Under
  <2>1. PICK held \in sessions, copy \in Row :
          /\ call[x].cookie = {held.id} /\ call[x].row = {copy}
          /\ copy.login = held.login /\ copy.created = held.created
          /\ copy.expires <= copy.created + Window + AccessTTL
    BY TableFacts DEF TableInv, RequestInv, LockInv, Holds
  <2>2. held \in sessions'
    BY <1>1, <2>1 DEF LockedIds
  <2> QED
    BY <1>1, <2>1, <2>2 DEF Holds
<1>4. DrawnInv' /\ FreshInv'
  BY <1>1, TableFacts DEF TableInv, RequestInv, DrawnInv, FreshInv, Pending
<1>5. SessionsTypeOK' /\ OneSessionPerLogin' /\ HardCap'
  BY <1>1, TableFacts DEF TableInv, SessionsTypeOK, OneSessionPerLogin, HardCap
<1> QED
  BY <1>2, <1>3, <1>4, <1>5 DEF TableInv, RequestInv

\* Every step of the hub keeps the invariant.
LEMMA ServerStepInv ==
  ASSUME BrowserInv, ServerStep
  PROVE  BrowserInv'
<1>1. UNCHANGED <<jar, tab>> /\ now' = now
  BY DEF ServerStep, PurgeExpired, CallStep, Create, Lookup, Delete, RotateSelect,
     RotateUpdate
<1>2. TableInv'
  BY CreateStep, DeleteStep, RotateSelectStep, RotateUpdateStep, PurgeStep
  DEF ServerStep, CallStep
<1> QED
  BY <1>1, <1>2 DEF BrowserInv, BrowserTypeOK, TableInv

-----------------------------------------------------------------------------
(* The steps of the browser *)

\* One slot moves and the table is left alone.
LEMMA SlotMoves ==
  ASSUME BrowserInv, NEW c \in Calls, now' = now, sessions' = sessions,
         drawn \subseteq drawn', drawn' \subseteq Ids,
         call' \in [Calls -> Call \cup {NoCall}],
         \A x \in Calls \ {c} : Kept(x), Settled(call'[c])
  PROVE  TableInv'
<1>1. RequestInv'
  BY TableFacts, RequestsMove DEF TableInv
<1>2. SessionsTypeOK' /\ OneSessionPerLogin' /\ HardCap'
  BY TableFacts DEF TableInv, SessionsTypeOK, OneSessionPerLogin, HardCap
<1> QED
  BY <1>1, <1>2 DEF TableInv

\* A request that holds a row is granted nothing by the browser's steps.
NoGrant == \A x \in Calls :
             Under(x, "update") /\ call'[x] # NoCall => call'[x].status # 204

\* A step that answers no rotation with 204 grants nothing.
LEMMA KeptNoGrant ==
  ASSUME BrowserInv, NEW c \in Calls, \A x \in Calls \ {c} : Kept(x),
         Under(c, "update") /\ call'[c] # NoCall => call'[c].status # 204
  PROVE  NoGrant
<1> SUFFICES ASSUME NEW x \in Calls \ {c}, Under(x, "update"), call'[x] # NoCall
             PROVE  call'[x].status # 204
  BY DEF NoGrant
<1>1. call[x].status = 0
  BY TableFacts DEF Under, TableInv, RequestInv, CallInv, Timely
<1>2. call'[x].status = call[x].status
  BY KeptCall, TableFacts DEF Under, TableInv
<1> QED
  BY <1>1, <1>2

\* A page is loaded: every request of the page it replaces is abandoned.
LEMMA PageLoads ==
  ASSUME BrowserInv, NEW c \in Calls, NEW t \in Tabs, NEW q \in Call \cup {NoCall},
         Settled(q), q # NoCall => q.status # 204,
         UNCHANGED <<now, sessions, drawn>>,
         call' = [x \in Calls |-> IF x = c THEN q ELSE Abandon(t, x)]
  PROVE  TableInv' /\ NoGrant
<1>1. \A x \in Calls \ {c} : Kept(x)
  BY DEF Kept, Abandon
<1>2. \A x \in Calls : call'[x] \in Call \cup {NoCall}
  BY <1>1, TableFacts, KeptCall DEF TableInv
<1>3. call' \in [Calls -> Call \cup {NoCall}] /\ call'[c] = q
  BY <1>2
<1>4. drawn \subseteq Ids
  BY TableFacts DEF TableInv, SessionsTypeOK
<1> QED
  BY <1>1, <1>3, <1>4, SlotMoves, KeptNoGrant

\* A tab that loads the dashboard.
LEMMA DashLoads ==
  ASSUME BrowserInv, NEW c \in Calls, NEW t \in Tabs, NEW cookie \in Maybe(Ids),
         NEW since \in Maybe(Times), NEW bounces \in 0 .. 2,
         UNCHANGED <<now, sessions, drawn>>, LoadDash(t, c, cookie, since, bounces)
  PROVE  TableInv' /\ NoGrant /\ tab' \in [Tabs -> Page]
<1>1. /\ Settled(NewCall("me", t, cookie, {}))
      /\ NewCall("me", t, cookie, {}).status # 204
  BY NewCallSettles DEF Draws
<1>2. NewCall("me", t, cookie, {}) \in Call \cup {NoCall}
  BY <1>1 DEF Settled
<1>3. TableInv' /\ NoGrant
  BY <1>1, <1>2, PageLoads DEF LoadDash
<1> DEFINE p == [page |-> "dash", timer |-> {now + RefreshEvery},
                 since |-> IF t \in Watched THEN since ELSE {},
                 bounces |-> IF t \in Watched THEN bounces ELSE 0]
<1>4. p \in Page
  <2>1. now + RefreshEvery \in Times
    BY TableFacts, Durations DEF Times
  <2>2. {now + RefreshEvery} \in Maybe(Times) /\ {} \in Maybe(Times)
    BY <2>1 DEF Maybe
  <2> QED
    BY <2>2 DEF Page
<1>5. tab' = [tab EXCEPT ![t] = p] /\ tab \in [Tabs -> Page]
  BY DEF LoadDash, BrowserInv, BrowserTypeOK
<1> QED
  BY <1>3, <1>4, <1>5

\* A tab that loads the login page.
LEMMA LoginLoads ==
  ASSUME BrowserInv, NEW c \in Calls, NEW t \in Tabs,
         UNCHANGED <<now, sessions, drawn>>, LoadLogin(t, c)
  PROVE  TableInv' /\ NoGrant /\ tab' \in [Tabs -> Page]
<1>1. TableInv' /\ NoGrant
  BY PageLoads DEF LoadLogin, Settled
<1>2. tab' = [tab EXCEPT ![t] = [@ EXCEPT !.page = "login", !.timer = {}, !.bounces = 0]]
      /\ tab \in [Tabs -> Page]
  BY DEF LoadLogin, BrowserInv, BrowserTypeOK
<1>3. ASSUME NEW p \in Page
      PROVE  [p EXCEPT !.page = "login", !.timer = {}, !.bounces = 0] \in Page
  <2> DEFINE p1 == [p EXCEPT !.page = "login"]
             p2 == [p1 EXCEPT !.timer = {}]
  <2>1. p1 \in Page
    BY DEF Page
  <2>2. ASSUME NEW o \in Page PROVE [o EXCEPT !.timer = {}] \in Page
    BY DEF Page, Maybe
  <2>3. ASSUME NEW o \in Page PROVE [o EXCEPT !.bounces = 0] \in Page
    BY DEF Page
  <2>4. p2 \in Page
    BY <2>1, <2>2
  <2>5. [p2 EXCEPT !.bounces = 0] \in Page
    BY <2>4, <2>3
  <2> QED
    BY <2>5
<1>4. tab' \in [Tabs -> Page]
  BY <1>2, <1>3
<1> QED
  BY <1>1, <1>4

\* A tab's ticker is set or stopped.
LEMMA TimerSet ==
  ASSUME BrowserInv, NEW t \in Tabs, NEW timer \in {{}, {now + RefreshEvery}},
         tab' = [tab EXCEPT ![t].timer = timer]
  PROVE  tab' \in [Tabs -> Page]
<1>1. timer \in Maybe(Times)
  <2>1. now + RefreshEvery \in Times
    BY TableFacts, Durations DEF Times
  <2> QED
    BY <2>1 DEF Maybe
<1>2. tab \in [Tabs -> Page]
  BY DEF BrowserInv, BrowserTypeOK
<1>3. [tab[t] EXCEPT !.timer = timer] \in Page
  BY <1>1, <1>2 DEF Page
<1> QED
  BY <1>2, <1>3

\* The cookie after an answer has not expired when it arrives.
JarOK(j) == j \in [id : Maybe(Ids), until : Times] /\ (j.id # {} => now < j.until)

\* The jar, full or empty, is well typed.
LEMMA JarFacts == BrowserInv => JarOK(jar) /\ JarOK(NoCookie)
<1>1. {} \in Maybe(Ids) /\ 0 \in Times
  BY Durations DEF Maybe, Times
<1> QED
  BY <1>1 DEF BrowserInv, BrowserTypeOK, JarOK, NoCookie

\* Set-Cookie puts an id into the jar that has been drawn.
LEMMA AnswerInJar ==
  ASSUME BrowserInv, NEW c \in Calls, Under(c, "answer")
  PROVE  JarOK(JarAfter(c))
<1>1. call[c] \in Call /\ Timely(call[c])
  BY TableFacts DEF Under, TableInv, RequestInv, CallInv
<1>2. CASE call[c].status \in {200, 204} /\ call[c].kind \in {"login", "refresh"}
  <2>1. JarAfter(c) = [id |-> call[c].new, until |-> call[c].until]
    BY <1>2 DEF JarAfter
  <2>2. call[c].new \in Maybe(Ids) /\ call[c].until \in Times
    BY <1>1 DEF Call
  <2>3. now < call[c].until
    BY <1>1, <1>2, TableFacts, Durations DEF Timely, Under, Call, Times
  <2> QED
    BY <2>1, <2>2, <2>3 DEF JarOK
<1>3. CASE ~(call[c].status \in {200, 204} /\ call[c].kind \in {"login", "refresh"})
  <2>1. JarAfter(c) = NoCookie \/ JarAfter(c) = jar
    BY <1>3 DEF JarAfter
  <2> QED
    BY <2>1, JarFacts
<1> QED
  BY <1>2, <1>3

\* The parts of the invariant, put together.
LEMMA Together ==
  ASSUME TableInv', JarOK(jar)', tab' \in [Tabs -> Page]
  PROVE  BrowserInv'
BY DEF TableInv, JarOK, BrowserInv, BrowserTypeOK

\* What a page remembers is passed on when it is loaded again.
LEMMA TabFacts ==
  ASSUME BrowserInv, NEW t \in Tabs
  PROVE  tab[t].since \in Maybe(Times) /\ tab[t].bounces \in 0 .. 2
BY DEF BrowserInv, BrowserTypeOK, Page

\* The page that location.replace leads to.
LEMMA ReplaceStep ==
  ASSUME BrowserInv, NEW c \in Calls, NEW t \in Tabs, NEW cookie \in Maybe(Ids),
         UNCHANGED <<now, sessions, drawn>>, ReplaceWithLogin(t, c, cookie)
  PROVE  TableInv' /\ NoGrant /\ tab' \in [Tabs -> Page]
<1> DEFINE bounces == IF call[c].status # 401 \/ call[c].cookie # cookie THEN 0
                      ELSE IF tab[t].bounces = 2 THEN 2 ELSE tab[t].bounces + 1
<1>1. bounces \in 0 .. 2
  BY TabFacts
<1>2. LoadLogin(t, c) \/ LoadDash(t, c, cookie, tab[t].since, bounces)
  BY DEF ReplaceWithLogin
<1> HIDE DEF bounces
<1> QED
  BY <1>1, <1>2, TabFacts, DashLoads, LoginLoads

\* A slot is freed and the page stays.
LEMMA SlotFreed ==
  ASSUME BrowserInv, NEW c \in Calls, UNCHANGED <<now, sessions, drawn, tab>>,
         call' = [call EXCEPT ![c] = NoCall]
  PROVE  TableInv' /\ NoGrant /\ tab' \in [Tabs -> Page]
<1>1. /\ call' \in [Calls -> Call \cup {NoCall}] /\ call'[c] = NoCall
      /\ \A x \in Calls \ {c} : Kept(x)
      /\ drawn \subseteq Ids
  BY TableFacts DEF Kept, TableInv, SessionsTypeOK
<1>2. tab' \in [Tabs -> Page]
  BY DEF BrowserInv, BrowserTypeOK
<1> QED
  BY <1>1, <1>2, SlotMoves, KeptNoGrant DEF Settled

\* An answer that reaches its page, or whose page is gone.
LEMMA AnsweredStep ==
  ASSUME BrowserInv, Answered
  PROVE  BrowserInv' /\ NoGrant
<1>1. ASSUME NEW c \in Calls, Deliver(c) PROVE BrowserInv' /\ NoGrant
  <2>1. Under(c, "answer") /\ jar' = JarAfter(c) /\ UNCHANGED <<now, sessions, drawn>>
    BY <1>1 DEF Deliver
  <2>2. JarOK(jar') /\ JarOK(jar)' /\ jar'.id \in Maybe(Ids)
    BY <2>1, AnswerInJar DEF JarOK
  <2>3. PICK t \in call[c].tab :
          \/ LoadDash(t, c, jar'.id, {row.created : row \in call[c].row}, 0)
          \/ ReplaceWithLogin(t, c, jar'.id)
          \/ call' = [call EXCEPT ![c] = NoCall] /\ UNCHANGED tab
    BY <1>1 DEF Deliver
  <2>4. call[c] \in Call
    BY <2>1, TableFacts DEF Under
  <2>5. t \in Tabs
    BY <2>4 DEF Call, Maybe
  <2>6. {row.created : row \in call[c].row} \in Maybe(Times)
    <3>1. call[c].row \in Maybe(Row)
      BY <2>4 DEF Call
    <3>2. CASE call[c].row = {}
      BY <3>2 DEF Maybe
    <3>3. ASSUME NEW row \in Row, call[c].row = {row}
          PROVE  {r.created : r \in call[c].row} \in Maybe(Times)
      <4>1. {r.created : r \in call[c].row} = {row.created}
        BY <3>3
      <4>2. row.created \in Times
        BY DEF Row
      <4> QED
        BY <4>1, <4>2 DEF Maybe
    <3> QED
      BY <3>1, <3>2, <3>3 DEF Maybe
  <2>7. TableInv' /\ NoGrant /\ tab' \in [Tabs -> Page]
    BY <2>1, <2>2, <2>3, <2>5, <2>6, DashLoads, ReplaceStep, SlotFreed
  <2> QED
    BY <2>2, <2>7, Together
<1>2. ASSUME NEW c \in Calls, DeliverOrphan(c) PROVE BrowserInv' /\ NoGrant
  <2>1. /\ Under(c, "answer") /\ (jar' = jar \/ jar' = JarAfter(c))
        /\ call' = [call EXCEPT ![c] = NoCall]
        /\ UNCHANGED <<now, sessions, drawn, tab>>
    BY <1>2 DEF DeliverOrphan
  <2>2. JarOK(jar)'
    BY <2>1, AnswerInJar, JarFacts DEF JarOK
  <2> QED
    BY <2>1, <2>2, SlotFreed, Together
<1>3. ASSUME NEW c \in Calls, FetchFails(c) PROVE BrowserInv' /\ NoGrant
  <2>1. call[c] # NoCall /\ UNCHANGED <<now, sessions, drawn, jar>>
    BY <1>3 DEF FetchFails
  <2>2. PICK t \in call[c].tab :
          \/ ReplaceWithLogin(t, c, jar.id)
          \/ call' = [call EXCEPT ![c] = NoCall] /\ UNCHANGED tab
    BY <1>3 DEF FetchFails
  <2>3. t \in Tabs
    BY <2>1, TableFacts DEF Call, Maybe
  <2>4. JarOK(jar)' /\ jar.id \in Maybe(Ids)
    BY <2>1, JarFacts DEF JarOK
  <2> QED
    BY <2>1, <2>2, <2>3, <2>4, ReplaceStep, SlotFreed, Together
<1> QED
  BY <1>1, <1>2, <1>3 DEF Answered

\* A visit of the console.
LEMMA VisitStep ==
  ASSUME BrowserInv, NEW t \in Tabs, Visit(t)
  PROVE  BrowserInv' /\ NoGrant
<1>1. PICK c \in Calls :
        IF jar.id = {} THEN LoadLogin(t, c)
                       ELSE LoadDash(t, c, jar.id, tab[t].since, 0)
  BY DEF Visit
<1>2. UNCHANGED <<now, sessions, drawn, jar>>
  BY DEF Visit
<1>3. JarOK(jar)' /\ jar.id \in Maybe(Ids)
  BY <1>2, JarFacts DEF JarOK
<1> QED
  BY <1>1, <1>2, <1>3, TabFacts, DashLoads, LoginLoads, Together

\* A fetch of the page: login, refresh or logout.
LEMMA SendStep ==
  ASSUME BrowserInv, NEW t \in Tabs, NEW kind \in {"login", "refresh", "logout"},
         Send(kind, t), UNCHANGED <<now, sessions>>
  PROVE  TableInv' /\ NoGrant
<1>1. PICK c \in Calls, new \in Draws(kind, jar.id) :
        /\ call[c] = NoCall
        /\ call' = [call EXCEPT ![c] = NewCall(kind, t, jar.id, new)]
        /\ drawn' = drawn \cup new
  BY DEF Send
<1> DEFINE q == NewCall(kind, t, jar.id, new)
<1>2. jar.id \in Maybe(Ids)
  BY JarFacts DEF JarOK
<1>3. Settled(q) /\ new \subseteq Ids
  BY <1>1, <1>2, NewCallSettles
<1>4. q \in Call \cup {NoCall} /\ call' = [call EXCEPT ![c] = q]
  BY <1>1, <1>3 DEF Settled
<1> HIDE DEF q
<1>5. /\ call' \in [Calls -> Call \cup {NoCall}] /\ call'[c] = q
      /\ \A x \in Calls \ {c} : Kept(x)
  BY <1>4, TableFacts DEF Kept
<1>6. ~Under(c, "update")
  BY <1>1 DEF Under
<1>7. drawn' \subseteq Ids /\ drawn \subseteq drawn'
  BY <1>1, <1>3, TableFacts DEF TableInv, SessionsTypeOK
<1> QED
  BY <1>3, <1>5, <1>6, <1>7, SlotMoves, KeptNoGrant

\* What a user or the ticker does on a page.
LEMMA TabStep ==
  ASSUME BrowserInv, NEW t \in Tabs,
         SubmitLogin(t) \/ ClickLogout(t) \/ TickerFires(t)
  PROVE  BrowserInv' /\ NoGrant
<1>1. UNCHANGED <<now, sessions, jar>>
  BY DEF SubmitLogin, ClickLogout, TickerFires
<1>2. PICK kind \in {"login", "refresh", "logout"} : Send(kind, t)
  BY DEF SubmitLogin, ClickLogout, TickerFires
<1>3. JarOK(jar)'
  BY <1>1, JarFacts DEF JarOK
<1>4. tab' \in [Tabs -> Page]
  <2>1. tab' = tab \/ tab' = [tab EXCEPT ![t].timer = {now + RefreshEvery}]
    BY DEF SubmitLogin, ClickLogout, TickerFires
  <2>2. tab \in [Tabs -> Page]
    BY DEF BrowserInv, BrowserTypeOK
  <2> QED
    BY <2>1, <2>2, TimerSet
<1> QED
  BY <1>1, <1>2, <1>3, <1>4, SendStep, Together

\* Hiding and showing a tab.
LEMMA ShowStep ==
  ASSUME BrowserInv, NEW t \in Tabs, Hide(t) \/ Show(t)
  PROVE  BrowserInv' /\ NoGrant
<1>1. /\ UNCHANGED <<now, sessions, drawn, call, jar>>
      /\ \/ tab' = [tab EXCEPT ![t].timer = {}]
         \/ tab' = [tab EXCEPT ![t].timer = {now + RefreshEvery}]
  BY DEF Hide, Show, sessionVars
<1>2. tab' \in [Tabs -> Page]
  BY <1>1, TimerSet
<1>3. TableInv'
  BY <1>1, TableFacts DEF TableInv, SessionsTypeOK, RequestInv, CallInv, Timely, LockInv,
     Holds, LockedOnce, DrawnInv, FreshInv, FreshOnce, Under, Pending,
     OneSessionPerLogin, HardCap
<1>4. JarOK(jar)'
  BY <1>1, JarFacts DEF JarOK
<1>5. NoGrant
  BY <1>1, TableFacts DEF NoGrant, Under, TableInv, RequestInv, CallInv, Timely
<1> QED
  BY <1>2, <1>3, <1>4, <1>5, Together

\* No request is overdue when the clock moves.
LEMMA TickStep ==
  ASSUME BrowserInv, Tick
  PROVE  BrowserInv' /\ NoGrant
<1>1. /\ now < MaxTime /\ now' = now + 1
      /\ \A c \in Calls : call[c] # NoCall => now < call[c].at + CallTakes
      /\ jar' = IF jar.until <= now' THEN NoCookie ELSE jar
      /\ UNCHANGED <<sessions, drawn, call, tab>>
  BY DEF Tick
<1>2. JarOK(jar)'
  <2>1. JarOK(jar) /\ JarOK(NoCookie)
    BY JarFacts
  <2>2. CASE jar' = NoCookie
    BY <2>1, <2>2 DEF JarOK, NoCookie
  <2>3. CASE jar' = jar /\ ~(jar.until <= now')
    <3>1. jar.until \in Nat /\ now' \in Nat
      BY <1>1, <2>1, TableFacts, Durations DEF JarOK, Times
    <3> QED
      BY <2>1, <2>3, <3>1 DEF JarOK
  <2> QED
    BY <1>1, <2>2, <2>3
<1>3. CallInv'
  <2> SUFFICES ASSUME NEW c \in Calls, call[c] # NoCall PROVE Timely(call[c])'
    BY <1>1 DEF CallInv
  <2>1. Timely(call[c]) /\ call[c] \in Call
    BY TableFacts DEF TableInv, RequestInv, CallInv
  <2>2. call[c].at \in Nat
    BY <2>1, Durations DEF Call, Times
  <2> QED
    BY <1>1, <2>1, <2>2, TableFacts, Durations DEF Timely
<1>4. RequestInv'
  BY <1>1, <1>3, TableFacts DEF TableInv, RequestInv, LockInv, Holds, LockedOnce, DrawnInv,
     FreshInv, FreshOnce, Under, Pending
<1>5. SessionsTypeOK' /\ OneSessionPerLogin' /\ HardCap'
  BY <1>1, TableFacts, Durations DEF TableInv, SessionsTypeOK, OneSessionPerLogin, HardCap
<1>6. NoGrant
  BY <1>1, TableFacts DEF NoGrant, Under, TableInv, RequestInv, CallInv, Timely
<1>7. tab' \in [Tabs -> Page]
  BY <1>1 DEF BrowserInv, BrowserTypeOK
<1> QED
  BY <1>2, <1>4, <1>5, <1>6, <1>7, Together DEF TableInv

-----------------------------------------------------------------------------
(* Theorems *)

\* The invariant holds when the hub and the browser start.
LEMMA BrowserInitInv == Init => BrowserInv
<1> SUFFICES ASSUME Init PROVE BrowserInv
  OBVIOUS
<1>1. 0 \in Times /\ 0 \in 0 .. MaxTime
  BY Durations DEF Times
<1>2. BrowserTypeOK
  BY <1>1 DEF Init, SessionsInit, BrowserTypeOK, SessionsTypeOK, NoCookie, Page, Maybe
<1>3. RequestInv /\ OneSessionPerLogin /\ HardCap
  BY DEF Init, SessionsInit, RequestInv, CallInv, LockInv, LockedOnce, DrawnInv, FreshInv,
     FreshOnce, Under, Pending, OneSessionPerLogin, HardCap
<1> QED
  BY <1>2, <1>3 DEF BrowserInv

\* Every step keeps the invariant.
LEMMA BrowserStepInv == BrowserInv /\ [Next]_vars => BrowserInv'
<1> SUFFICES ASSUME BrowserInv, [Next]_vars PROVE BrowserInv'
  OBVIOUS
<1>1. CASE UNCHANGED vars
  <2>1. UNCHANGED <<now, sessions, drawn, call, jar, tab>>
    BY <1>1 DEF vars, sessionVars
  <2>2. TableInv'
    BY <2>1, TableFacts DEF TableInv, SessionsTypeOK, RequestInv, CallInv, Timely, LockInv,
       Holds, LockedOnce, DrawnInv, FreshInv, FreshOnce, Under, Pending,
       OneSessionPerLogin, HardCap
  <2>3. JarOK(jar)' /\ tab' \in [Tabs -> Page]
    BY <2>1, JarFacts DEF JarOK, BrowserInv, BrowserTypeOK
  <2> QED
    BY <2>2, <2>3, Together
<1>2. CASE Next
  BY <1>2, ServerStepInv, AnsweredStep, TickStep, VisitStep, TabStep, ShowStep DEF Next
<1> QED
  BY <1>1, <1>2

\* The step that answers 204 to a refresh has written the row of its new id.
LEMMA GrantStep ==
  ASSUME BrowserInv, [Next]_vars, NEW c \in Calls, Under(c, "update"),
         call'[c] # NoCall, call'[c].status = 204
  PROVE  \E row \in sessions' : row.id \in call[c].new
<1>1. call[c].status = 0 /\ call[c].pc = "update"
  BY TableFacts DEF Under, TableInv, RequestInv, CallInv, Timely
<1>2. call'[c] # call[c]
  BY <1>1
<1>3. ~NoGrant
  BY DEF NoGrant
<1>4. ServerStep
  BY <1>2, <1>3, AnsweredStep, TickStep, VisitStep, TabStep, ShowStep
  DEF Next, vars, sessionVars
<1>5. PICK d \in Calls : CallStep(d)
  BY <1>2, <1>4 DEF ServerStep, PurgeExpired
<1>6. CASE d = c
  <2>1. RotateUpdate(c)
    BY <1>1, <1>5, <1>6 DEF CallStep, Create, Lookup, Delete, RotateSelect, Under
  <2> QED
    BY <2>1, RotateUpdateStep
<1>7. CASE d # c
  <2>1. Kept(c)
    <3>1. ASSUME NEW status, AnswerWith(d, status) PROVE Kept(c)
      BY <1>7, <3>1, TableFacts DEF AnswerWith, Kept
    <3>2. CASE Create(d)
      <4>1. \/ AnswerWith(d, 500)
            \/ \E q : call' = [call EXCEPT ![d] = q]
        BY <3>2 DEF Create
      <4> QED
        BY <1>7, <3>1, <4>1, TableFacts DEF Kept
    <3>3. CASE Lookup(d)
      BY <3>1, <3>3 DEF Lookup
    <3>4. CASE Delete(d)
      BY <3>1, <3>4 DEF Delete
    <3>5. CASE RotateSelect(d)
      <4>1. \/ AnswerWith(d, 401) \/ AnswerWith(d, 500)
            \/ \E q : call' = [call EXCEPT ![d] = q]
        BY <3>5 DEF RotateSelect
      <4>2. ASSUME NEW q, call' = [call EXCEPT ![d] = q] PROVE Kept(c)
        BY <1>7, <4>2, TableFacts DEF Kept
      <4> QED
        BY <3>1, <4>1, <4>2
    <3>6. CASE RotateUpdate(d)
      BY <3>1, <3>6 DEF RotateUpdate
    <3> QED
      BY <1>5, <3>2, <3>3, <3>4, <3>5, <3>6 DEF CallStep
  <2> QED
    BY <1>1, <2>1, KeptCall, TableFacts DEF TableInv, Under
<1> QED
  BY <1>6, <1>7

\* Requests, rows, the jar and the pages have their types; a cookie in the
\* jar has not expired (Set-Cookie carries Expires, camhub.js reloads it).
THEOREM BrowserTypeCorrect == Spec => []BrowserTypeOK
<1>1. BrowserInv => BrowserTypeOK
  BY DEF BrowserInv
<1> QED
  BY <1>1, BrowserInitInv, BrowserStepInv, PTL DEF Spec

\* ONE SESSION PER LOGIN, for any number of tabs and requests in flight: the
\* row lock of Rotate makes each refresh replace the row it has read
\* (db.SessionStore.Rotate).
THEOREM OneSession == Spec => []OneSessionPerLogin
<1>1. BrowserInv => OneSessionPerLogin
  BY DEF BrowserInv
<1> QED
  BY <1>1, BrowserInitInv, BrowserStepInv, PTL DEF Spec

\* THE HARD CAP, however long a transaction stays open between the check of
\* the window and the UPDATE that writes the new expiry.
THEOREM CapIsHard == Spec => []HardCap
<1>1. BrowserInv => HardCap
  BY DEF BrowserInv
<1> QED
  BY <1>1, BrowserInitInv, BrowserStepInv, PTL DEF Spec

\* A GRANTED ID IS LIVE: the UPDATE of Rotate always finds its row, so not
\* looking at RowsAffected is harmless.
THEOREM GrantsAreLive == Spec => GrantedIdIsLive
<1>1. BrowserInv /\ [Next]_vars =>
        [\A c \in Calls :
           Under(c, "update") /\ call'[c] # NoCall /\ call'[c].status = 204
             => \E row \in sessions' : row.id \in call[c].new]_sessionVars
  BY GrantStep
<1> QED
  BY <1>1, BrowserInitInv, BrowserStepInv, PTL DEF Spec, GrantedIdIsLive

-----------------------------------------------------------------------------
(* A user who signs in and stays *)

\* One tab in view and no failures; the ticker is faster than the cookie by
\* two round trips, and slower than one.
StaysInView(w) ==
  /\ Tabs = {w} /\ Watched = {w} /\ Faults = {}
  /\ CallTakes < RefreshEvery /\ RefreshEvery + 2 * CallTakes <= AccessTTL

\* An id of the session created then, good until low at least.
Known(ids, created, low) ==
  /\ RowsWithId(ids) # {}
  /\ \A row \in RowsWithId(ids) : row.created = created /\ low <= row.expires

LateFor(created) == now > created + Window

\* A slot that is free, or has a query of a page that is gone.
Spare(c) ==
  call[c] # NoCall => /\ call[c].kind = "me" /\ call[c].tab = {}
                      /\ call[c].pc \in {"lookup", "answer"}

\* A login under way leads to a session, and to its id.
LoginCall(w, q) ==
  /\ q.kind = "login" /\ q.tab = {w} /\ q.new # {} /\ q.pc \in {"insert", "answer"}
  /\ q.pc = "answer" =>
       /\ q.status = 200
       /\ \E row \in Row : /\ q.row = {row} /\ q.at <= row.created /\ row.created <= now
                           /\ q.until >= row.created + AccessTTL
                           /\ Known(q.new, row.created, row.created + AccessTTL)

\* The query of a dashboard loaded at p is accepted.
MeCall(w, q, p) ==
  /\ q.kind = "me" /\ q.tab = {w} /\ q.at = p /\ q.pc \in {"lookup", "answer"}
  /\ q.cookie = jar.id
  /\ q.pc = "answer" => q.status = 200

\* A refresh sent at p finds its session and renews it, or comes too late.
RefreshCall(w, q, p, created) ==
  /\ q.kind = "refresh" /\ q.tab = {w} /\ q.at = p /\ q.new # {}
  /\ q.pc \in {"select", "update", "answer"}
  /\ q.pc = "select" => Known(q.cookie, created, p + CallTakes)
  /\ q.pc = "update" =>
       \A copy \in q.row : copy.created = created /\ p + AccessTTL <= copy.expires
  /\ q.pc = "answer" =>
       \/ q.status = 401 /\ LateFor(created)
       \/ /\ q.status = 204 /\ q.until >= p + AccessTTL
          /\ Known(q.new, created, p + AccessTTL)

Unopened(w) ==
  /\ tab[w].page = "closed" /\ tab[w].timer = {} /\ tab[w].since = {} /\ jar.id = {}
  /\ \A c \in Calls : call[c] = NoCall

AtLogin(w) ==
  /\ tab[w].page = "login" /\ tab[w].timer = {} /\ jar.id = {}
  /\ \A created \in tab[w].since : LateFor(created)
  /\ \A c \in Calls : Spare(c) \/ LoginCall(w, call[c])
  /\ \A c, d \in Calls : ~Spare(c) /\ ~Spare(d) => c = d

\* The dashboard at p, when it was loaded or its ticker last fired, and since.
Resting(w, p, created) ==
  /\ jar.id # {} /\ jar.until >= p + AccessTTL - CallTakes
  /\ Known(jar.id, created, p + AccessTTL - CallTakes)
  /\ \A c \in Calls : Spare(c) \/ MeCall(w, call[c], p)

Refreshing(w, p, created) ==
  \E c \in Calls : /\ call[c] # NoCall /\ RefreshCall(w, call[c], p, created)
                   /\ \A d \in Calls \ {c} : Spare(d)

OnDash(w, p, created) ==
  /\ tab[w].page = "dash" /\ tab[w].timer = {p + RefreshEvery} /\ tab[w].since = {created}
  /\ p <= now /\ now <= p + RefreshEvery
  /\ Resting(w, p, created) \/ Refreshing(w, p, created)

Signed(w) ==
  \/ Unopened(w)
  \/ AtLogin(w)
  \/ \E p, created \in Times : OnDash(w, p, created)

\* A request of a page in view is answered.
LEMMA AlwaysOk ==
  ASSUME NEW w, StaysInView(w), NEW c \in Calls, call[c].tab = {w}
  PROVE  Ends(c) = {"ok"}
<1>1. DbReplies(TRUE) = {"ok"}
  BY DEF DbReplies, CallReplies, Replies, StaysInView
<1>2. {live \in {TRUE, call[c].tab # {}} : TRUE} = {TRUE}
  OBVIOUS
<1> QED
  BY <1>1 DEF Ends

\* The ticker leaves room for two round trips.
LEMMA Distances ==
  ASSUME NEW w, StaysInView(w)
  PROVE  /\ AccessTTL \in Nat /\ Window \in Nat /\ CallTakes \in Nat /\ RefreshEvery \in Nat
         /\ CallTakes < RefreshEvery /\ RefreshEvery + 2 * CallTakes <= AccessTTL
         /\ RefreshEvery + CallTakes < AccessTTL
BY Durations DEF StaysInView

\* What a request knows about time.
LEMMA CallTimes ==
  ASSUME BrowserInv
  PROVE  /\ now \in Nat
         /\ \A c \in Calls : call[c] # NoCall =>
              /\ call[c] \in Call /\ call[c].at \in Nat /\ call[c].until \in Nat
              /\ call[c].at <= now /\ now <= call[c].at + CallTakes
              /\ call[c].pc # "answer" => call[c].status = 0
         /\ \A row \in sessions : row \in Row /\ row.created \in Nat /\ row.expires \in Nat
<1>1. SessionsTypeOK /\ CallInv
  BY DEF BrowserInv, BrowserTypeOK, RequestInv
<1>2. now \in Nat /\ Times \subseteq Nat
  BY <1>1, Durations DEF SessionsTypeOK, Times
<1>3. \A c \in Calls : call[c] # NoCall => call[c] \in Call /\ Timely(call[c])
  BY <1>1 DEF SessionsTypeOK, CallInv
<1>4. \A q \in Call : q.at \in Times /\ q.until \in Times
  BY DEF Call
<1>5. \A row \in Row : row.created \in Times /\ row.expires \in Times
  BY DEF Row
<1> QED
  BY <1>1, <1>2, <1>3, <1>4, <1>5 DEF SessionsTypeOK, Timely

\* The purge spares a session that is still good.
LEMMA PurgeKnown ==
  ASSUME BrowserInv, PurgeExpired, NEW ids, NEW created, NEW low \in Nat, now <= low,
         Known(ids, created, low)
  PROVE  Known(ids, created, low)'
<1>1. \A row \in RowsWithId(ids) : row.expires >= now
  BY CallTimes DEF Known, RowsWithId
<1>2. RowsWithId(ids)' = RowsWithId(ids)
  BY <1>1 DEF PurgeExpired, RowsWithId
<1> QED
  BY <1>2 DEF Known

\* What the user's session needs outlives every purge.
LEMMA WatchPurge ==
  ASSUME NEW w, StaysInView(w), BrowserInv, Signed(w), PurgeExpired, UNCHANGED <<jar, tab>>
  PROVE  Signed(w)'
<1>1. UNCHANGED <<now, call, jar, tab>>
  BY DEF PurgeExpired
<1>2. \A c \in Calls : Spare(c) => Spare(c)'
  BY <1>1 DEF Spare
<1>3. CASE Unopened(w)
  BY <1>1, <1>3 DEF Signed, Unopened
<1>4. CASE AtLogin(w)
  <2>1. ASSUME NEW c \in Calls, LoginCall(w, call[c]), call[c] # NoCall
        PROVE  LoginCall(w, call[c])'
    <3>1. CASE call[c].pc = "answer"
      <4>1. PICK row \in Row :
              /\ call[c].row = {row} /\ call[c].at <= row.created /\ row.created <= now
              /\ call[c].until >= row.created + AccessTTL
              /\ Known(call[c].new, row.created, row.created + AccessTTL)
        BY <2>1, <3>1 DEF LoginCall
      <4>2. row.created \in Nat /\ now <= row.created + AccessTTL
        BY <2>1, <4>1, CallTimes, Distances, Durations DEF Row, Times
      <4>3. row.created + AccessTTL \in Nat
        BY <4>2, Distances
      <4>4. \A ids : ids = call[c].new => Known(ids, row.created, row.created + AccessTTL)'
        BY <4>1, <4>2, <4>3, PurgeKnown
      <4> QED
        BY <1>1, <2>1, <4>1, <4>4 DEF LoginCall
    <3>2. CASE call[c].pc # "answer"
      BY <1>1, <2>1, <3>2 DEF LoginCall
    <3> QED
      BY <3>1, <3>2
  <2>2. \A c \in Calls : call[c] = NoCall => Spare(c)'
    BY <1>1 DEF Spare
  <2> QED
    BY <1>1, <1>2, <1>4, <2>1, <2>2 DEF Signed, AtLogin, LateFor, Spare
<1>5. ASSUME NEW p \in Times, NEW created \in Times, OnDash(w, p, created)
      PROVE  OnDash(w, p, created)'
  <2>1. p \in Nat /\ now \in Nat
    BY Durations, CallTimes DEF Times
  <2>2. CASE Resting(w, p, created)
    <3>1. now <= p + AccessTTL - CallTakes
      BY <1>5, <2>1, Distances DEF OnDash
    <3>2. Known(jar.id, created, p + AccessTTL - CallTakes)'
      BY <1>1, <2>1, <2>2, <3>1, PurgeKnown, Distances DEF Resting
    <3> QED
      BY <1>1, <1>2, <1>5, <2>2, <3>2 DEF OnDash, Resting, MeCall
  <2>3. CASE Refreshing(w, p, created)
    <3>1. PICK c \in Calls : /\ call[c] # NoCall /\ RefreshCall(w, call[c], p, created)
                             /\ \A d \in Calls \ {c} : Spare(d)
      BY <2>3 DEF Refreshing
    <3>2. now <= p + CallTakes /\ now <= p + AccessTTL
      BY <2>1, <3>1, CallTimes, Distances DEF RefreshCall
    <3>3. \A ids : Known(ids, created, p + CallTakes) => Known(ids, created, p + CallTakes)'
      BY <2>1, <3>2, PurgeKnown, Distances
    <3>4. \A ids : Known(ids, created, p + AccessTTL) => Known(ids, created, p + AccessTTL)'
      BY <2>1, <3>2, PurgeKnown, Distances
    <3>5. RefreshCall(w, call[c], p, created)'
      BY <1>1, <3>1, <3>3, <3>4 DEF RefreshCall, LateFor
    <3>6. Refreshing(w, p, created)'
      BY <1>1, <1>2, <3>1, <3>5 DEF Refreshing
    <3> QED
      BY <1>1, <1>5, <3>6 DEF OnDash
  <2> QED
    BY <1>5, <2>2, <2>3 DEF OnDash
<1> QED
  BY <1>3, <1>4, <1>5 DEF Signed

\* What an answer keeps of its request.
LEMMA Answers ==
  ASSUME BrowserInv, NEW c \in Calls, call[c] # NoCall,
         NEW status \in {200, 204, 401, 500}, AnswerWith(c, status)
  PROVE  /\ call'[c] # NoCall /\ call'[c].pc = "answer" /\ call'[c].status = status
         /\ call'[c].kind = call[c].kind /\ call'[c].tab = call[c].tab
         /\ call'[c].at = call[c].at /\ call'[c].cookie = call[c].cookie
         /\ call'[c].new = call[c].new /\ call'[c].until = Until(status)
         /\ \A d \in Calls \ {c} : call'[d] = call[d]
<1> DEFINE r == AnswerTo(call[c], status, {}, Until(status))
<1>1. call' = [call EXCEPT ![c] = r]
  BY DEF AnswerWith, AnswerTo, Until
<1>2. call[c] \in Call /\ call \in [Calls -> Call \cup {NoCall}] /\ now \in 0 .. MaxTime
  BY DEF BrowserInv, BrowserTypeOK, SessionsTypeOK
<1>3. Until(status) \in Times /\ {} \in Maybe(Row)
  BY <1>2, Durations DEF Times, Until, Maybe
<1>4. /\ r \in Call /\ r.pc = "answer" /\ r.kind = call[c].kind /\ r.at = call[c].at
      /\ r.new = call[c].new /\ r.until = Until(status) /\ r.status = status
  BY <1>2, <1>3, CallAnswered
<1>5. r.tab = call[c].tab /\ r.cookie = call[c].cookie
  BY <1>2 DEF Call, AnswerTo
<1> HIDE DEF r
<1>6. r # NoCall
  BY <1>4 DEF Call, NoCall
<1> QED
  BY <1>1, <1>2, <1>4, <1>5, <1>6

\* Who a request may be.
LEMMA Requester ==
  ASSUME NEW w, Signed(w), NEW c \in Calls, call[c] # NoCall
  PROVE  \/ Spare(c)
         \/ /\ AtLogin(w) /\ LoginCall(w, call[c])
            /\ \A d \in Calls \ {c} : Spare(d)
         \/ \E p, created \in Times : /\ OnDash(w, p, created) /\ Resting(w, p, created)
                                      /\ MeCall(w, call[c], p)
         \/ \E p, created \in Times : /\ OnDash(w, p, created)
                                      /\ RefreshCall(w, call[c], p, created)
                                      /\ \A d \in Calls \ {c} : Spare(d)
<1>1. ~Unopened(w)
  BY DEF Unopened
<1>2. CASE AtLogin(w)
  BY <1>2 DEF AtLogin
<1>3. ASSUME NEW p \in Times, NEW created \in Times, OnDash(w, p, created), ~Spare(c)
      PROVE  \/ Resting(w, p, created) /\ MeCall(w, call[c], p)
             \/ RefreshCall(w, call[c], p, created) /\ \A d \in Calls \ {c} : Spare(d)
  BY <1>3 DEF OnDash, Resting, Refreshing
<1> QED
  BY <1>1, <1>2, <1>3 DEF Signed

\* The queries of pages that are gone change nothing.
LEMMA SpareMoves ==
  ASSUME NEW w, Signed(w), NEW c \in Calls, Spare(c), call[c] # NoCall, Spare(c)',
         UNCHANGED <<now, sessions, jar, tab>>, \A d \in Calls \ {c} : call'[d] = call[d]
  PROVE  Signed(w)'
<1>1. \A d \in Calls : Spare(d) => Spare(d)'
  BY DEF Spare
<1>2. \A ids, created, low : Known(ids, created, low) => Known(ids, created, low)'
  BY DEF Known, RowsWithId
<1>3. ~Unopened(w)
  BY DEF Unopened
<1>4. CASE AtLogin(w)
  <2>1. \A d \in Calls : Spare(d)' <=> Spare(d)
    BY DEF Spare
  <2>2. ASSUME NEW d \in Calls \ {c}, LoginCall(w, call[d]) PROVE LoginCall(w, call[d])'
    BY <1>2, <2>2 DEF LoginCall
  <2> QED
    BY <1>4, <2>1, <2>2 DEF AtLogin, Signed, LateFor
<1>5. ASSUME NEW p \in Times, NEW created \in Times, OnDash(w, p, created)
      PROVE  OnDash(w, p, created)'
  <2>1. CASE Resting(w, p, created)
    <3>1. ASSUME NEW d \in Calls \ {c}, MeCall(w, call[d], p) PROVE MeCall(w, call[d], p)'
      BY <3>1 DEF MeCall
    <3> QED
      BY <1>1, <1>2, <1>5, <2>1, <3>1 DEF OnDash, Resting
  <2>2. CASE Refreshing(w, p, created)
    <3>1. PICK d \in Calls : /\ call[d] # NoCall /\ RefreshCall(w, call[d], p, created)
                             /\ \A e \in Calls \ {d} : Spare(e)
      BY <2>2 DEF Refreshing
    <3>2. d # c
      BY <3>1 DEF Spare, RefreshCall
    <3>3. RefreshCall(w, call[d], p, created)'
      BY <1>2, <3>1, <3>2 DEF RefreshCall, LateFor
    <3>4. Refreshing(w, p, created)'
      BY <1>1, <3>1, <3>2, <3>3 DEF Refreshing
    <3> QED
      BY <1>5, <3>4 DEF OnDash
  <2> QED
    BY <1>5, <2>1, <2>2 DEF OnDash
<1> QED
  BY <1>3, <1>4, <1>5 DEF Signed

\* RequireSession accepts the first query of a dashboard.
LEMMA WatchLookup ==
  ASSUME NEW w, StaysInView(w), BrowserInv, Signed(w), NEW c \in Calls, Lookup(c),
         UNCHANGED <<jar, tab>>
  PROVE  Signed(w)'
<1>1. /\ call[c] # NoCall /\ call[c].pc = "lookup" /\ UNCHANGED <<now, sessions, drawn, jar, tab>>
  BY DEF Lookup, Under
<1>2. PICK status \in {200, 401, 500} :
        /\ AnswerWith(c, status)
        /\ call[c].tab = {w} /\ (\E row \in RowsWithId(call[c].cookie) : row.expires > now)
             => status = 200
  BY AlwaysOk DEF Lookup
<1>3. /\ call'[c] # NoCall /\ call'[c].pc = "answer" /\ call'[c].status = status
      /\ call'[c].kind = call[c].kind /\ call'[c].tab = call[c].tab
      /\ call'[c].at = call[c].at /\ call'[c].cookie = call[c].cookie
      /\ \A d \in Calls \ {c} : call'[d] = call[d]
  BY <1>1, <1>2, Answers
<1>4. CASE Spare(c)
  <2>1. Spare(c)'
    BY <1>1, <1>3, <1>4 DEF Spare
  <2> QED
    BY <1>1, <1>3, <1>4, <2>1, SpareMoves
<1>5. ASSUME NEW p \in Times, NEW created \in Times, OnDash(w, p, created),
             Resting(w, p, created), MeCall(w, call[c], p)
      PROVE  OnDash(w, p, created)'
  <2>1. p \in Nat /\ now \in Nat /\ now <= p + CallTakes
    BY <1>1, <1>5, Durations, CallTimes DEF Times, MeCall
  <2>2. \E row \in RowsWithId(call[c].cookie) : row.expires > now
    <3>1. PICK row \in RowsWithId(jar.id) : p + AccessTTL - CallTakes <= row.expires
      BY <1>5 DEF Resting, Known
    <3>2. row.expires \in Nat
      BY <3>1, CallTimes DEF RowsWithId
    <3>3. row.expires > now
      BY <2>1, <3>1, <3>2, Distances
    <3> QED
      BY <1>5, <3>1, <3>3 DEF MeCall
  <2>3. MeCall(w, call[c], p)'
    BY <1>1, <1>2, <1>3, <1>5, <2>2 DEF MeCall
  <2>4. \A d \in Calls \ {c} : /\ Spare(d) => Spare(d)'
                               /\ MeCall(w, call[d], p) => MeCall(w, call[d], p)'
    BY <1>1, <1>3 DEF Spare, MeCall
  <2>5. Known(jar.id, created, p + AccessTTL - CallTakes)'
    BY <1>1, <1>5 DEF Resting, Known, RowsWithId
  <2>6. Resting(w, p, created)'
    BY <1>1, <1>5, <2>3, <2>4, <2>5 DEF Resting
  <2> QED
    BY <1>1, <1>5, <2>6 DEF OnDash
<1>6. ~LoginCall(w, call[c]) /\ \A p, created : ~RefreshCall(w, call[c], p, created)
  BY <1>1 DEF LoginCall, RefreshCall
<1> QED
  BY <1>1, <1>4, <1>5, <1>6, Requester DEF Signed

\* The row a login inserts is the only one with its id.
LEMMA WatchCreate ==
  ASSUME NEW w, StaysInView(w), BrowserInv, Signed(w), NEW c \in Calls, Create(c),
         UNCHANGED <<jar, tab>>
  PROVE  Signed(w)'
<1>1. /\ call[c] # NoCall /\ call[c].pc = "insert" /\ Pending(c)
      /\ UNCHANGED <<now, drawn, jar, tab>>
  BY DEF Create, Under, Pending
<1>2. /\ AtLogin(w) /\ LoginCall(w, call[c])
      /\ \A d \in Calls \ {c} : Spare(d)
  BY <1>1, Requester DEF Spare, MeCall, RefreshCall
<1>3. Ends(c) = {"ok"}
  BY <1>2, AlwaysOk DEF LoginCall
<1>4. PICK reply \in Ends(c), id \in call[c].new :
        LET row == [id |-> id, login |-> id, created |-> now,
                    expires |-> now + AccessTTL]
        IN /\ sessions' = IF Done(reply) THEN sessions \cup {row} ELSE sessions
           /\ IF reply = "ok"
              THEN call' = [call EXCEPT ![c] = [@ EXCEPT !.pc = "answer", !.status = 200,
                              !.row = {row}, !.until = now + AccessTTL]]
              ELSE AnswerWith(c, 500)
  BY DEF Create
<1> DEFINE row == [id |-> id, login |-> id, created |-> now, expires |-> now + AccessTTL]
           r == AnswerTo(call[c], 200, {row}, Until(200))
<1>5. sessions' = sessions \cup {row} /\ call' = [call EXCEPT ![c] = r]
  <2>1. reply = "ok"
    BY <1>3
  <2> QED
    BY <1>4, <2>1 DEF Done, AnswerTo, Until
<1>6. call[c] \in Call /\ now \in Nat /\ call \in [Calls -> Call \cup {NoCall}]
      /\ call[c].at \in Nat /\ call[c].at <= now
  BY <1>1, CallTimes, TableFacts
<1>7. /\ id \in Ids /\ call[c].new = {id}
      /\ \A other \in sessions : other.id # id
  BY <1>1, <1>4, <1>6, TableFacts DEF TableInv, RequestInv, FreshInv, Call, Maybe
<1>8. row \in Row /\ row.id = id /\ row.created = now /\ row.expires = now + AccessTTL
  BY <1>7, TableFacts, Durations DEF Row, Times
<1>9. {row} \in Maybe(Row) /\ Until(200) \in Times /\ Until(200) = now + AccessTTL
  BY <1>6, <1>8, TableFacts, Durations DEF Maybe, Until, Times
<1> HIDE DEF row
<1>10. /\ r \in Call /\ r.pc = "answer" /\ r.kind = call[c].kind /\ r.at = call[c].at
       /\ r.new = call[c].new /\ r.row = {row} /\ r.until = now + AccessTTL /\ r.status = 200
  <2>1. /\ r \in Call /\ r.pc = "answer" /\ r.kind = call[c].kind /\ r.at = call[c].at
        /\ r.new = call[c].new /\ r.row = {row} /\ r.until = Until(200) /\ r.status = 200
    <3> DEFINE rows == {row}
    <3>1. rows \in Maybe(Row) /\ call[c] \in Call /\ Until(200) \in Times
      BY <1>6, <1>9
    <3>2. 200 \in {200, 204, 401, 500}
      OBVIOUS
    <3> HIDE DEF rows
    <3>3. LET s == AnswerTo(call[c], 200, rows, Until(200))
          IN  /\ s \in Call /\ s.pc = "answer" /\ s.kind = call[c].kind
              /\ s.at = call[c].at /\ s.new = call[c].new /\ s.row = rows
              /\ s.until = Until(200) /\ s.status = 200
      BY <3>1, <3>2, CallAnswered
    <3> QED
      BY <3>3 DEF rows
  <2> HIDE DEF r
  <2> QED
    BY <1>9, <2>1
<1>11. r.tab = call[c].tab
  BY <1>6 DEF Call, AnswerTo
<1> HIDE DEF r
<1>12. call'[c] = r /\ \A d \in Calls \ {c} : call'[d] = call[d]
  BY <1>5, <1>6
<1>13. \A ids, then : ids = {id} /\ then = now => Known(ids, then, then + AccessTTL)'
  <2>1. \A ids : ids = {id} => RowsWithId(ids)' = {row}
    BY <1>5, <1>7, <1>8 DEF RowsWithId
  <2> QED
    BY <1>6, <1>8, <2>1, Durations DEF Known
<1>14. LoginCall(w, call[c])'
  <2>1. \A ids, then : ids = {id} /\ then = row.created
                         => Known(ids, then, then + AccessTTL)'
    BY <1>8, <1>13
  <2>2. call'[c].new = {id} /\ call'[c].row = {row} /\ call'[c].until = now + AccessTTL
    BY <1>7, <1>10, <1>12
  <2>3. /\ call'[c].kind = "login" /\ call'[c].tab = {w} /\ call'[c].new # {}
        /\ call'[c].pc = "answer" /\ call'[c].status = 200
    BY <1>2, <1>7, <1>10, <1>11, <1>12 DEF LoginCall
  <2>4. \E x \in Row :
          /\ call'[c].row = {x} /\ call'[c].at <= x.created /\ x.created <= now'
          /\ call'[c].until >= x.created + AccessTTL
          /\ \A ids, then : ids = {id} /\ then = x.created
                => Known(ids, then, then + AccessTTL)'
    <3>1. /\ call'[c].row = {row} /\ call'[c].at <= row.created /\ row.created <= now'
          /\ call'[c].until >= row.created + AccessTTL
      BY <1>1, <1>6, <1>8, <1>10, <1>12, <2>2, Durations
    <3> QED
      BY <1>8, <2>1, <3>1
  <2> QED
    BY <2>2, <2>3, <2>4 DEF LoginCall
<1>15. \A d \in Calls \ {c} : Spare(d)'
  BY <1>2, <1>12 DEF Spare
<1>16. AtLogin(w)'
  BY <1>1, <1>2, <1>14, <1>15 DEF AtLogin, LateFor
<1> QED
  BY <1>16 DEF Signed

\* A refresh finds its session and copies it, or the window is over.
LEMMA WatchSelect ==
  ASSUME NEW w, StaysInView(w), BrowserInv, Signed(w), NEW c \in Calls, RotateSelect(c),
         UNCHANGED <<jar, tab>>
  PROVE  Signed(w)'
<1>1. /\ call[c] # NoCall /\ call[c].pc = "select"
      /\ UNCHANGED <<now, sessions, drawn, jar, tab>>
  BY DEF RotateSelect, Under
<1>2. PICK p \in Times, created \in Times :
        /\ OnDash(w, p, created) /\ RefreshCall(w, call[c], p, created)
        /\ \A d \in Calls \ {c} : Spare(d)
  BY <1>1, Requester DEF Spare, LoginCall, MeCall
<1>3. Ends(c) = {"ok"}
  BY <1>2, AlwaysOk DEF RefreshCall
<1>4. call[c] \in Call /\ now \in Nat /\ call \in [Calls -> Call \cup {NoCall}]
      /\ p \in Nat /\ p <= now /\ created \in Nat
  BY <1>1, <1>2, CallTimes, TableFacts, Durations DEF RefreshCall, Times
<1>5. Known(call[c].cookie, created, p + CallTakes)
  BY <1>1, <1>2 DEF RefreshCall
<1>6. \/ \E row \in RowsWithId(call[c].cookie) :
           call' = [call EXCEPT ![c] = WithCopy(call[c], [row EXCEPT !.expires = now + AccessTTL])]
      \/ /\ \A row \in RowsWithId(call[c].cookie) : now - row.created > Window
         /\ AnswerWith(c, 401)
  BY <1>3 DEF RotateSelect, WithCopy
<1>7. CASE \E row \in RowsWithId(call[c].cookie) :
             call' = [call EXCEPT ![c] = WithCopy(call[c], [row EXCEPT !.expires = now + AccessTTL])]
  <2>1. PICK row \in RowsWithId(call[c].cookie) :
          call' = [call EXCEPT ![c] = WithCopy(call[c], [row EXCEPT !.expires = now + AccessTTL])]
    BY <1>7
  <2> DEFINE copy == [row EXCEPT !.expires = now + AccessTTL]
             r == WithCopy(call[c], copy)
  <2>2. row \in Row /\ now + AccessTTL \in Times
    BY <2>1, TableFacts, Durations DEF RowsWithId, Times
  <2>3. copy \in Row /\ copy.created = row.created /\ copy.expires = now + AccessTTL
    BY <2>2 DEF Row
  <2> HIDE DEF copy
  <2>4. /\ r \in Call /\ r.pc = "update" /\ r.kind = call[c].kind /\ r.at = call[c].at
        /\ r.new = call[c].new /\ r.row = {copy}
    BY <1>4, <2>3, CallAdvanced
  <2>5. r.tab = call[c].tab
    BY <1>4 DEF Call, WithCopy
  <2>6. call' = [call EXCEPT ![c] = r]
    BY <2>1 DEF copy
  <2> HIDE DEF r
  <2>7. call'[c] = r /\ \A d \in Calls \ {c} : call'[d] = call[d]
    BY <1>4, <2>6
  <2>8. row.created = created
    BY <1>5, <2>1 DEF Known
  <2>9. p + AccessTTL <= copy.expires
    BY <1>4, <2>3, Durations
  <2>10. RefreshCall(w, call[c], p, created)'
    BY <1>2, <2>3, <2>4, <2>5, <2>7, <2>8, <2>9 DEF RefreshCall
  <2>11. r # NoCall
    BY <2>4 DEF Call, NoCall
  <2>12. Refreshing(w, p, created)'
    BY <1>2, <2>7, <2>10, <2>11 DEF Refreshing, Spare
  <2> QED
    BY <1>1, <1>2, <2>12 DEF OnDash, Signed
<1>8. CASE /\ \A row \in RowsWithId(call[c].cookie) : now - row.created > Window
           /\ AnswerWith(c, 401)
  <2>1. /\ call'[c] # NoCall /\ call'[c].pc = "answer" /\ call'[c].status = 401
        /\ call'[c].kind = call[c].kind /\ call'[c].tab = call[c].tab
        /\ call'[c].at = call[c].at /\ call'[c].new = call[c].new
        /\ \A d \in Calls \ {c} : call'[d] = call[d]
    BY <1>1, <1>8, Answers
  <2>2. LateFor(created)
    <3>1. PICK row \in RowsWithId(call[c].cookie) : row.created = created
      BY <1>5 DEF Known
    <3>2. now - created > Window
      BY <1>8, <3>1
    <3> QED
      BY <1>4, <3>2, Durations DEF LateFor
  <2>3. RefreshCall(w, call[c], p, created)'
    BY <1>1, <1>2, <2>1, <2>2 DEF RefreshCall, LateFor
  <2>4. Refreshing(w, p, created)'
    BY <1>2, <2>1, <2>3 DEF Refreshing, Spare
  <2> QED
    BY <1>1, <1>2, <2>4 DEF OnDash, Signed
<1> QED
  BY <1>6, <1>7, <1>8

\* The row that is written is the only one with the new id.
LEMMA WatchUpdate ==
  ASSUME NEW w, StaysInView(w), BrowserInv, Signed(w), NEW c \in Calls, RotateUpdate(c),
         UNCHANGED <<jar, tab>>
  PROVE  Signed(w)'
<1>1. /\ call[c] # NoCall /\ call[c].pc = "update" /\ Pending(c) /\ Under(c, "update")
      /\ UNCHANGED <<now, drawn, jar, tab>>
  BY DEF RotateUpdate, Under, Pending
<1>2. PICK p \in Times, created \in Times :
        /\ OnDash(w, p, created) /\ RefreshCall(w, call[c], p, created)
        /\ \A d \in Calls \ {c} : Spare(d)
  BY <1>1, Requester DEF Spare, LoginCall, MeCall
<1>3. Ends(c) = {"ok"}
  BY <1>2, AlwaysOk DEF RefreshCall
<1>a. PICK reply \in Ends(c), id \in call[c].new, copy \in call[c].row :
        /\ sessions' = IF Done(reply) /\ RowsWithId(call[c].cookie) # {}
                       THEN (sessions \ RowsWithId(call[c].cookie))
                              \cup {[copy EXCEPT !.id = id]}
                       ELSE sessions
        /\ AnswerWith(c, IF reply = "ok" THEN 204 ELSE 500)
  BY DEF RotateUpdate
<1>4. /\ sessions' = IF RowsWithId(call[c].cookie) # {}
                      THEN (sessions \ RowsWithId(call[c].cookie))
                             \cup {[copy EXCEPT !.id = id]}
                      ELSE sessions
      /\ AnswerWith(c, 204)
  <2>1. reply = "ok" /\ Done(reply)
    BY <1>3 DEF Done
  <2> QED
    BY <1>a, <2>1
<1>5. call[c] \in Call /\ now \in Nat /\ p \in Nat /\ p <= now /\ created \in Nat
  BY <1>1, <1>2, CallTimes, Durations DEF RefreshCall, Times
<1>6. PICK held \in sessions : call[c].cookie = {held.id} /\ copy \in Row
  <2>1. Holds(call[c])
    BY <1>1, TableFacts DEF TableInv, RequestInv, LockInv
  <2> QED
    BY <1>4, <2>1 DEF Holds
<1> DEFINE moved == [copy EXCEPT !.id = id]
<1>7. /\ id \in Ids /\ call[c].new = {id}
      /\ \A other \in sessions : other.id # id
  BY <1>1, <1>4, <1>5, TableFacts DEF TableInv, RequestInv, FreshInv, Call, Maybe
<1>8. /\ moved \in Row /\ moved.id = id
      /\ moved.created = copy.created /\ moved.expires = copy.expires
  BY <1>6, <1>7 DEF Row
<1>9. sessions' = (sessions \ RowsWithId(call[c].cookie)) \cup {moved}
  <2>1. held \in RowsWithId(call[c].cookie)
    BY <1>6 DEF RowsWithId
  <2> QED
    BY <1>4, <2>1
<1> HIDE DEF moved
<1>10. copy.created = created /\ p + AccessTTL <= copy.expires
  BY <1>1, <1>2, <1>4 DEF RefreshCall
<1>11. \A ids : ids = {id} => Known(ids, created, p + AccessTTL)'
  <2>1. \A ids : ids = {id} => RowsWithId(ids)' = {moved}
    BY <1>7, <1>8, <1>9 DEF RowsWithId
  <2> QED
    BY <1>8, <1>10, <2>1 DEF Known
<1>12. /\ call'[c] # NoCall /\ call'[c].pc = "answer" /\ call'[c].status = 204
       /\ call'[c].kind = call[c].kind /\ call'[c].tab = call[c].tab
       /\ call'[c].at = call[c].at /\ call'[c].new = call[c].new
       /\ call'[c].until = Until(204)
       /\ \A d \in Calls \ {c} : call'[d] = call[d]
  BY <1>1, <1>4, Answers
<1>13. call'[c].until >= p + AccessTTL
  BY <1>5, <1>12, Durations DEF Until
<1>14. RefreshCall(w, call[c], p, created)'
  BY <1>2, <1>7, <1>11, <1>12, <1>13 DEF RefreshCall
<1>15. Refreshing(w, p, created)'
  BY <1>2, <1>12, <1>14 DEF Refreshing, Spare
<1> QED
  BY <1>1, <1>2, <1>15 DEF OnDash, Signed

\* The hub's side of a user who stays.
LEMMA WatchServer ==
  ASSUME NEW w, StaysInView(w), BrowserInv, Signed(w), ServerStep
  PROVE  Signed(w)'
<1>1. UNCHANGED <<jar, tab>>
  BY DEF ServerStep
<1>2. CASE PurgeExpired
  BY <1>1, <1>2, WatchPurge
<1>3. ASSUME NEW c \in Calls, CallStep(c) PROVE Signed(w)'
  <2>1. ~Delete(c)
    BY Requester DEF Delete, Under, Spare, LoginCall, MeCall, RefreshCall
  <2> QED
    BY <1>1, <1>3, <2>1, WatchCreate, WatchLookup, WatchSelect, WatchUpdate DEF CallStep
<1> QED
  BY <1>2, <1>3 DEF ServerStep

\* What is good until low is good until any time before.
LEMMA KnownLonger ==
  ASSUME BrowserInv, NEW ids, NEW created, NEW low \in Nat, NEW lower \in Nat,
         lower <= low, Known(ids, created, low)
  PROVE  Known(ids, created, lower)
BY CallTimes DEF Known, RowsWithId

\* The first query of a page as it leaves with a cookie.
LEMMA MeSent ==
  ASSUME NEW t, NEW cookie, cookie # {}
  PROVE  LET q == NewCall("me", t, cookie, {})
         IN q # NoCall /\ q.kind = "me" /\ q.tab = {t} /\ q.at = now /\ q.pc = "lookup"
            /\ q.cookie = cookie
BY DEF NewCall, NoCall

\* A login as it leaves.
LEMMA LoginSent ==
  ASSUME NEW t, NEW cookie, NEW new \in Draws("login", cookie)
  PROVE  LET q == NewCall("login", t, cookie, new)
         IN q # NoCall /\ q.kind = "login" /\ q.tab = {t} /\ q.pc = "insert" /\ q.new # {}
BY DEF NewCall, NoCall, Draws

\* A page that is loaded abandons nothing: no other request is its own.
LEMMA OthersSpare ==
  ASSUME NEW w, NEW c \in Calls, \A d \in Calls \ {c} : Spare(d)
  PROVE  \A d \in Calls \ {c} : Abandon(w, d) = call[d]
BY DEF Spare, Abandon

\* The login page, with no request of the user's.
LEMMA LoginPage ==
  ASSUME NEW w, StaysInView(w), BrowserInv, NEW c \in Calls, LoadLogin(w, c),
         \A d \in Calls \ {c} : Spare(d), jar'.id = {}, now' = now,
         \A created \in tab[w].since : LateFor(created)
  PROVE  Signed(w)'
<1>1. w \in Tabs /\ tab \in [Tabs -> Page] /\ call \in [Calls -> Call \cup {NoCall}]
  BY TableFacts DEF StaysInView, BrowserInv, BrowserTypeOK
<1>2. tab'[w] = [tab[w] EXCEPT !.page = "login", !.timer = {}, !.bounces = 0]
  BY <1>1 DEF LoadLogin
<1>3. tab'[w].page = "login" /\ tab'[w].timer = {} /\ tab'[w].since = tab[w].since
  BY <1>1, <1>2 DEF Page
<1>4. call'[c] = NoCall /\ \A d \in Calls \ {c} : call'[d] = call[d]
  BY OthersSpare DEF LoadLogin
<1>5. \A d \in Calls : Spare(d)'
  BY <1>4 DEF Spare
<1> QED
  BY <1>3, <1>5 DEF Signed, AtLogin, LateFor

\* A user who has signed in is led to the dashboard.
LEMMA WatchSignsIn ==
  ASSUME NEW w, StaysInView(w), BrowserInv, AtLogin(w), NEW c \in Calls, LoginCall(w, call[c]),
         \A d \in Calls \ {c} : Spare(d), Deliver(c)
  PROVE  Signed(w)'
<1>1. /\ call[c] # NoCall /\ call[c].pc = "answer" /\ UNCHANGED <<now, sessions, drawn>>
      /\ jar' = JarAfter(c)
  BY DEF Deliver, Under
<1>2. PICK row \in Row :
        /\ call[c].row = {row} /\ call[c].at <= row.created /\ row.created <= now
        /\ call[c].until >= row.created + AccessTTL
        /\ Known(call[c].new, row.created, row.created + AccessTTL)
  BY <1>1 DEF LoginCall
<1>3. SignsIn(c) /\ ~Ousts(c) /\ call[c].new # {}
  BY <1>1 DEF LoginCall, SignsIn, Ousts
<1>4. jar'.id = call[c].new /\ jar'.until = call[c].until
  BY <1>1, <1>3 DEF JarAfter, SignsIn
<1>5. LoadDash(w, c, jar'.id, {row.created}, 0)
  <2>1. {x.created : x \in call[c].row} = {row.created}
    BY <1>2
  <2> QED
    BY <1>3, <2>1 DEF Deliver, LoginCall
<1>6. w \in Tabs /\ w \in Watched /\ tab \in [Tabs -> Page]
      /\ call \in [Calls -> Call \cup {NoCall}]
  BY TableFacts DEF StaysInView, BrowserInv, BrowserTypeOK
<1>7. /\ tab'[w].page = "dash" /\ tab'[w].timer = {now + RefreshEvery}
      /\ tab'[w].since = {row.created}
  BY <1>5, <1>6 DEF LoadDash
<1>8. /\ call'[c] = NewCall("me", w, jar'.id, {})
      /\ \A d \in Calls \ {c} : call'[d] = call[d]
  BY <1>5, OthersSpare DEF LoadDash
<1>9. /\ now \in Nat /\ now \in Times /\ row.created \in Nat /\ row.created \in Times
      /\ call[c].until \in Nat /\ call[c].at \in Nat /\ now <= call[c].at + CallTakes
  BY <1>1, <1>2, CallTimes, TableFacts, Durations DEF Row, Times
<1>10. now + AccessTTL - CallTakes <= row.created + AccessTTL
       /\ now + AccessTTL - CallTakes \in Nat /\ row.created + AccessTTL \in Nat
  BY <1>2, <1>9, Distances
<1>11. Known(call[c].new, row.created, now + AccessTTL - CallTakes)
  BY <1>2, <1>10, KnownLonger
<1>12. \A p : p = now => OnDash(w, p, row.created)'
  <2> SUFFICES ASSUME NEW p, p = now PROVE OnDash(w, p, row.created)'
    OBVIOUS
  <2>1. MeCall(w, call[c], p)'
    BY <1>1, <1>3, <1>4, <1>8, MeSent DEF MeCall
  <2>2. \A d \in Calls \ {c} : Spare(d)'
    BY <1>8 DEF Spare
  <2>3. Known(jar.id, row.created, p + AccessTTL - CallTakes)'
    BY <1>1, <1>4, <1>11 DEF Known, RowsWithId
  <2>4. jar'.until >= p + AccessTTL - CallTakes
    BY <1>2, <1>4, <1>9, <1>10, Distances
  <2>5. Resting(w, p, row.created)'
    BY <1>3, <1>4, <2>1, <2>2, <2>3, <2>4 DEF Resting
  <2>6. p <= now' /\ now' <= p + RefreshEvery
    BY <1>1, <1>9, Distances
  <2> QED
    BY <1>1, <1>7, <2>5, <2>6 DEF OnDash
<1> QED
  BY <1>9, <1>12 DEF Signed

\* The dashboard is told that it is signed in.
LEMMA WatchMe ==
  ASSUME NEW w, StaysInView(w), BrowserInv, NEW c \in Calls, Deliver(c),
         NEW p \in Times, NEW created \in Times, OnDash(w, p, created),
         Resting(w, p, created), MeCall(w, call[c], p)
  PROVE  Signed(w)'
<1>1. /\ call[c] # NoCall /\ call[c].pc = "answer" /\ UNCHANGED <<now, sessions, drawn>>
      /\ jar' = JarAfter(c)
  BY DEF Deliver, Under
<1>2. jar' = jar /\ ~SignsIn(c) /\ ~Ousts(c)
  BY <1>1 DEF MeCall, JarAfter, SignsIn, Ousts
<1>3. call' = [call EXCEPT ![c] = NoCall] /\ tab' = tab
  BY <1>2 DEF Deliver
<1>4. call'[c] = NoCall /\ \A d \in Calls \ {c} : call'[d] = call[d]
  BY <1>3, TableFacts
<1>5. Spare(c)' /\ \A d \in Calls \ {c} : /\ Spare(d) => Spare(d)'
                                          /\ MeCall(w, call[d], p) => MeCall(w, call[d], p)'
  BY <1>2, <1>4 DEF Spare, MeCall
<1>6. Known(jar.id, created, p + AccessTTL - CallTakes)'
  BY <1>1, <1>2 DEF Resting, Known, RowsWithId
<1>7. Resting(w, p, created)'
  BY <1>2, <1>5, <1>6 DEF Resting
<1> QED
  BY <1>1, <1>3, <1>7 DEF OnDash, Signed

\* A refresh brings the next cookie, or the window is over.
LEMMA WatchRenewed ==
  ASSUME NEW w, StaysInView(w), BrowserInv, NEW c \in Calls, Deliver(c),
         NEW p \in Times, NEW created \in Times, OnDash(w, p, created),
         RefreshCall(w, call[c], p, created), \A d \in Calls \ {c} : Spare(d)
  PROVE  Signed(w)'
<1>1. /\ call[c] # NoCall /\ call[c].pc = "answer" /\ UNCHANGED <<now, sessions, drawn>>
      /\ jar' = JarAfter(c)
  BY DEF Deliver, Under
<1>2. CASE call[c].status = 204
  <2>1. call[c].until >= p + AccessTTL /\ Known(call[c].new, created, p + AccessTTL)
    BY <1>1, <1>2 DEF RefreshCall
  <2>2. /\ jar'.id = call[c].new /\ jar'.until = call[c].until /\ call[c].new # {}
        /\ ~SignsIn(c) /\ ~Ousts(c)
    BY <1>1, <1>2 DEF RefreshCall, JarAfter, SignsIn, Ousts
  <2>3. call' = [call EXCEPT ![c] = NoCall] /\ tab' = tab
    BY <2>2 DEF Deliver
  <2>4. \A d \in Calls : Spare(d)'
    BY <2>3, TableFacts DEF Spare
  <2>5. /\ p \in Nat /\ p + AccessTTL - CallTakes \in Nat /\ p + AccessTTL \in Nat
        /\ p + AccessTTL - CallTakes <= p + AccessTTL /\ call[c].until \in Nat
    BY <1>1, CallTimes, Distances, Durations DEF Times
  <2>6. Known(call[c].new, created, p + AccessTTL - CallTakes)
    BY <2>1, <2>5, KnownLonger
  <2>7. Known(jar.id, created, p + AccessTTL - CallTakes)'
    BY <1>1, <2>2, <2>6 DEF Known, RowsWithId
  <2>8. jar'.until >= p + AccessTTL - CallTakes
    BY <2>1, <2>2, <2>5, Distances
  <2>9. Resting(w, p, created)'
    BY <2>2, <2>4, <2>7, <2>8 DEF Resting
  <2> QED
    BY <1>1, <2>3, <2>9 DEF OnDash, Signed
<1>3. CASE call[c].status # 204
  <2>1. call[c].status = 401 /\ LateFor(created)
    BY <1>1, <1>3 DEF RefreshCall
  <2>2. jar' = NoCookie /\ ~SignsIn(c) /\ Ousts(c)
    BY <1>1, <2>1 DEF RefreshCall, JarAfter, SignsIn, Ousts
  <2>3. jar'.id = {}
    BY <2>2 DEF NoCookie
  <2>4. ReplaceWithLogin(w, c, jar'.id)
    BY <2>2 DEF Deliver, RefreshCall
  <2>5. LoadLogin(w, c)
    BY <2>3, <2>4 DEF ReplaceWithLogin
  <2>6. \A x \in tab[w].since : LateFor(x)
    BY <2>1 DEF OnDash
  <2> QED
    BY <1>1, <2>3, <2>5, <2>6, LoginPage
<1> QED
  BY <1>2, <1>3

\* The answers that reach the browser.
LEMMA WatchAnswered ==
  ASSUME NEW w, StaysInView(w), BrowserInv, Signed(w), Answered
  PROVE  Signed(w)'
<1>1. PICK c \in Calls : Deliver(c) \/ DeliverOrphan(c)
  BY DEF Answered, FetchFails, StaysInView
<1>2. call[c] # NoCall /\ call[c].pc = "answer"
  BY <1>1 DEF Deliver, DeliverOrphan, Under
<1>3. CASE Deliver(c)
  <2>1. ~Spare(c)
    BY <1>2, <1>3 DEF Deliver, Spare
  <2> QED
    BY <1>2, <1>3, <2>1, Requester, WatchSignsIn, WatchMe, WatchRenewed
<1>4. CASE DeliverOrphan(c)
  <2>1. Spare(c) /\ UNCHANGED <<now, sessions, drawn, tab>>
    BY <1>2, <1>4, Requester DEF DeliverOrphan, LoginCall, MeCall, RefreshCall
  <2>2. JarAfter(c) = jar
    BY <1>2, <2>1 DEF JarAfter, Spare
  <2>3. jar' = jar /\ call' = [call EXCEPT ![c] = NoCall]
    BY <1>4, <2>2 DEF DeliverOrphan
  <2>4. call'[c] = NoCall /\ \A d \in Calls \ {c} : call'[d] = call[d]
    BY <2>3, TableFacts
  <2>5. Spare(c)'
    BY <2>4 DEF Spare
  <2> QED
    BY <1>2, <2>1, <2>3, <2>4, <2>5, SpareMoves
<1> QED
  BY <1>1, <1>3, <1>4

\* The cookie outlives the interval of the ticker.
LEMMA WatchTick ==
  ASSUME NEW w, StaysInView(w), BrowserInv, Signed(w), Tick
  PROVE  Signed(w)'
<1>1. /\ now' = now + 1 /\ UNCHANGED <<sessions, drawn, call, tab>>
      /\ jar' = IF jar.until <= now' THEN NoCookie ELSE jar
      /\ now \notin tab[w].timer
  BY DEF Tick, StaysInView
<1>2. jar'.id \in {{}, jar.id}
  BY <1>1 DEF NoCookie
<1>3. \A ids, created, low : Known(ids, created, low) => Known(ids, created, low)'
  BY <1>1 DEF Known, RowsWithId
<1>4. \A c \in Calls : Spare(c)' <=> Spare(c)
  BY <1>1 DEF Spare
<1>5. now \in Nat /\ JarOK(jar) /\ jar.until \in Nat
  BY CallTimes, JarFacts, Durations DEF JarOK, Times
<1>6. CASE Unopened(w)
  BY <1>1, <1>2, <1>6 DEF Signed, Unopened
<1>7. CASE AtLogin(w)
  <2>1. \A created \in tab[w].since : LateFor(created) => LateFor(created)'
    <3>1. \A created \in tab[w].since : created \in Nat
      BY TabFacts, Durations DEF StaysInView, Maybe, Times
    <3> QED
      BY <1>1, <1>5, <3>1, Durations DEF LateFor
  <2>2. \A c \in Calls : LoginCall(w, call[c]) => LoginCall(w, call[c])'
    <3> SUFFICES ASSUME NEW c \in Calls, LoginCall(w, call[c]) PROVE LoginCall(w, call[c])'
      OBVIOUS
    <3>1. \A row \in Row : row.created <= now => row.created <= now'
      BY <1>1, <1>5, Durations DEF Row, Times
    <3> QED
      BY <1>1, <1>3, <3>1 DEF LoginCall
  <2> QED
    BY <1>1, <1>2, <1>4, <1>7, <2>1, <2>2 DEF AtLogin, Signed
<1>8. ASSUME NEW p \in Times, NEW created \in Times, OnDash(w, p, created)
      PROVE  OnDash(w, p, created)'
  <2>1. p \in Nat /\ created \in Nat
    BY Durations DEF Times
  <2>2. p <= now' /\ now' <= p + RefreshEvery
    BY <1>1, <1>5, <1>8, <2>1, Distances DEF OnDash
  <2>3. CASE Resting(w, p, created)
    <3>1. jar' = jar
      <4>1. now' < jar.until
        BY <1>1, <1>5, <2>1, <2>2, <2>3, Distances DEF Resting
      <4> QED
        BY <1>1, <1>5, <4>1
    <3>2. \A d \in Calls : MeCall(w, call[d], p) => MeCall(w, call[d], p)'
      BY <1>1, <3>1 DEF MeCall
    <3>3. Resting(w, p, created)'
      BY <1>1, <1>3, <1>4, <2>3, <3>1, <3>2 DEF Resting
    <3> QED
      BY <1>1, <1>8, <2>2, <3>3 DEF OnDash
  <2>4. CASE Refreshing(w, p, created)
    <3>1. LateFor(created) => LateFor(created)'
      BY <1>1, <1>5, <2>1, Durations DEF LateFor
    <3>2. \A c \in Calls : RefreshCall(w, call[c], p, created)
                             => RefreshCall(w, call[c], p, created)'
      BY <1>1, <1>3, <3>1 DEF RefreshCall
    <3>3. Refreshing(w, p, created)'
      BY <1>1, <1>4, <2>4, <3>2 DEF Refreshing
    <3> QED
      BY <1>1, <1>8, <2>2, <3>3 DEF OnDash
  <2> QED
    BY <1>8, <2>3, <2>4 DEF OnDash
<1> QED
  BY <1>6, <1>7, <1>8 DEF Signed

\* The first visit, without a cookie.
LEMMA WatchVisit ==
  ASSUME NEW w, StaysInView(w), BrowserInv, Signed(w), tab[w].page = "closed", Visit(w)
  PROVE  Signed(w)'
<1>1. Unopened(w)
  BY DEF Signed, AtLogin, OnDash
<1>2. PICK c \in Calls : LoadLogin(w, c)
  BY <1>1 DEF Visit, Unopened
<1>3. now' = now /\ jar'.id = {}
  BY <1>1 DEF Visit, Unopened
<1>4. \A d \in Calls \ {c} : Spare(d)
  BY <1>1 DEF Unopened, Spare
<1>5. \A created \in tab[w].since : LateFor(created)
  BY <1>1 DEF Unopened
<1> QED
  BY <1>2, <1>3, <1>4, <1>5, LoginPage

\* The form sends the only request of the login page.
LEMMA WatchSubmit ==
  ASSUME NEW w, StaysInView(w), BrowserInv, Signed(w), SubmitLogin(w)
  PROVE  Signed(w)'
<1>1. AtLogin(w) /\ UNCHANGED <<now, sessions, jar, tab>>
  BY DEF SubmitLogin, Signed, Unopened, OnDash
<1>2. \A c \in Calls : call[c] # NoCall => call[c].tab # {w}
  BY DEF SubmitLogin
<1>3. \A c \in Calls : Spare(c)
  BY <1>1, <1>2 DEF AtLogin, LoginCall, Spare
<1>4. PICK c \in Calls, new \in Draws("login", jar.id) :
        call' = [call EXCEPT ![c] = NewCall("login", w, jar.id, new)]
  BY DEF SubmitLogin, Send
<1>5. /\ call'[c] = NewCall("login", w, jar.id, new)
      /\ \A d \in Calls \ {c} : call'[d] = call[d]
  BY <1>4, TableFacts
<1>6. \A d \in Calls \ {c} : Spare(d)'
  BY <1>3, <1>5 DEF Spare
<1>7. LoginCall(w, call[c])'
  BY <1>5, LoginSent DEF LoginCall
<1>8. AtLogin(w)'
  BY <1>1, <1>6, <1>7 DEF AtLogin, LateFor
<1> QED
  BY <1>8 DEF Signed

\* When the ticker fires nothing of the user's is under way, and the session
\* is good for another round trip.
LEMMA WatchTicker ==
  ASSUME NEW w, StaysInView(w), BrowserInv, Signed(w), TickerFires(w)
  PROVE  Signed(w)'
<1>1. tab[w].timer = {now} /\ UNCHANGED <<now, sessions, jar>>
  BY DEF TickerFires
<1>2. PICK p \in Times, created \in Times : OnDash(w, p, created)
  BY <1>1 DEF Signed, Unopened, AtLogin
<1>3. now = p + RefreshEvery
  BY <1>1, <1>2 DEF OnDash
<1>4. p \in Nat /\ now \in Nat /\ now \in Times
  BY CallTimes, TableFacts, Durations DEF Times
<1>5. \A c \in Calls : call[c] # NoCall => call[c].at # p
  BY <1>3, <1>4, CallTimes, Distances
<1>6. Resting(w, p, created) /\ \A c \in Calls : Spare(c)
  <2>1. ~Refreshing(w, p, created)
    BY <1>5 DEF Refreshing, RefreshCall
  <2>2. \A c \in Calls : call[c] # NoCall => ~MeCall(w, call[c], p)
    BY <1>5 DEF MeCall
  <2> QED
    BY <1>2, <2>1, <2>2 DEF OnDash, Resting, Spare
<1>7. jar.id # {} /\ Known(jar.id, created, p + AccessTTL - CallTakes)
  BY <1>6 DEF Resting
<1>8. PICK c \in Calls, new \in Draws("refresh", jar.id) :
        call' = [call EXCEPT ![c] = NewCall("refresh", w, jar.id, new)]
  BY DEF TickerFires, Send
<1>9. /\ call'[c] = NewCall("refresh", w, jar.id, new)
      /\ \A d \in Calls \ {c} : call'[d] = call[d]
  BY <1>8, TableFacts
<1>10. \A d \in Calls \ {c} : Spare(d)'
  BY <1>6, <1>9 DEF Spare
<1>11. /\ now + CallTakes \in Nat /\ p + AccessTTL - CallTakes \in Nat
       /\ now + CallTakes <= p + AccessTTL - CallTakes
  BY <1>3, <1>4, Distances
<1>12. Known(jar.id, created, now + CallTakes)
  BY <1>7, <1>11, KnownLonger
<1>13. w \in Tabs /\ tab' = [tab EXCEPT ![w].timer = {now + RefreshEvery}]
       /\ tab \in [Tabs -> Page]
  BY DEF TickerFires, StaysInView, BrowserInv, BrowserTypeOK
<1>14. /\ tab'[w].page = "dash" /\ tab'[w].timer = {now + RefreshEvery}
       /\ tab'[w].since = {created}
  BY <1>2, <1>13 DEF OnDash, Page
<1>15. ASSUME NEW q, q = now PROVE OnDash(w, q, created)'
  <2>1. q \in Nat /\ q <= now' /\ now' <= q + RefreshEvery
    BY <1>1, <1>4, <1>15, Distances
  <2>2. \A ids : ids = jar.id => Known(ids, created, q + CallTakes)'
    BY <1>1, <1>12, <1>15 DEF Known, RowsWithId
  <2>3. /\ call'[c] # NoCall /\ call'[c].kind = "refresh" /\ call'[c].tab = {w}
        /\ call'[c].at = q /\ call'[c].pc = "select" /\ call'[c].cookie = jar.id
        /\ call'[c].new # {}
    <3> DEFINE sent == NewCall("refresh", w, jar.id, new)
    <3>1. /\ sent # NoCall /\ sent.kind = "refresh" /\ sent.tab = {w} /\ sent.at = now
          /\ sent.pc = "select" /\ sent.cookie = jar.id /\ sent.new # {}
      BY <1>7 DEF NewCall, NoCall, Draws
    <3> HIDE DEF sent
    <3>2. call'[c] = sent
      BY <1>9 DEF sent
    <3> QED
      BY <1>15, <3>1, <3>2
  <2>4. RefreshCall(w, call[c], q, created)'
    BY <2>2, <2>3 DEF RefreshCall
  <2>5. Refreshing(w, q, created)'
    BY <1>10, <2>3, <2>4 DEF Refreshing
  <2> QED
    BY <1>14, <1>15, <2>1, <2>5 DEF OnDash
<1> QED
  BY <1>4, <1>15 DEF Signed

\* No step of the hub, the browser or the clock signs the user out.
LEMMA WatchStep ==
  ASSUME NEW w, StaysInView(w)
  PROVE  BrowserInv /\ Signed(w) /\ [WatchNext]_vars => Signed(w)'
<1> SUFFICES ASSUME BrowserInv, Signed(w), [WatchNext]_vars PROVE Signed(w)'
  OBVIOUS
<1>1. CASE UNCHANGED vars
  <2>1. UNCHANGED <<now, sessions, drawn, call, jar, tab>>
    BY <1>1 DEF vars, sessionVars
  <2>2. \A ids, created, low : Known(ids, created, low)' <=> Known(ids, created, low)
    BY <2>1 DEF Known, RowsWithId
  <2>3. /\ Unopened(w)' <=> Unopened(w)
        /\ \A c \in Calls : Spare(c)' <=> Spare(c)
    BY <2>1 DEF Unopened, Spare
  <2>4. \A c \in Calls : LoginCall(w, call[c])' <=> LoginCall(w, call[c])
    BY <2>1, <2>2 DEF LoginCall
  <2>5. \A c \in Calls, p, created \in Times :
          /\ MeCall(w, call[c], p)' <=> MeCall(w, call[c], p)
          /\ RefreshCall(w, call[c], p, created)' <=> RefreshCall(w, call[c], p, created)
    BY <2>1, <2>2 DEF MeCall, RefreshCall, LateFor
  <2>6. AtLogin(w)' <=> AtLogin(w)
    BY <2>1, <2>3, <2>4 DEF AtLogin, LateFor
  <2>7. \A p, created \in Times : OnDash(w, p, created)' <=> OnDash(w, p, created)
    <3> SUFFICES ASSUME NEW p \in Times, NEW created \in Times
                 PROVE  OnDash(w, p, created)' <=> OnDash(w, p, created)
      OBVIOUS
    <3>1. Resting(w, p, created)' <=> Resting(w, p, created)
      BY <2>1, <2>2, <2>3, <2>5 DEF Resting
    <3>2. Refreshing(w, p, created)' <=> Refreshing(w, p, created)
      BY <2>1, <2>3, <2>5 DEF Refreshing
    <3> QED
      BY <2>1, <3>1, <3>2 DEF OnDash
  <2> QED
    BY <2>3, <2>6, <2>7 DEF Signed
<1>2. CASE WatchNext
  <2>1. \/ ServerStep \/ Answered \/ Tick
        \/ tab[w].page = "closed" /\ Visit(w)
        \/ SubmitLogin(w) \/ TickerFires(w)
    BY <1>2 DEF WatchNext, StaysInView
  <2> QED
    BY <2>1, WatchServer, WatchAnswered, WatchTick, WatchVisit, WatchSubmit, WatchTicker
<1> QED
  BY <1>1, <1>2

\* STAYS SIGNED IN.  The page refreshes faster than the cookie and the row
\* expire, the purge spares what a refresh under way will need, and the
\* refresh hands over to its successor, for every window and every delay
\* within CallTakes (camhub.js, db.SessionStore.Rotate and PurgeExpired).
THEOREM UserStaysSignedIn ==
  ASSUME NEW w, StaysInView(w)
  PROVE  WatchSpec => []StaysSignedIn
<1>1. Init => Signed(w)
  BY DEF Init, SessionsInit, Signed, Unopened, NoCookie, StaysInView
<1>2. [WatchNext]_vars => [Next]_vars
  BY DEF WatchNext, Next
<1>3. ASSUME Signed(w), BrowserInv PROVE StaysSignedIn
  <2> SUFFICES ASSUME NEW created \in Times, tab[w].since = {created}, now <= created + Window
               PROVE  /\ tab[w].page = "dash"
                      /\ \/ \E row \in RowsWithId(jar.id) : row.expires > now
                         \/ \E c \in Calls : call[c] # NoCall /\ call[c].kind = "refresh"
    BY DEF StaysSignedIn, StaysInView
  <2>1. ~LateFor(created)
    BY <1>3, CallTimes, Durations DEF LateFor, Times
  <2>2. PICK p \in Times, then \in Times : OnDash(w, p, then)
    BY <1>3, <2>1 DEF Signed, Unopened, AtLogin
  <2>3. CASE Resting(w, p, then)
    <3>1. PICK row \in RowsWithId(jar.id) : p + AccessTTL - CallTakes <= row.expires
      BY <2>3 DEF Resting, Known
    <3>2. row.expires \in Nat /\ now \in Nat /\ p \in Nat
      BY <1>3, <3>1, CallTimes, Durations DEF RowsWithId, Times
    <3>3. row.expires > now
      BY <2>2, <3>1, <3>2, Distances DEF OnDash
    <3> QED
      BY <2>2, <3>1, <3>3 DEF OnDash
  <2>4. CASE Refreshing(w, p, then)
    BY <2>2, <2>4 DEF OnDash, Refreshing, RefreshCall
  <2> QED
    BY <2>2, <2>3, <2>4 DEF OnDash
<1>4. BrowserInv /\ Signed(w) /\ [WatchNext]_vars => Signed(w)'
  BY WatchStep
<1> QED
  BY <1>1, <1>2, <1>3, <1>4, BrowserInitInv, BrowserStepInv, PTL DEF WatchSpec

=============================================================================
