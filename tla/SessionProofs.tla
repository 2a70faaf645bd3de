----------------------------- MODULE SessionProofs -----------------------------
(***************************************************************************)
(* Theorems about Sessions, for all accounts, tokens, requests, bounds and  *)
(* faults: every property the run sessions checks, and that Sessions        *)
(* implements SessionLifecycle.  All follow from one inductive invariant.   *)
(* Its heart is OneRequest: while a session is open, a client that awaits   *)
(* its answers has one request under way, and so whoever deletes the row of *)
(* such a session takes its only one.                                       *)
(*                                                                          *)
(* Steps are of four kinds: Move, Delete and Store, of a request, and       *)
(* Expire.  KindsOfSteps says so; what a step preserves is shown by kind.   *)
(***************************************************************************)
EXTENDS Sessions, FiniteSetTheorems, TLAPS

CallType ==
  [pc : CallPcs, email : Emails \cup {NoEmail}, old : Tokens \cup {NoToken},
   new : Tokens \cup {NoToken}, reply : Replies]

Known == Tokens \ Fresh

SessionOf(t) == issue[t].session

TokensInv ==
  /\ users \in [Emails -> 0..1]
  /\ issue \in [Tokens -> [email : Emails \cup {NoEmail}, session : Tokens \cup {NoToken}]]
  /\ \A t \in Known : SessionOf(t) \in Known
  /\ stored \subseteq Known /\ held \subseteq Known /\ expired \subseteq Known
  /\ loggedOut \subseteq Known /\ overlapped \subseteq Known /\ disturbed \subseteq Known
  /\ exchanges \in [Tokens -> Nat] /\ \A t \in Fresh : exchanges[t] = 0

\* The request r has what it needs.
Whole(r) ==
  /\ r \in CallType /\ r.old \notin Fresh /\ r.new \notin Fresh
  /\ r.pc = "idle" => r.old = NoToken
  /\ r.pc # "answered" => r.new = NoToken /\ r.reply = "none"
  /\ r.pc \in {"read", "cleanup", "delete", "logout"} => r.old # NoToken
  /\ r.pc = "create" => r.email # NoEmail /\ r.old = NoToken
  /\ r.pc = "store" => r.email # NoEmail \/ r.old # NoToken
  /\ r.old # NoToken /\ r.new # NoToken => SessionOf(r.old) = SessionOf(r.new)

\* What r has read of its token, or done to it, is so.
Informed(r) ==
  /\ r.pc = "cleanup" => r.old \in expired
  /\ r.pc = "store" => r.old \notin stored
  /\ r.reply = "served" /\ r.new = NoToken =>
       r.old \notin stored \ expired \/ SessionOf(r.old) \in disturbed

\* Nobody but r has done anything to its session, if that has one client.
Alone(r) ==
  r.old # NoToken /\ SessionOf(r.old) \notin overlapped =>
    /\ r.pc = "delete" => r.old \in stored
    /\ r.pc = "store" => Members(SessionOf(r.old)) \cap stored = {}

CallsInv ==
  /\ call \in [Calls -> CallType]
  /\ \A c \in Calls : Whole(call[c]) /\ Informed(call[c]) /\ Alone(call[c])

\* r is a request of the session s.
Of(r, s) == \E t \in {r.old, r.new} \ {NoToken} : SessionOf(t) = s

SingleToken == \A s \in Tokens \ overlapped : \A t, n \in Members(s) \cap stored : t = n

OneRequest ==
  \A s \in Tokens \ overlapped : Open(s) =>
    \A c, d \in Calls : Of(call[c], s) /\ Of(call[d], s) => c = d

SessionsInv == SingleToken /\ OneRequest /\ LogoutEndsSession /\ SessionSurvives

\* The requests that have read t and may store a token in its place.
Through(t) == {c \in Calls : call[c].old = t /\ call[c].pc \in {"delete", "store"}}

BudgetInv ==
  \A t \in Tokens : /\ t \in stored => exchanges[t] = 0
                    /\ exchanges[t] + Cardinality(Through(t)) <= Cardinality(Calls)

IInv == TokensInv /\ CallsInv /\ SessionsInv /\ BudgetInv

-----------------------------------------------------------------------------
(* Kinds of steps *)

\* Request c becomes r.  No token comes or goes; a request joins a session that
\* is open only when no other is of it, or its client overlaps.
Move(c, r) ==
  /\ Become(c, r) /\ Whole(r) /\ Informed(r)
  /\ r.pc = "delete" => r.old \in stored \ expired
  /\ r.pc = "store" => r.old = NoToken
  /\ UNCHANGED <<stored, issue, expired, exchanges, loggedOut>>
  /\ users' \in [Emails -> 0..1]
  /\ held \subseteq held' /\ held' \subseteq Known
  /\ overlapped \subseteq overlapped' /\ overlapped' \subseteq Known
  /\ disturbed \subseteq disturbed' /\ disturbed' \subseteq Known
  /\ \A s \in overlapped' \ overlapped : Open(s)
  /\ \A s \in Tokens \ overlapped' :
       Open(s) /\ Of(r, s) => Of(call[c], s) \/ \A d \in Calls : ~Of(call[d], s)
  /\ call[c].pc = "store" /\ call[c].old # NoToken => SessionOf(call[c].old) \in disturbed'
  /\ call[c].new # NoToken => call[c].new \in held' \/ SessionOf(call[c].new) \in disturbed'

\* Request c has the row of its token deleted, or tries to, and becomes r.
Delete(c, r) ==
  LET t == call[c].old  s == SessionOf(t) IN
  /\ Become(c, r) /\ Whole(r) /\ r.old = t /\ r.new = NoToken
  /\ call[c].pc \in {"cleanup", "delete", "logout"} /\ r.pc \in {"answered", "store"}
  /\ UNCHANGED <<users, issue, expired, held, exchanges, overlapped>>
  /\ stored' \in {stored, stored \ {t}}
  /\ loggedOut' \in {loggedOut, loggedOut \cup {s}}
  /\ disturbed' \in {disturbed, disturbed \cup {s}}
  /\ s \notin disturbed' => t \notin stored'
  /\ r.pc = "store" => call[c].pc = "delete" /\ t \notin stored'
  /\ loggedOut' # loggedOut => r.pc = "answered" /\ t \in stored /\ t \notin stored'
  /\ s \notin disturbed' \cup loggedOut' =>
       r.pc = "store" \/ t \in expired \/ stored' = stored

\* Request c stores the fresh token n, for the session s, and becomes r.
Store(c, r, n, s) ==
  LET t == call[c].old IN
  /\ Become(c, r) /\ call[c].pc = "store"
  /\ n \in Fresh /\ s = IF t = NoToken THEN n ELSE SessionOf(t)
  /\ r \in CallType /\ r.pc = "answered" /\ r.old = t
  /\ \/ r.new = n
     \/ r.new = NoToken /\ r.reply # "served" /\ s \in disturbed'
  /\ UNCHANGED <<users, expired, held, loggedOut, overlapped>>
  /\ stored' = stored \cup {n}
  /\ \E e \in Emails \cup {NoEmail} : issue' = [issue EXCEPT ![n] = [email |-> e, session |-> s]]
  /\ exchanges' = IF t = NoToken THEN exchanges ELSE [exchanges EXCEPT ![t] = @ + 1]
  /\ disturbed' \in {disturbed, disturbed \cup {s}}

LEMMA AnsweredShape ==
  ASSUME NEW r \in CallType, NEW reply \in Replies
  PROVE  /\ Answered(r, reply) \in CallType
         /\ Answered(r, reply).pc = "answered" /\ Answered(r, reply).reply = reply
         /\ Answered(r, reply).old = r.old /\ Answered(r, reply).new = r.new
BY DEF Answered, CallType, CallPcs

LEMMA GotoShape ==
  ASSUME NEW r \in CallType, NEW pc \in CallPcs
  PROVE  /\ [r EXCEPT !.pc = pc] \in CallType /\ [r EXCEPT !.pc = pc].pc = pc
         /\ [r EXCEPT !.pc = pc].old = r.old /\ [r EXCEPT !.pc = pc].new = r.new
         /\ [r EXCEPT !.pc = pc].reply = r.reply /\ [r EXCEPT !.pc = pc].email = r.email
BY DEF CallType, CallPcs

LEMMA AskShapes ==
  /\ IdleCall \in CallType /\ IdleCall.pc = "idle" /\ IdleCall.old = NoToken
  /\ IdleCall.new = NoToken /\ IdleCall.reply = "none"
  /\ \A e \in Emails, pc \in CallPcs :
       /\ Asks(e, pc) \in CallType /\ Asks(e, pc).pc = pc /\ Asks(e, pc).email = e
       /\ Asks(e, pc).old = NoToken /\ Asks(e, pc).new = NoToken /\ Asks(e, pc).reply = "none"
  /\ \A t \in Tokens, pc \in CallPcs :
       /\ Presents(t, pc) \in CallType /\ Presents(t, pc).pc = pc /\ Presents(t, pc).old = t
       /\ Presents(t, pc).new = NoToken /\ Presents(t, pc).reply = "none"
<1>1. IdleCall \in CallType
  BY DEF IdleCall, CallType, CallPcs, Replies
<1>2. IdleCall.pc = "idle" /\ IdleCall.old = NoToken /\ IdleCall.new = NoToken
      /\ IdleCall.reply = "none"
  BY DEF IdleCall
<1>3. ASSUME NEW e \in Emails, NEW pc \in CallPcs
      PROVE  /\ Asks(e, pc) \in CallType /\ Asks(e, pc).pc = pc /\ Asks(e, pc).email = e
             /\ Asks(e, pc).old = NoToken /\ Asks(e, pc).new = NoToken
             /\ Asks(e, pc).reply = "none"
  BY <1>1, <1>2 DEF Asks, CallType
<1>4. ASSUME NEW t \in Tokens, NEW pc \in CallPcs
      PROVE  /\ Presents(t, pc) \in CallType /\ Presents(t, pc).pc = pc
             /\ Presents(t, pc).old = t /\ Presents(t, pc).new = NoToken
             /\ Presents(t, pc).reply = "none"
  BY <1>1, <1>2 DEF Presents, CallType
<1>5. QED  BY <1>1, <1>2, <1>3, <1>4

LEMMA RefusedShapes ==
  ASSUME NEW reply \in Replies, NEW pc
  PROVE  /\ \A e \in Emails : LET a == Answered(Asks(e, pc), reply) IN
              /\ a \in CallType /\ a.pc = "answered" /\ a.reply = reply
              /\ a.old = NoToken /\ a.new = NoToken
         /\ \A t \in Tokens : LET a == Answered(Presents(t, pc), reply) IN
              /\ a \in CallType /\ a.pc = "answered" /\ a.reply = reply
              /\ a.old = t /\ a.new = NoToken
BY DEF Answered, IdleCall, Asks, Presents, CallType, CallPcs

LEMMA TokenFacts ==
  ASSUME TokensInv
  PROVE  /\ NoToken \notin Tokens /\ Fresh \subseteq Tokens /\ NoToken \notin Known
         /\ \A t \in Tokens : t \in Fresh <=> SessionOf(t) = NoToken
         /\ \A t \in Tokens : SessionOf(t) \in Tokens => t \in Known
         /\ \A s : Members(s) \subseteq Tokens
         /\ \A s \in Tokens : Members(s) \subseteq Known
BY NamesAssumption DEF TokensInv, Known, Fresh, SessionOf, Members, NotIssued

-----------------------------------------------------------------------------
(* Every step is of one of the kinds *)

LEMMA CallFacts ==
  ASSUME IInv, NEW c \in Calls
  PROVE  /\ call[c] \in CallType /\ Whole(call[c]) /\ Informed(call[c]) /\ Alone(call[c])
         /\ \A s : s \in SessionsOf(c) <=> Of(call[c], s)
         /\ SessionsOf(c) \subseteq Known
<1>1. call[c] \in CallType /\ Whole(call[c]) /\ Informed(call[c]) /\ Alone(call[c]) /\ TokensInv
  BY DEF IInv, CallsInv
<1>2. \A s : s \in SessionsOf(c) <=> Of(call[c], s)
  BY DEF SessionsOf, Of, SessionOf
<1>3. {call[c].old, call[c].new} \ {NoToken} \subseteq Known
  BY <1>1 DEF Whole, CallType, Known
<1>4. QED  BY <1>1, <1>2, <1>3 DEF Of, TokensInv

\* Requests that start or go on without touching a row.
LEMMA ArrivalsMove ==
  ASSUME IInv, NEW c \in Calls, Arrival(c)
  PROVE  \E r \in CallType : Move(c, r)
<1>1. TokensInv /\ call[c] \in CallType /\ Whole(call[c])
  BY CallFacts DEF IInv
<1>2. {"create", "store", "read", "logout", "answered", "delete"} \subseteq CallPcs
      /\ {"bad_request", "unauthorized", "error", "served"} \subseteq Replies
  BY DEF CallPcs, Replies
<1>3. call[c].pc = "idle" /\ call[c].old = NoToken /\ call[c].new = NoToken
  BY <1>1 DEF Arrival, Register, Login, Refresh, Logout, Whole
<1>4. ASSUME NEW e \in Emails, Register(c, e) \/ Login(c, e)
      PROVE  \E r \in CallType : Move(c, r)
  <2>1. PICK r : /\ Become(c, r)
                 /\ \/ r \in {Asks(e, "create"), Asks(e, "store")}
                    \/ \E pc \in {"create", "store"},
                          reply \in {"bad_request", "unauthorized", "error"} :
                         r = Answered(Asks(e, pc), reply)
    BY <1>4 DEF Register, Login
  <2>2. /\ r \in CallType /\ r.old = NoToken /\ r.new = NoToken
        /\ \/ r.pc = "create" /\ r.email = e /\ r.reply = "none"
           \/ r.pc = "store" /\ r.email = e /\ r.reply = "none"
           \/ r.pc = "answered" /\ r.reply # "served"
    <3>1. \A pc \in {"create", "store"} : /\ Asks(e, pc) \in CallType
            /\ Asks(e, pc).pc = pc /\ Asks(e, pc).email = e /\ Asks(e, pc).reply = "none"
            /\ Asks(e, pc).old = NoToken /\ Asks(e, pc).new = NoToken
      BY <1>2, AskShapes
    <3>2. CASE r \in {Asks(e, "create"), Asks(e, "store")}
      BY <3>1, <3>2
    <3>3. ASSUME NEW pc \in {"create", "store"},
                 NEW reply \in {"bad_request", "unauthorized", "error"},
                 r = Answered(Asks(e, pc), reply)
          PROVE  /\ r \in CallType /\ r.old = NoToken /\ r.new = NoToken
                 /\ r.pc = "answered" /\ r.reply # "served"
      BY <1>2, <3>3, RefusedShapes
    <3>4. QED  BY <2>1, <3>2, <3>3
  <2>3. Whole(r) /\ Informed(r)
    BY <1>1, <2>2, NamesAssumption, TokenFacts DEF Whole, Informed, TokensInv, Known
  <2>4. UNCHANGED <<users, tokens, history>>
    BY <1>4 DEF Register, Login
  <2>5. \A s : ~Of(r, s)
    BY <2>2 DEF Of
  <2>6. QED
    BY <1>1, <1>3, <2>1, <2>2, <2>3, <2>4, <2>5 DEF Move, TokensInv, tokens, history
<1>5. ASSUME NEW t \in held, Refresh(c, t) \/ Logout(c, t)
      PROVE  \E r \in CallType : Move(c, r)
  <2>1. t \in Tokens /\ t \in Known /\ SessionOf(t) \in Known
    BY <1>1 DEF TokensInv, Known
  <2>2. PICK r : /\ Become(c, r)
                 /\ IF t \in expired
                    THEN r \in {Answered(Presents(t, "read"), "unauthorized"),
                                Answered(Presents(t, "logout"), "served")}
                    ELSE r \in {Presents(t, "read"), Presents(t, "logout")}
    BY <1>5 DEF Refresh, Logout
  <2>3. /\ r \in CallType /\ r.old = t /\ r.new = NoToken
        /\ \/ r.pc = "read" /\ r.reply = "none"
           \/ r.pc = "logout" /\ r.reply = "none"
           \/ r.pc = "answered" /\ t \in expired
    <3>1. \A pc \in {"read", "logout"} : /\ Presents(t, pc) \in CallType
            /\ Presents(t, pc).pc = pc /\ Presents(t, pc).reply = "none"
            /\ Presents(t, pc).old = t /\ Presents(t, pc).new = NoToken
      BY <1>2, <2>1, AskShapes
    <3>2. \A pc \in {"read", "logout"}, reply \in {"unauthorized", "served"} :
            LET a == Answered(Presents(t, pc), reply) IN
            a \in CallType /\ a.old = t /\ a.new = NoToken /\ a.pc = "answered"
      BY <1>2, <2>1, RefusedShapes
    <3>3. QED  BY <2>2, <3>1, <3>2
  <2>4. Whole(r) /\ Informed(r)
    BY <1>1, <2>1, <2>3, NamesAssumption, TokenFacts DEF Whole, Informed, Known
  <2>5. UNCHANGED <<users, tokens, exchanges, loggedOut, disturbed>> /\ Overlap(t)
    BY <1>5 DEF Refresh, Logout
  <2>6. \A s : Of(r, s) => s = SessionOf(t)
    BY <2>3 DEF Of
  <2>7. /\ overlapped \subseteq overlapped' /\ overlapped' \subseteq Known
        /\ \A s \in overlapped' \ overlapped : Open(s)
    BY <1>1, <2>1, <2>5 DEF Overlap, SessionOf, TokensInv
  <2>8. ASSUME NEW s \in Tokens \ overlapped', Open(s), Of(r, s)
        PROVE  \A d \in Calls : ~Of(call[d], s)
    <3>1. \A d \in Calls : s \notin SessionsOf(d)
      BY <2>5, <2>6, <2>8 DEF Overlap, SessionOf
    <3>2. QED  BY <3>1, CallFacts
  <2>9. QED
    BY <1>1, <1>3, <2>2, <2>3, <2>4, <2>5, <2>7, <2>8 DEF Move, TokensInv, tokens
<1>6. QED  BY <1>4, <1>5 DEF Arrival

LEMMA ChecksMove ==
  ASSUME IInv, NEW c \in Calls, CreateUser(c) \/ ReadToken(c)
  PROVE  \E r \in CallType : Move(c, r)
<1>1. TokensInv /\ call[c] \in CallType /\ Whole(call[c])
  BY CallFacts DEF IInv
<1>2. {"store", "cleanup", "delete"} \subseteq CallPcs
      /\ {"unauthorized", "error"} \subseteq Replies
  BY DEF CallPcs, Replies
<1> DEFINE t == call[c].old
<1>3. /\ UNCHANGED <<tokens, history>>
      /\ users' \in [Emails -> 0..1]
  BY <1>1 DEF CreateUser, ReadToken, TokensInv
<1>4. /\ call[c].pc \in {"create", "read"} /\ call[c].new = NoToken /\ call[c].reply = "none"
      /\ call[c].pc = "create" => call[c].email # NoEmail
      /\ call[c].pc = "read" => t # NoToken
  BY <1>1 DEF CreateUser, ReadToken, Whole
<1>5. CASE \E reply \in {"unauthorized", "error"} : Answer(c, reply)
  <2>1. PICK reply \in {"unauthorized", "error"} : Become(c, Answered(call[c], reply))
    BY <1>5 DEF Answer
  <2> DEFINE r == Answered(call[c], reply)
  <2>2. /\ r \in CallType /\ r.pc = "answered" /\ r.reply # "served"
        /\ r.old = call[c].old /\ r.new = call[c].new
    BY <1>1, <1>2, <2>1, AnsweredShape
  <2> HIDE DEF r
  <2>3. Whole(r) /\ Informed(r) /\ \A s : Of(r, s) => Of(call[c], s)
    BY <1>1, <2>2 DEF Whole, Informed, Of
  <2>4. Become(c, r)
    BY <2>1 DEF r
  <2>5. QED
    BY <1>1, <1>3, <1>4, <2>2, <2>3, <2>4 DEF Move, TokensInv, tokens, history
<1>6. CASE \E pc \in {"store", "cleanup", "delete"} :
             /\ Goto(c, pc)
             /\ pc = "store" => call[c].pc = "create"
             /\ pc = "cleanup" => call[c].pc = "read" /\ t \in expired
             /\ pc = "delete" => call[c].pc = "read" /\ t \in stored \ expired
  <2>1. PICK pc \in {"store", "cleanup", "delete"} :
             /\ Goto(c, pc)
             /\ pc = "store" => call[c].pc = "create"
             /\ pc = "cleanup" => call[c].pc = "read" /\ t \in expired
             /\ pc = "delete" => call[c].pc = "read" /\ t \in stored \ expired
    BY <1>6
  <2> DEFINE r == [call[c] EXCEPT !.pc = pc]
  <2>2. /\ r \in CallType /\ r.pc = pc /\ r.reply = "none" /\ r.email = call[c].email
        /\ r.old = call[c].old /\ r.new = NoToken
    BY <1>1, <1>2, <1>4, <2>1, GotoShape
  <2>3. Become(c, r)
    BY <1>1, <2>1 DEF Goto, Become, IInv, CallsInv
  <2> HIDE DEF r
  <2>4. pc = "store" => t = NoToken
    BY <1>1, <2>1 DEF Whole, CallType
  <2>5. Whole(r) /\ Informed(r) /\ \A s : Of(r, s) => Of(call[c], s)
    BY <1>1, <1>4, <2>1, <2>2, <2>4, TokenFacts DEF Whole, Informed, Of, TokensInv
  <2>6. QED
    BY <1>1, <1>3, <1>4, <2>1, <2>2, <2>3, <2>4, <2>5 DEF Move, TokensInv, tokens, history
<1>7. QED
  BY <1>5, <1>6 DEF CreateUser, ReadToken

LEMMA DeletesDelete ==
  ASSUME IInv, NEW c \in Calls, CleanUp(c) \/ DeleteOld(c) \/ DeleteForLogout(c)
  PROVE  \E r \in CallType : Delete(c, r)
<1> DEFINE t == call[c].old
           s == SessionOf(t)
<1>1. /\ call[c] \in CallType /\ Whole(call[c]) /\ Informed(call[c]) /\ TokensInv
      /\ call[c].pc \in {"cleanup", "delete", "logout"}
      /\ call[c].new = NoToken /\ call[c].reply = "none" /\ t # NoToken
  BY CallFacts DEF IInv, CleanUp, DeleteOld, DeleteForLogout, Whole
<1>2. SessionsOf(c) = {s}
  BY <1>1 DEF SessionsOf, SessionOf
<1>3. /\ \A reply \in {"unauthorized", "error", "served"} :
           LET a == Answered(call[c], reply) IN
           /\ a \in CallType /\ a.pc = "answered" /\ a.reply = reply
           /\ a.old = t /\ a.new = NoToken /\ Whole(a)
      /\ call[c].pc = "delete" => LET g == [call[c] EXCEPT !.pc = "store"] IN
           g \in CallType /\ g.pc = "store" /\ g.old = t /\ g.new = NoToken /\ Whole(g)
  <2>1. /\ {"unauthorized", "error", "served"} \subseteq Replies
        /\ "store" \in CallPcs
    BY DEF Replies, CallPcs
  <2>2. ASSUME NEW reply \in {"unauthorized", "error", "served"}
        PROVE  LET a == Answered(call[c], reply) IN
           /\ a \in CallType /\ a.pc = "answered" /\ a.reply = reply
           /\ a.old = t /\ a.new = NoToken /\ Whole(a)
    <3> DEFINE a == Answered(call[c], reply)
    <3>1. /\ a \in CallType /\ a.pc = "answered" /\ a.reply = reply
          /\ a.old = t /\ a.new = NoToken
      BY <1>1, <2>1, AnsweredShape
    <3> HIDE DEF a
    <3>2. Whole(a)
      BY <1>1, <3>1 DEF Whole
    <3>3. QED  BY <3>1, <3>2 DEF a
  <2>3. ASSUME call[c].pc = "delete"
        PROVE  LET g == [call[c] EXCEPT !.pc = "store"] IN
           g \in CallType /\ g.pc = "store" /\ g.old = t /\ g.new = NoToken /\ Whole(g)
    <3> DEFINE g == [call[c] EXCEPT !.pc = "store"]
    <3>1. /\ g \in CallType /\ g.pc = "store" /\ g.reply = call[c].reply
          /\ g.old = t /\ g.new = NoToken
      BY <1>1, <2>1, GotoShape
    <3> HIDE DEF g
    <3>2. Whole(g)
      BY <1>1, <3>1 DEF Whole
    <3>3. QED  BY <3>1, <3>2 DEF g
  <2>4. QED  BY <2>2, <2>3
<1>4. ASSUME NEW next, DeleteRow(c, next), call[c].pc \in {"cleanup", "delete"},
             \/ call[c].pc = "cleanup" /\ next = Answered(call[c], "unauthorized")
             \/ call[c].pc = "delete" /\ next = [call[c] EXCEPT !.pc = "store"]
      PROVE  \E r \in CallType : Delete(c, r)
  <2>1. PICK o \in Outcomes :
          /\ stored' = IF Applied(o) THEN stored \ {t} ELSE stored
          /\ IF Raised(o) THEN Answer(c, "error") ELSE Become(c, next)
          /\ disturbed' = IF Raised(o) THEN disturbed \cup {s} ELSE disturbed
    BY <1>2, <1>4 DEF DeleteRow
  <2>2. Applied(o) \/ Raised(o)
    BY FlagsAssumption DEF Outcomes, Applied, Raised
  <2>3. UNCHANGED <<users, issue, expired, held, exchanges, loggedOut, overlapped>>
    BY <1>4 DEF DeleteRow
  <2> DEFINE r == IF Raised(o) THEN Answered(call[c], "error") ELSE next
  <2>4. /\ r \in CallType /\ r.old = t /\ r.new = NoToken /\ Whole(r)
        /\ r.pc \in {"answered", "store"}
        /\ r.pc = "store" => call[c].pc = "delete" /\ ~Raised(o)
        /\ ~Raised(o) => r.pc = "store" \/ call[c].pc = "cleanup"
    BY <1>3, <1>4
  <2>5. Become(c, r)
    BY <2>1 DEF Answer
  <2> HIDE DEF r
  <2>6. call[c].pc = "cleanup" => t \in expired
    BY <1>1 DEF Informed
  <2>7. QED
    BY <1>1, <2>1, <2>2, <2>3, <2>4, <2>5, <2>6 DEF Delete
<1>5. CASE DeleteForLogout(c)
  <2>1. PICK o \in Outcomes :
          /\ stored' = IF Applied(o) THEN stored \ {t} ELSE stored
          /\ loggedOut' = IF Applied(o) /\ t \in stored THEN loggedOut \cup {s} ELSE loggedOut
          /\ disturbed' = IF Raised(o) THEN disturbed \cup {s} ELSE disturbed
    BY <1>2, <1>5 DEF DeleteForLogout, SessionOf
  <2>2. Applied(o) \/ Raised(o)
    BY FlagsAssumption DEF Outcomes, Applied, Raised
  <2> DEFINE r == Answered(call[c], "served")
  <2>3. Become(c, r) /\ UNCHANGED <<users, issue, expired, held, exchanges, overlapped>>
    BY <1>5 DEF DeleteForLogout, Answer
  <2>4. r \in CallType /\ r.pc = "answered" /\ r.old = t /\ r.new = NoToken /\ Whole(r)
    BY <1>3
  <2> HIDE DEF r
  <2>5. QED
    BY <1>1, <2>1, <2>2, <2>3, <2>4 DEF Delete
<1>6. QED  BY <1>4, <1>5 DEF CleanUp, DeleteOld

LEMMA StoreNewStores ==
  ASSUME IInv, NEW c \in Calls, StoreNew(c)
  PROVE  \E r \in CallType : Move(c, r) \/ \E n \in Fresh, s \in Tokens : Store(c, r, n, s)
<1> DEFINE t == call[c].old
<1>1. /\ call[c] \in CallType /\ Whole(call[c]) /\ Informed(call[c]) /\ TokensInv
      /\ call[c].pc = "store" /\ call[c].new = NoToken
      /\ t # NoToken => t \in Known /\ SessionOf(t) \in Known
      /\ call[c].email \in Emails \cup {NoEmail}
  BY CallFacts DEF IInv, StoreNew, Whole, CallType, TokensInv, Known
<1>2. t # NoToken => SessionsOf(c) = {SessionOf(t)}
  BY <1>1 DEF SessionsOf, SessionOf
<1> DEFINE fails == Answered(call[c], "error")
           works == Answered(call[c], "served")
<1>3. /\ fails \in CallType /\ fails.pc = "answered" /\ fails.reply = "error"
      /\ fails.old = t /\ fails.new = NoToken
      /\ works \in CallType /\ works.pc = "answered" /\ works.old = t
  BY <1>1, AnsweredShape DEF Replies
<1>4. CASE /\ Answer(c, "error") /\ disturbed' = disturbed \cup SessionsOf(c)
           /\ UNCHANGED <<stored, issue, exchanges>>
  <2>1. Become(c, fails)
    BY <1>4 DEF Answer
  <2> HIDE DEF fails
  <2>2. Whole(fails) /\ Informed(fails) /\ \A s : Of(fails, s) => Of(call[c], s)
    BY <1>1, <1>3 DEF Whole, Informed, Of
  <2>3. /\ UNCHANGED <<users, expired, held, loggedOut, overlapped>>
        /\ disturbed' \subseteq Known /\ disturbed \subseteq disturbed'
    BY <1>1, <1>4, CallFacts DEF StoreNew, TokensInv
  <2>4. QED
    BY <1>1, <1>2, <1>3, <1>4, <2>1, <2>2, <2>3 DEF Move, TokensInv
<1>5. ASSUME NEW n \in Fresh, NEW o \in Outcomes \ {"refused"},
             stored' = stored \cup {n},
             issue' = [issue EXCEPT ![n] =
               IF t = NoToken THEN [email |-> call[c].email, session |-> n] ELSE issue[t]],
             exchanges' = IF t = NoToken THEN exchanges ELSE [exchanges EXCEPT ![t] = @ + 1],
             disturbed' = IF Raised(o) THEN disturbed \cup {issue'[n].session} ELSE disturbed,
             Become(c, IF Raised(o) THEN fails ELSE [works EXCEPT !.new = n])
      PROVE  \E r \in CallType, s \in Tokens : Store(c, r, n, s)
  <2> DEFINE s == IF t = NoToken THEN n ELSE SessionOf(t)
             e == IF t = NoToken THEN call[c].email ELSE issue[t].email
             r == IF Raised(o) THEN fails ELSE [works EXCEPT !.new = n]
  <2>1. n \in Tokens /\ s \in Tokens
    BY <1>1 DEF Fresh, Known
  <2>2. e \in Emails \cup {NoEmail}
    BY <1>1 DEF TokensInv, Known
  <2>3. t # NoToken => issue[t] = [email |-> e, session |-> s]
    BY <1>1 DEF TokensInv, SessionOf, Known
  <2>4. issue' = [issue EXCEPT ![n] = [email |-> e, session |-> s]]
    BY <1>5, <2>3
  <2>5. issue'[n].session = s
    BY <1>1, <2>1, <2>4 DEF TokensInv
  <2>6. /\ r \in CallType /\ r.pc = "answered" /\ r.old = t
        /\ r.new = n \/ (r.new = NoToken /\ r.reply # "served" /\ Raised(o))
    BY <1>3, <2>1 DEF CallType
  <2>7. Become(c, r)
    BY <1>5
  <2>8. UNCHANGED <<users, expired, held, loggedOut, overlapped>>
    BY DEF StoreNew
  <2> HIDE DEF s, e, r
  <2>9. /\ disturbed' \in {disturbed, disturbed \cup {s}}
        /\ Raised(o) => s \in disturbed'
    BY <1>5, <2>5
  <2>10. s = IF t = NoToken THEN n ELSE SessionOf(t)
    BY DEF s
  <2>11. Store(c, r, n, s)
    BY <1>1, <1>5, <2>2, <2>4, <2>6, <2>7, <2>8, <2>9, <2>10 DEF Store
  <2>12. QED  BY <2>1, <2>6, <2>11
<1>6. QED
  <2>1. CASE \E n \in Fresh, o \in Outcomes \ {"refused"} :
               /\ stored' = stored \cup {n}
               /\ issue' = [issue EXCEPT ![n] =
                    IF t = NoToken THEN [email |-> call[c].email, session |-> n] ELSE issue[t]]
               /\ exchanges' = IF t = NoToken THEN exchanges ELSE [exchanges EXCEPT ![t] = @ + 1]
               /\ disturbed' = IF Raised(o) THEN disturbed \cup {issue'[n].session} ELSE disturbed
               /\ Become(c, IF Raised(o) THEN fails ELSE [works EXCEPT !.new = n])
    BY <1>5, <2>1
  <2>2. QED  BY <1>4, <2>1 DEF StoreNew

LEMMA EndsMove ==
  ASSUME IInv, NEW c \in Calls, Respond(c) \/ Crash(c)
  PROVE  \E r \in CallType : Move(c, r)
<1>1. call[c] \in CallType /\ Whole(call[c]) /\ TokensInv /\ SessionsOf(c) \subseteq Known
  BY CallFacts DEF IInv
<1>2. /\ IdleCall \in CallType /\ Whole(IdleCall) /\ Informed(IdleCall)
      /\ IdleCall.pc = "idle" /\ \A s : ~Of(IdleCall, s)
  BY <1>1, AskShapes, NamesAssumption, TokenFacts DEF Whole, Informed, Of, TokensInv
<1>3. Become(c, IdleCall) /\ UNCHANGED <<users, stored, issue, expired, exchanges, loggedOut, overlapped>>
  BY DEF Respond, Crash, tokens, history
<1>4. CASE Respond(c)
  <2>1. /\ held' = held \cup ({call[c].new} \ {NoToken}) /\ disturbed' = disturbed
        /\ call[c].pc = "answered"
    BY <1>4 DEF Respond, history
  <2>2. held' \subseteq Known /\ held \subseteq held'
    BY <1>1, <2>1 DEF TokensInv, Whole, CallType, Known
  <2>3. QED  BY <1>1, <1>2, <1>3, <2>1, <2>2 DEF Move, TokensInv
<1>5. CASE Crash(c)
  <2>1. held' = held /\ disturbed' = disturbed \cup SessionsOf(c)
    BY <1>5 DEF Crash, tokens
  <2>2. /\ call[c].old # NoToken => SessionOf(call[c].old) \in disturbed'
        /\ call[c].new # NoToken => SessionOf(call[c].new) \in disturbed'
    BY <2>1 DEF SessionsOf, SessionOf
  <2>3. QED  BY <1>1, <1>2, <1>3, <2>1, <2>2 DEF Move, TokensInv
<1>6. QED  BY <1>4, <1>5

LEMMA KindsOfSteps ==
  ASSUME IInv, Next
  PROVE  \/ \E c \in Calls, r \in CallType :
              \/ Move(c, r) \/ Delete(c, r)
              \/ \E n \in Fresh, s \in Tokens : Store(c, r, n, s)
         \/ \E t \in Tokens : Expire(t)
BY ArrivalsMove, ChecksMove, DeletesDelete, StoreNewStores, EndsMove DEF Next, CallStep


-----------------------------------------------------------------------------
(* Moves keep the invariant *)

\* Without a new token only a request that will store one could open a session.
LEMMA NoneOpens ==
  ASSUME CallsInv, NEW c \in Calls, NEW r \in CallType, Become(c, r),
         issue' = issue, stored' \subseteq stored, expired \subseteq expired',
         r.pc \in {"delete", "store"} /\ r.old # NoToken => Open(SessionOf(r.old)),
         NEW s \in Tokens, Open(s)', NoToken \notin Tokens
  PROVE  Open(s)
<1>1. Members(s)' = Members(s)
  BY DEF Members
<1>2. CASE (Members(s) \cap (stored \ expired) # {})'
  BY <1>1, <1>2 DEF Open
<1>3. ASSUME NEW d \in Calls, call'[d].pc \in {"delete", "store"}, call'[d].old \in Members(s)
      PROVE  Open(s)
  <2>1. CASE d = c
    <3>1. call'[d] = r  BY <2>1 DEF Become, CallsInv
    <3>2. QED  BY <1>3, <3>1 DEF Members, SessionOf
  <2>2. CASE d # c
    <3>1. call'[d] = call[d]  BY <2>2 DEF Become, CallsInv
    <3>2. QED  BY <1>3, <3>1 DEF Open
  <2>3. QED  BY <2>1, <2>2
<1>4. QED  BY <1>1, <1>2, <1>3 DEF Open

LEMMA Becomes ==
  ASSUME CallsInv, NEW c \in Calls, NEW r, Become(c, r)
  PROVE  /\ call'[c] = r /\ \A d \in Calls \ {c} : call'[d] = call[d]
         /\ r \in CallType => call' \in [Calls -> CallType]
BY DEF CallsInv, Become

LEMMA MoveKeepsCalls ==
  ASSUME IInv, NEW c \in Calls, NEW r \in CallType, Move(c, r)
  PROVE  TokensInv' /\ CallsInv'
<1>1. TokensInv /\ CallsInv
  BY DEF IInv
<1>2. Known' = Known /\ Fresh' = Fresh
  BY DEF Move, Known, Fresh
<1>3. TokensInv'
  BY <1>1, <1>2 DEF TokensInv, Move, SessionOf
<1>4. call'[c] = r /\ call' \in [Calls -> CallType] /\ \A d \in Calls \ {c} : call'[d] = call[d]
  BY <1>1, Becomes DEF Move
<1>5. Whole(r)' /\ Informed(r)' /\ Alone(r)'
  <2>1. Whole(r)'  BY <1>2 DEF Move, Whole, SessionOf
  <2>2. Informed(r)'  BY DEF Move, Informed, SessionOf
  <2>3. Alone(r)'  BY DEF Move, Alone, SessionOf
  <2>4. QED  BY <2>1, <2>2, <2>3
<1>6. ASSUME NEW d \in Calls, d # c
      PROVE  (Whole(call[d]) /\ Informed(call[d]) /\ Alone(call[d]))'
  <2>1. call'[d] = call[d] /\ Whole(call[d]) /\ Informed(call[d]) /\ Alone(call[d])
    BY <1>1, <1>4, <1>6 DEF CallsInv
  <2>2. Whole(call[d])'  BY <1>2, <2>1 DEF Move, Whole, SessionOf
  <2>3. Informed(call[d])'  BY <2>1 DEF Move, Informed, SessionOf
  <2>4. Alone(call[d])'  BY <2>1 DEF Move, Alone, SessionOf, Members
  <2>5. QED  BY <2>2, <2>3, <2>4
<1>7. QED  BY <1>3, <1>4, <1>5, <1>6 DEF CallsInv

LEMMA MoveKeepsSessions ==
  ASSUME IInv, NEW c \in Calls, NEW r \in CallType, Move(c, r)
  PROVE  SessionsInv' /\ \A s \in Tokens : Open(s)' => Open(s)
<1>1. TokensInv /\ CallsInv /\ SessionsInv /\ NoToken \notin Tokens
  BY TokenFacts DEF IInv
<1>2. call'[c] = r /\ \A d \in Calls \ {c} : call'[d] = call[d]
  BY <1>1, Becomes DEF Move
<1>3. \A s : Members(s)' = Members(s)
  BY DEF Move, Members
<1>4. \A s \in Tokens : Open(s)' => Open(s)
  <2>1. r.pc \in {"delete", "store"} /\ r.old # NoToken => Open(SessionOf(r.old))
    BY <1>1 DEF Move, Open, Members, SessionOf, CallType, TokensInv, Known
  <2>2. QED  BY <1>1, <2>1, NoneOpens DEF Move
<1>5. SingleToken'
  BY <1>1, <1>3 DEF SessionsInv, SingleToken, Move
<1>6. OneRequest'
  <2> SUFFICES ASSUME NEW s \in Tokens \ overlapped', Open(s),
                      NEW d \in Calls, NEW e \in Calls, Of(call[d], s)', Of(call[e], s)'
               PROVE  d = e
    BY <1>4 DEF OneRequest
  <2>1. s \in Tokens \ overlapped
    BY DEF Move
  <2>2. \A a \in Calls \ {c} : Of(call[a], s)' => Of(call[a], s)
    BY <1>2 DEF Of, SessionOf, Move
  <2>3. Of(call[c], s)' => Of(call[c], s) \/ \A a \in Calls : ~Of(call[a], s)
    BY <1>2 DEF Of, SessionOf, Move
  <2>4. QED  BY <1>1, <2>1, <2>2, <2>3 DEF SessionsInv, OneRequest
<1>7. LogoutEndsSession'
  <2> SUFFICES ASSUME NEW s \in loggedOut \ overlapped'
               PROVE  /\ Members(s)' \cap stored' = {}
                      /\ \A d \in Calls : call'[d].pc = "store" => call'[d].old \notin Members(s)'
    BY DEF LogoutEndsSession, Move
  <2>1. s \in loggedOut \ overlapped
    BY DEF Move
  <2>2. NoToken \notin Members(s)
    BY <1>1 DEF Members
  <2>3. QED
    BY <1>1, <1>2, <1>3, <2>1, <2>2 DEF SessionsInv, LogoutEndsSession, Move
<1>8. SessionSurvives'
  <2> SUFFICES ASSUME NEW s \in Tokens \ (loggedOut \cup disturbed'), Members(s) # {}
               PROVE  \/ Members(s) \cap (expired \cup (stored \cap held')) # {}
                      \/ \E d \in Calls : \/ call'[d].pc = "store" /\ call'[d].old \in Members(s)
                                          \/ call'[d].new \in Members(s) \cap stored
    BY <1>3 DEF SessionSurvives, Move
  <2>1. s \in Tokens \ (loggedOut \cup disturbed)
    BY DEF Move
  <2>2. CASE Members(s) \cap (expired \cup (stored \cap held)) # {}
    BY <2>2 DEF Move
  <2>3. ASSUME NEW d \in Calls, \/ call[d].pc = "store" /\ call[d].old \in Members(s)
                                \/ call[d].new \in Members(s) \cap stored
        PROVE  \/ Members(s) \cap (stored \cap held') # {}
               \/ \E e \in Calls : \/ call'[e].pc = "store" /\ call'[e].old \in Members(s)
                                   \/ call'[e].new \in Members(s) \cap stored
    <3>1. CASE d # c
      BY <1>2, <2>3, <3>1
    <3>2. CASE d = c
      <4>1. \A t \in Members(s) : t \in Tokens /\ SessionOf(t) = s
        BY DEF Members, SessionOf
      <4>2. QED  BY <1>1, <2>3, <3>2, <4>1 DEF Move
    <3>3. QED  BY <3>1, <3>2
  <2>4. QED  BY <1>1, <2>1, <2>2, <2>3 DEF SessionsInv, SessionSurvives
<1>9. QED  BY <1>4, <1>5, <1>6, <1>7, <1>8 DEF SessionsInv

\* Where t is not stored, no request gets through with it anew.
LEMMA BudgetOf ==
  ASSUME BudgetInv, CallsInv, exchanges' = exchanges, stored' \subseteq stored,
         exchanges \in [Tokens -> Nat],
         NEW c \in Calls, NEW r, Become(c, r),
         r.pc \in {"delete", "store"} =>
           r.old \in stored' \cup {NoToken}
             \/ (r.old = call[c].old /\ call[c].pc \in {"delete", "store"}),
         NoToken \notin Tokens
  PROVE  BudgetInv'
<1> SUFFICES ASSUME NEW t \in Tokens
             PROVE  /\ t \in stored' => exchanges[t] = 0
                    /\ exchanges[t] + Cardinality(Through(t)') <= Cardinality(Calls)
  BY DEF BudgetInv
<1>1. call'[c] = r /\ \A d \in Calls \ {c} : call'[d] = call[d]
  BY Becomes
<1>2. /\ IsFiniteSet(Calls) /\ Cardinality(Calls) \in Nat
      /\ Through(t) \subseteq Calls /\ Through(t)' \subseteq Calls
  BY BoundsAssumption, FS_CardinalityType DEF Through
<1>3. CASE t \in stored'
  <2>1. exchanges[t] = 0
    BY <1>3 DEF BudgetInv
  <2>2. Cardinality(Through(t)') <= Cardinality(Calls) /\ Cardinality(Through(t)') \in Nat
    BY <1>2, FS_Subset, FS_CardinalityType
  <2>3. QED  BY <1>2, <2>1, <2>2
<1>4. CASE t \notin stored'
  <2>1. Through(t)' \subseteq Through(t)
    BY <1>1, <1>4 DEF Through
  <2>2. /\ Cardinality(Through(t)') <= Cardinality(Through(t))
        /\ Cardinality(Through(t)') \in Nat /\ Cardinality(Through(t)) \in Nat
    BY <1>2, <2>1, FS_Subset, FS_CardinalityType
  <2>3. QED  BY <1>2, <1>4, <2>2 DEF BudgetInv
<1>5. QED  BY <1>3, <1>4

LEMMA MoveHolds ==
  ASSUME IInv, NEW c \in Calls, NEW r \in CallType, Move(c, r)
  PROVE  IInv'
<1>1. NoToken \notin Tokens /\ exchanges \in [Tokens -> Nat]
  BY TokenFacts DEF IInv, TokensInv
<1>2. BudgetInv'
  BY <1>1, BudgetOf DEF IInv, Move
<1>3. QED  BY <1>2, MoveKeepsCalls, MoveKeepsSessions DEF IInv

-----------------------------------------------------------------------------
(* Deletions keep the invariant *)

\* A request that has got as far as deleting keeps its session open.
LEMMA DeletesFromOpen ==
  ASSUME IInv, NEW c \in Calls, NEW s \in Tokens,
         call[c].pc \in {"delete", "store"}, call[c].old # NoToken, SessionOf(call[c].old) = s
  PROVE  Open(s) /\ Of(call[c], s)
<1>1. call[c].old \in Members(s)
  BY CallFacts DEF Members, SessionOf, Whole, CallType
<1>2. QED  BY <1>1 DEF Open, Of

\* In a session that one request has taken the stored token of, and whose client
\* awaits its answers, no other request is about to delete.
LEMMA OthersAreDone ==
  ASSUME IInv, NEW c \in Calls, NEW d \in Calls \ {c},
         call[c].old \in stored, call[c].old # NoToken,
         call[d].pc = "delete", SessionOf(call[d].old) \notin overlapped
  PROVE  SessionOf(call[d].old) # SessionOf(call[c].old)
<1> DEFINE s == SessionOf(call[d].old)
<1> SUFFICES ASSUME SessionOf(call[c].old) = s PROVE FALSE
  OBVIOUS
<1>1. TokensInv /\ Whole(call[d]) /\ call[d].old # NoToken
  BY CallFacts DEF IInv, Whole
<1>2. s \in Tokens
  BY <1>1 DEF TokensInv, Known
<1>3. Open(s) /\ Of(call[d], s)
  BY <1>1, <1>2, DeletesFromOpen
<1>4. Of(call[c], s)
  BY DEF Of
<1>5. QED  BY <1>2, <1>3, <1>4 DEF IInv, SessionsInv, OneRequest

LEMMA DeleteKeepsCalls ==
  ASSUME IInv, NEW c \in Calls, NEW r \in CallType, Delete(c, r)
  PROVE  TokensInv' /\ CallsInv'
<1> DEFINE t == call[c].old
           s == SessionOf(t)
<1>1. TokensInv /\ CallsInv /\ SessionsInv /\ Whole(call[c]) /\ Informed(call[c]) /\ Alone(call[c])
  BY CallFacts DEF IInv
<1>2. Known' = Known /\ Fresh' = Fresh
  BY DEF Delete, Known, Fresh
<1>3. t \in Known /\ t # NoToken /\ s \in Known /\ NoToken \notin Tokens
  BY <1>1, TokenFacts DEF Delete, Whole, CallType, TokensInv, Known
<1>4. /\ stored' \subseteq stored /\ stored \ {t} \subseteq stored'
      /\ disturbed \subseteq disturbed' /\ disturbed' \subseteq Known
      /\ loggedOut' \subseteq Known
  BY <1>1, <1>3 DEF Delete, TokensInv
<1>5. TokensInv'
  BY <1>1, <1>2, <1>4 DEF TokensInv, Delete, SessionOf
<1>6. call'[c] = r /\ call' \in [Calls -> CallType] /\ \A d \in Calls \ {c} : call'[d] = call[d]
  BY <1>1, Becomes DEF Delete
<1>7. Whole(r)' /\ Informed(r)' /\ Alone(r)'
  <2>1. Whole(r)'  BY <1>2 DEF Delete, Whole, SessionOf
  <2>2. Informed(r)'  BY <1>4 DEF Delete, Informed, SessionOf
  <2>3. Alone(r)'
    <3> SUFFICES ASSUME r.pc = "store", s \notin overlapped
                 PROVE  Members(s) \cap stored' = {}
      BY DEF Delete, Alone, Members, SessionOf
    <3>1. call[c].pc = "delete" /\ t \notin stored' /\ t \in stored
      BY <1>1, <1>3 DEF Delete, Alone
    <3>2. t \in Members(s) /\ s \in Tokens
      BY <1>3 DEF Members, SessionOf, Known
    <3>3. QED  BY <1>1, <1>4, <3>1, <3>2 DEF SessionsInv, SingleToken
  <2>4. QED  BY <2>1, <2>2, <2>3
<1>8. ASSUME NEW d \in Calls, d # c
      PROVE  (Whole(call[d]) /\ Informed(call[d]) /\ Alone(call[d]))'
  <2>1. call'[d] = call[d] /\ Whole(call[d]) /\ Informed(call[d]) /\ Alone(call[d])
    BY <1>1, <1>6, <1>8 DEF CallsInv
  <2>2. Whole(call[d])'  BY <1>2, <2>1 DEF Delete, Whole, SessionOf
  <2>3. Informed(call[d])'  BY <1>4, <2>1 DEF Delete, Informed, SessionOf
  <2>4. Alone(call[d])'
    <3>1. issue' = issue /\ overlapped' = overlapped
      BY DEF Delete
    <3>2. CASE call[d].pc = "delete" /\ SessionOf(call[d].old) \notin overlapped
      <4>1. call[d].old \in stored
        BY <2>1, <3>2 DEF Alone, Whole
      <4>2. call[d].old # t
        BY <1>3, <1>8, <3>2, <4>1, OthersAreDone
      <4>3. QED  BY <1>4, <2>1, <3>1, <3>2, <4>1, <4>2 DEF Alone, SessionOf
    <3>3. CASE ~(call[d].pc = "delete" /\ SessionOf(call[d].old) \notin overlapped)
      BY <1>4, <2>1, <3>1, <3>3 DEF Alone, SessionOf, Members
    <3>4. QED  BY <3>2, <3>3
  <2>5. QED  BY <2>2, <2>3, <2>4
<1>9. QED  BY <1>5, <1>6, <1>7, <1>8 DEF CallsInv

LEMMA DeleteKeepsSessions ==
  ASSUME IInv, NEW c \in Calls, NEW r \in CallType, Delete(c, r)
  PROVE  SessionsInv' /\ \A s \in Tokens : Open(s)' => Open(s)
<1> DEFINE t == call[c].old
           o == SessionOf(t)
<1>1. TokensInv /\ CallsInv /\ SessionsInv /\ Whole(call[c]) /\ Informed(call[c]) /\ Alone(call[c])
  BY CallFacts DEF IInv
<1>2. t \in Known /\ t # NoToken /\ o \in Known /\ NoToken \notin Tokens /\ o \in Tokens
  BY <1>1, TokenFacts DEF Delete, Whole, CallType, TokensInv, Known
<1>3. /\ stored' \subseteq stored /\ stored \ {t} \subseteq stored'
      /\ loggedOut \subseteq loggedOut' /\ disturbed \subseteq disturbed'
      /\ UNCHANGED <<issue, expired, held, overlapped>>
  BY DEF Delete
<1>4. call'[c] = r /\ \A d \in Calls \ {c} : call'[d] = call[d]
  BY <1>1, Becomes DEF Delete
<1>5. \A s : Members(s)' = Members(s)
  BY <1>3 DEF Members
<1>6. t \in Members(o) /\ \A s : t \in Members(s) => s = o
  BY <1>2 DEF Members, SessionOf, Known
<1>7. \A s \in Tokens : Open(s)' => Open(s)
  <2>1. r.pc \in {"delete", "store"} /\ r.old # NoToken => Open(SessionOf(r.old))
    BY <1>2, DeletesFromOpen DEF Delete
  <2>2. QED  BY <1>1, <1>2, <1>3, <2>1, NoneOpens DEF Delete
<1>8. SingleToken'
  BY <1>1, <1>3, <1>5 DEF SessionsInv, SingleToken
<1>9. OneRequest'
  <2> SUFFICES ASSUME NEW s \in Tokens \ overlapped, Open(s),
                      NEW d \in Calls, NEW e \in Calls, Of(call[d], s)', Of(call[e], s)'
               PROVE  d = e
    BY <1>3, <1>7 DEF OneRequest
  <2>1. \A a \in Calls : Of(call[a], s)' => Of(call[a], s)
    BY <1>3, <1>4 DEF Of, SessionOf, Delete
  <2>2. QED  BY <1>1, <2>1 DEF SessionsInv, OneRequest
<1>10. LogoutEndsSession'
  <2> SUFFICES ASSUME NEW s \in loggedOut' \ overlapped
               PROVE  /\ Members(s) \cap stored' = {}
                      /\ \A d \in Calls : call'[d].pc = "store" => call'[d].old \notin Members(s)
    BY <1>3, <1>5 DEF LogoutEndsSession
  <2>1. CASE s \in loggedOut
    <3>1. Members(s) \cap stored = {} /\ \A d \in Calls : call[d].pc = "store" => call[d].old \notin Members(s)
      BY <1>1, <2>1 DEF SessionsInv, LogoutEndsSession
    <3>2. r.pc = "store" => t \in stored \/ o \in overlapped
      BY <1>1, <1>2 DEF Delete, Alone
    <3>3. QED  BY <1>3, <1>4, <1>6, <3>1, <3>2 DEF Delete
  <2>2. CASE s \notin loggedOut
    <3>1. s = o /\ t \in stored /\ t \notin stored' /\ o \in Tokens \ overlapped
      BY <1>2, <2>2 DEF Delete
    <3>2. Members(s) \cap stored = {t}
      BY <1>1, <1>6, <3>1 DEF SessionsInv, SingleToken
    <3>3. r.pc # "store"
      BY <3>1, <2>2 DEF Delete
    <3>4. \A d \in Calls \ {c} : call[d].pc = "store" => call[d].old \notin Members(s)
      <4> SUFFICES ASSUME NEW d \in Calls \ {c}, call[d].pc = "store", call[d].old \in Members(s)
                   PROVE  FALSE
        OBVIOUS
      <4>1. SessionOf(call[d].old) = s /\ call[d].old # NoToken
        BY <1>2 DEF Members, SessionOf
      <4>2. Alone(call[d])
        BY CallFacts
      <4>3. QED  BY <3>1, <3>2, <4>1, <4>2 DEF Alone
    <3>5. QED  BY <1>3, <1>4, <3>1, <3>2, <3>3, <3>4
  <2>3. QED  BY <2>1, <2>2
<1>11. SessionSurvives'
  <2> SUFFICES ASSUME NEW s \in Tokens \ (loggedOut' \cup disturbed'), Members(s) # {}
               PROVE  \/ Members(s) \cap (expired \cup (stored' \cap held)) # {}
                      \/ \E d \in Calls : \/ call'[d].pc = "store" /\ call'[d].old \in Members(s)
                                          \/ call'[d].new \in Members(s) \cap stored'
    BY <1>3, <1>5 DEF SessionSurvives
  <2>1. \/ Members(s) \cap (expired \cup (stored \cap held)) # {}
        \/ \E d \in Calls : \/ call[d].pc = "store" /\ call[d].old \in Members(s)
                            \/ call[d].new \in Members(s) \cap stored
    BY <1>1, <1>3 DEF SessionsInv, SessionSurvives
  <2>2. call[c].pc # "store" /\ call[c].new = NoToken
    BY <1>1 DEF Delete, Whole
  <2>3. CASE t \notin Members(s) \/ stored' = stored
    <3>1. Members(s) \cap stored' = Members(s) \cap stored
      BY <1>3, <2>3
    <3>2. NoToken \notin Members(s)
      BY <1>2 DEF Members
    <3>3. QED  BY <1>3, <1>4, <2>1, <2>2, <3>1, <3>2
  <2>4. CASE t \in Members(s) /\ stored' # stored
    <3>1. s = o
      BY <1>6, <2>4
    <3>2. r.pc = "store" \/ t \in expired
      BY <2>4, <3>1 DEF Delete
    <3>3. QED  BY <1>4, <2>4, <3>2 DEF Delete
  <2>5. QED  BY <2>3, <2>4
<1>12. QED  BY <1>7, <1>8, <1>9, <1>10, <1>11 DEF SessionsInv

LEMMA DeleteHolds ==
  ASSUME IInv, NEW c \in Calls, NEW r \in CallType, Delete(c, r)
  PROVE  IInv'
<1>1. NoToken \notin Tokens /\ exchanges \in [Tokens -> Nat]
  BY TokenFacts DEF IInv, TokensInv
<1>2. BudgetInv'
  BY <1>1, BudgetOf DEF IInv, Delete
<1>3. QED  BY <1>2, DeleteKeepsCalls, DeleteKeepsSessions DEF IInv

-----------------------------------------------------------------------------
(* Storing a token keeps the invariant *)

LEMMA StoreFacts ==
  ASSUME IInv, NEW c \in Calls, NEW r \in CallType, NEW n \in Fresh, NEW s \in Tokens,
         Store(c, r, n, s)
  PROVE  LET t == call[c].old IN
         /\ n \in Tokens /\ n \notin Known /\ NoToken \notin Tokens
         /\ n \notin stored \cup expired \cup held \cup loggedOut \cup overlapped \cup disturbed
         /\ SessionOf(n)' = s /\ \A m \in Tokens \ {n} : issue'[m] = issue[m]
         /\ Known' = Known \cup {n} /\ Fresh' = Fresh \ {n}
         /\ \A x \in Tokens : Members(x)' = IF x = s THEN Members(x) \cup {n} ELSE Members(x)
         /\ t = NoToken => s = n /\ Members(s) = {}
         /\ t # NoToken => t \in Known /\ s \in Known /\ s = SessionOf(t) /\ t \in Members(s)
                           /\ t \notin stored /\ Open(s) /\ Of(call[c], s)
         /\ call'[c] = r /\ call' \in [Calls -> CallType]
         /\ \A d \in Calls \ {c} : call'[d] = call[d]
<1> DEFINE t == call[c].old
<1>1. /\ TokensInv /\ CallsInv /\ Whole(call[c]) /\ Informed(call[c]) /\ NoToken \notin Tokens
      /\ call[c].pc = "store"
  BY CallFacts, TokenFacts DEF IInv, Store
<1>2. n \in Tokens /\ n \notin Known /\ issue[n] = NotIssued
  BY DEF Known, Fresh
<1>3. n \notin stored \cup expired \cup held \cup loggedOut \cup overlapped \cup disturbed
  BY <1>1, <1>2 DEF TokensInv
<1>4. /\ issue' \in [Tokens -> [email : Emails \cup {NoEmail}, session : Tokens \cup {NoToken}]]
      /\ issue'[n].session = s /\ \A m \in Tokens \ {n} : issue'[m] = issue[m]
  BY <1>1, <1>2 DEF Store, TokensInv
<1>5. s # NoToken /\ issue[n].session = NoToken
  BY <1>1, <1>2 DEF NotIssued
<1>6. issue'[n] # NotIssued
  BY <1>4, <1>5 DEF NotIssued
<1>7. Known' = Known \cup {n} /\ Fresh' = Fresh \ {n}
  BY <1>2, <1>4, <1>6 DEF Known, Fresh
<1>8. \A x \in Tokens : Members(x)' = IF x = s THEN Members(x) \cup {n} ELSE Members(x)
  <2> SUFFICES ASSUME NEW x \in Tokens
               PROVE  Members(x)' = IF x = s THEN Members(x) \cup {n} ELSE Members(x)
    OBVIOUS
  <2>1. n \notin Members(x)
    BY <1>1, <1>5 DEF Members
  <2>2. \A m \in Tokens \ {n} : m \in Members(x)' <=> m \in Members(x)
    BY <1>4 DEF Members
  <2>3. n \in Members(x)' <=> x = s
    BY <1>2, <1>4 DEF Members
  <2>4. Members(x) \subseteq Tokens /\ Members(x)' \subseteq Tokens
    BY DEF Members
  <2>5. QED  BY <1>2, <2>1, <2>2, <2>3, <2>4
<1>9. ASSUME t = NoToken PROVE s = n /\ Members(s) = {}
  <2>1. s = n
    BY <1>9 DEF Store
  <2>2. \A m \in Tokens : SessionOf(m) # n
    BY <1>1, <1>2, TokenFacts DEF TokensInv
  <2>3. QED  BY <2>1, <2>2 DEF Members, SessionOf
<1>10. ASSUME t # NoToken
       PROVE  /\ t \in Known /\ s \in Known /\ s = SessionOf(t) /\ t \in Members(s)
              /\ t \notin stored /\ Open(s) /\ Of(call[c], s)
  <2>1. t \in Known /\ s = SessionOf(t) /\ t \notin stored
    BY <1>1, <1>10 DEF Whole, CallType, Known, Store, Informed
  <2>2. s \in Known /\ t \in Members(s)
    BY <1>1, <2>1 DEF TokensInv, Members, SessionOf, Known
  <2>3. Open(s) /\ Of(call[c], s)
    BY <1>1, <1>10, <2>1, DeletesFromOpen
  <2>4. QED  BY <2>1, <2>2, <2>3
<1>11. /\ call'[c] = r /\ call' \in [Calls -> CallType]
       /\ \A d \in Calls \ {c} : call'[d] = call[d]
  BY <1>1, Becomes DEF Store
<1>12. QED  BY <1>1, <1>2, <1>3, <1>4, <1>7, <1>8, <1>9, <1>10, <1>11 DEF SessionOf

LEMMA StoreKeepsCalls ==
  ASSUME IInv, NEW c \in Calls, NEW r \in CallType, NEW n \in Fresh, NEW s \in Tokens,
         Store(c, r, n, s)
  PROVE  TokensInv' /\ CallsInv'
<1> DEFINE t == call[c].old
<1>1. TokensInv /\ CallsInv /\ SessionsInv /\ Whole(call[c])
  BY CallFacts DEF IInv
<1>2. /\ n \in Tokens /\ n \notin Known /\ NoToken \notin Tokens
      /\ SessionOf(n)' = s /\ \A m \in Tokens \ {n} : issue'[m] = issue[m]
      /\ Known' = Known \cup {n} /\ Fresh' = Fresh \ {n}
      /\ t = NoToken => s = n
      /\ t # NoToken => t \in Known /\ s \in Known /\ s = SessionOf(t) /\ Open(s) /\ Of(call[c], s)
      /\ call'[c] = r /\ call' \in [Calls -> CallType]
      /\ \A d \in Calls \ {c} : call'[d] = call[d]
  BY StoreFacts
<1>3. \A m \in Known : SessionOf(m)' = SessionOf(m)
  BY <1>2 DEF SessionOf, Known
<1>4. TokensInv'
  <2>1. issue' \in [Tokens -> [email : Emails \cup {NoEmail}, session : Tokens \cup {NoToken}]]
    <3>1. PICK e \in Emails \cup {NoEmail} :
            issue' = [issue EXCEPT ![n] = [email |-> e, session |-> s]]
      BY DEF Store
    <3>2. QED  BY <1>1, <3>1 DEF TokensInv
  <2>2. \A m \in Known' : SessionOf(m)' \in Known'
    BY <1>1, <1>2, <1>3 DEF TokensInv
  <2>3. exchanges' \in [Tokens -> Nat] /\ \A m \in Fresh' : exchanges'[m] = 0
    BY <1>1, <1>2 DEF Store, TokensInv, Known
  <2>4. disturbed' \subseteq Known'
    BY <1>1, <1>2 DEF Store, TokensInv
  <2>5. /\ users' \in [Emails -> 0..1] /\ stored' \subseteq Known' /\ held' \subseteq Known'
        /\ expired' \subseteq Known' /\ loggedOut' \subseteq Known' /\ overlapped' \subseteq Known'
    BY <1>1, <1>2 DEF Store, TokensInv
  <2>6. QED  BY <2>1, <2>2, <2>3, <2>4, <2>5 DEF TokensInv
<1>5. Whole(r)' /\ Informed(r)' /\ Alone(r)'
  <2>1. /\ r.pc = "answered" /\ r.old = t
        /\ r.new = n \/ (r.new = NoToken /\ r.reply # "served")
    BY DEF Store
  <2>2. t \notin Fresh
    BY <1>1 DEF Whole
  <2>3. r.old \notin Fresh' /\ r.new \notin Fresh'
    BY <1>2, <2>1, <2>2 DEF Fresh
  <2>4. r.old # NoToken /\ r.new # NoToken => SessionOf(r.old)' = SessionOf(r.new)'
    BY <1>2, <1>3, <2>1
  <2>5. Whole(r)'
    BY <2>1, <2>3, <2>4 DEF Whole
  <2>6. QED  BY <1>2, <2>1, <2>5 DEF Informed, Alone
<1>6. ASSUME NEW d \in Calls, d # c
      PROVE  (Whole(call[d]) /\ Informed(call[d]) /\ Alone(call[d]))'
  <2>1. call'[d] = call[d] /\ Whole(call[d]) /\ Informed(call[d]) /\ Alone(call[d])
        /\ call[d] \in CallType
    BY <1>1, <1>2, <1>6 DEF CallsInv
  <2>2. /\ call[d].old = NoToken \/ call[d].old \in Known
        /\ call[d].new = NoToken \/ call[d].new \in Known
    BY <2>1 DEF Whole, CallType, Known
  <2>3. Whole(call[d])'
    BY <1>2, <1>3, <2>1, <2>2 DEF Whole
  <2>4. Informed(call[d])'
    <3>1. call[d].old # n
      BY <1>2, <2>2
    <3>2. CASE call[d].old = NoToken
      BY <1>1, <1>2, <2>1, <3>2 DEF Informed, Store, TokensInv, Known
    <3>3. CASE call[d].old \in Known
      BY <1>3, <2>1, <3>1, <3>3 DEF Informed, Store
    <3>4. QED  BY <2>2, <3>2, <3>3
  <2>5. Alone(call[d])'
    <3> SUFFICES ASSUME call[d].old \in Known, NEW x \in Known \ overlapped,
                        x = SessionOf(call[d].old)
                 PROVE  /\ call[d].pc = "delete" => call[d].old \in stored'
                        /\ call[d].pc = "store" => Members(x)' \cap stored' = {}
      <4>1. call[d].old \in Known => SessionOf(call[d].old) \in Known
        BY <1>1 DEF TokensInv
      <4>2. call[d].old \in Known => SessionOf(call[d].old)' = SessionOf(call[d].old)
        BY <1>3, <2>1
      <4>3. overlapped' = overlapped
        BY DEF Store
      <4>4. QED  BY <2>1, <2>2, <4>1, <4>2, <4>3 DEF Alone, Members
    <3>1. call[d].old # NoToken /\ x \in Known /\ x \in Tokens /\ x # n
      BY <1>1, <1>2 DEF TokensInv, Known
    <3>2. call[d].pc = "delete" => call[d].old \in stored'
      BY <2>1, <3>1 DEF Alone, Store
    <3>3. ASSUME call[d].pc = "store" PROVE Members(x)' \cap stored' = {}
      <4>1. x # s
        <5> SUFFICES ASSUME x = s PROVE FALSE
          OBVIOUS
        <5>1. Of(call[d], s) /\ Open(s) /\ Of(call[c], s) /\ s \notin overlapped
          BY <1>2, <3>1 DEF Of
        <5>2. QED  BY <1>1, <1>6, <5>1 DEF SessionsInv, OneRequest
      <4>2. Members(x)' = Members(x) /\ n \notin Members(x)
        <5>1. \A y \in Tokens : Members(y)' = IF y = s THEN Members(y) \cup {n} ELSE Members(y)
          BY StoreFacts
        <5>2. Members(x) \subseteq Known
          BY <1>1, <3>1, TokenFacts
        <5>3. QED  BY <1>2, <3>1, <4>1, <5>1, <5>2
      <4>3. Members(x) \cap stored = {}
        BY <2>1, <3>1, <3>3 DEF Alone
      <4>4. QED  BY <4>2, <4>3 DEF Store
    <3>4. QED  BY <3>2, <3>3
  <2>6. QED  BY <2>3, <2>4, <2>5
<1>7. QED  BY <1>2, <1>4, <1>5, <1>6 DEF CallsInv

LEMMA StoreKeepsSessions ==
  ASSUME IInv, NEW c \in Calls, NEW r \in CallType, NEW n \in Fresh, NEW s \in Tokens,
         Store(c, r, n, s)
  PROVE  SessionsInv' /\ \A x \in Tokens \ {s} : Open(x)' => Open(x)
<1> DEFINE t == call[c].old
<1>1. TokensInv /\ CallsInv /\ SessionsInv /\ Whole(call[c]) /\ Alone(call[c])
  BY CallFacts DEF IInv
<1>2. /\ n \in Tokens /\ n \notin Known /\ NoToken \notin Tokens
      /\ n \notin loggedOut \cup overlapped
  BY StoreFacts
<1>3. SessionOf(n)' = s /\ \A m \in Tokens \ {n} : issue'[m] = issue[m]
  BY StoreFacts
<1>4. \A x \in Tokens : Members(x)' = IF x = s THEN Members(x) \cup {n} ELSE Members(x)
  BY StoreFacts
<1>5. t = NoToken => s = n /\ Members(s) = {}
  BY StoreFacts
<1>6. t # NoToken => t \in Known /\ s \in Known /\ s = SessionOf(t) /\ t \in Members(s)
                     /\ t \notin stored /\ Open(s) /\ Of(call[c], s)
  BY StoreFacts
<1>7. call'[c] = r /\ \A d \in Calls \ {c} : call'[d] = call[d]
  BY StoreFacts
<1>8. /\ stored' = stored \cup {n} /\ UNCHANGED <<expired, held, loggedOut, overlapped>>
      /\ disturbed \subseteq disturbed' /\ call[c].pc = "store" /\ call[c].new = NoToken
      /\ r.pc = "answered" /\ r.old = t
      /\ r.new = n \/ (r.new = NoToken /\ s \in disturbed')
  BY <1>1 DEF Store, Whole
<1>9. \A x \in Tokens : /\ n \notin Members(x) /\ NoToken \notin Members(x)
                        /\ t \in Members(x) => x = s
  BY <1>1, <1>2, <1>5, <1>6, TokenFacts DEF Members, SessionOf
<1>10. ASSUME NEW d \in Calls \ {c}, NEW x \in Tokens
      PROVE  Of(call[d], x)' <=> Of(call[d], x) /\ x # n
  <2>1. call'[d] = call[d] /\ {call[d].old, call[d].new} \ {NoToken} \subseteq Known
    BY <1>1, <1>7 DEF CallsInv, Whole, CallType, Known
  <2>2. \A m \in Known : SessionOf(m)' = SessionOf(m) /\ SessionOf(m) # n
    BY <1>1, <1>2, <1>3 DEF SessionOf, Known, TokensInv
  <2>3. QED  BY <2>1, <2>2 DEF Of
<1>11. \A x \in Tokens \ {s} : Open(x)' => Open(x)
  <2> SUFFICES ASSUME NEW x \in Tokens \ {s}, Open(x)' PROVE Open(x)
    OBVIOUS
  <2>1. Members(x)' = Members(x)
    BY <1>4
  <2>2. CASE Members(x)' \cap (stored' \ expired') # {}
    BY <1>8, <1>9, <2>1, <2>2 DEF Open
  <2>3. ASSUME NEW d \in Calls, call'[d].pc \in {"delete", "store"}, call'[d].old \in Members(x)'
        PROVE  Open(x)
    <3>1. d # c
      BY <1>8, <1>7, <2>3
    <3>2. call[d].pc \in {"delete", "store"} /\ call[d].old \in Members(x)
      BY <1>7, <2>1, <2>3, <3>1
    <3>3. QED  BY <3>2 DEF Open
  <2>4. QED  BY <2>2, <2>3 DEF Open
<1>12. SingleToken'
  <2> SUFFICES ASSUME NEW x \in Tokens \ overlapped
               PROVE  \A m, k \in Members(x)' \cap stored' : m = k
    BY <1>8 DEF SingleToken
  <2>1. CASE x # s
    BY <1>1, <1>4, <1>8, <1>9, <2>1 DEF SessionsInv, SingleToken
  <2>2. CASE x = s
    <3>1. Members(s) \cap stored = {}
      BY <1>1, <1>5, <1>6, <1>8, <2>2 DEF Alone
    <3>2. QED  BY <1>4, <1>8, <2>2, <3>1
  <2>3. QED  BY <2>1, <2>2
<1>13. OneRequest'
  <2> SUFFICES ASSUME NEW x \in Tokens \ overlapped, Open(x)',
                      NEW d \in Calls, NEW e \in Calls, Of(call[d], x)', Of(call[e], x)'
               PROVE  d = e
    BY <1>8 DEF OneRequest
  <2>1. CASE x # s
    <3>1. Of(call[c], x)' => Of(call[c], x)
      <4>1. \A k \in {r.old, r.new} \ {NoToken} : SessionOf(k)' = s
        <5>1. r.old # NoToken => SessionOf(r.old)' = s
          <6> SUFFICES ASSUME r.old # NoToken PROVE issue'[r.old].session = s
            BY DEF SessionOf
          <6>1. r.old = t /\ t \in Tokens \ {n} /\ issue[t].session = s
            BY <1>2, <1>8, <1>6 DEF Known, SessionOf
          <6>2. QED  BY <1>3, <6>1
        <5>2. r.new # NoToken => SessionOf(r.new)' = s
          BY <1>3, <1>8
        <5>3. QED  BY <5>1, <5>2
      <4>2. QED  BY <1>7, <2>1, <4>1 DEF Of
    <3>2. \A a \in Calls : Of(call[a], x)' => Of(call[a], x)
      BY <1>10, <3>1
    <3>3. QED  BY <1>1, <1>11, <2>1, <3>2 DEF SessionsInv, OneRequest
  <2>2. CASE x = s
    <3>1. \A a \in Calls \ {c} : ~Of(call[a], s)'
      <4>1. CASE t = NoToken  BY <1>5, <1>10, <4>1
      <4>2. CASE t # NoToken
        <5>1. \A a \in Calls \ {c} : ~Of(call[a], s)
          BY <1>1, <1>6, <2>2, <4>2 DEF SessionsInv, OneRequest
        <5>2. QED  BY <1>10, <5>1
      <4>3. QED  BY <4>1, <4>2
    <3>2. QED  BY <2>2, <3>1
  <2>3. QED  BY <2>1, <2>2
<1>14. LogoutEndsSession'
  <2> SUFFICES ASSUME NEW x \in loggedOut \ overlapped
               PROVE  /\ Members(x)' \cap stored' = {}
                      /\ \A d \in Calls : call'[d].pc = "store" => call'[d].old \notin Members(x)'
    BY <1>8 DEF LogoutEndsSession
  <2>1. /\ Members(x) \cap stored = {} /\ x \in Tokens /\ x # n
        /\ \A d \in Calls : call[d].pc = "store" => call[d].old \notin Members(x)
    BY <1>1, <1>2 DEF SessionsInv, LogoutEndsSession, TokensInv, Known
  <2>2. x # s
    BY <1>5, <1>6, <1>8, <2>1
  <2>3. Members(x)' = Members(x) /\ n \notin Members(x)
    BY <1>4, <1>9, <2>1, <2>2
  <2>4. Members(x)' \cap stored' = {}
    BY <1>8, <2>1, <2>3
  <2>5. ASSUME NEW d \in Calls, call'[d].pc = "store" PROVE call'[d].old \notin Members(x)'
    BY <1>7, <1>8, <2>1, <2>3, <2>5
  <2>6. QED  BY <2>4, <2>5
<1>15. SessionSurvives'
  <2> SUFFICES ASSUME NEW x \in Tokens \ (loggedOut \cup disturbed'), Members(x)' # {}
               PROVE  \/ Members(x)' \cap (expired \cup (stored' \cap held)) # {}
                      \/ \E d \in Calls : \/ call'[d].pc = "store" /\ call'[d].old \in Members(x)'
                                          \/ call'[d].new \in Members(x)' \cap stored'
    BY <1>8 DEF SessionSurvives
  <2>1. CASE x = s
    <3>1. n \in Members(x)' \cap stored'
      BY <1>4, <1>8, <2>1
    <3>2. call'[c].new = n
      BY <1>7, <1>8, <2>1
    <3>3. QED  BY <3>1, <3>2
  <2>2. CASE x # s
    <3>1. Members(x)' = Members(x) /\ x \in Tokens \ (loggedOut \cup disturbed)
      BY <1>4, <1>8, <2>2
    <3>2. \/ Members(x) \cap (expired \cup (stored \cap held)) # {}
          \/ \E d \in Calls : \/ call[d].pc = "store" /\ call[d].old \in Members(x)
                              \/ call[d].new \in Members(x) \cap stored
      BY <1>1, <3>1 DEF SessionsInv, SessionSurvives
    <3>3. QED  BY <1>7, <1>8, <1>9, <2>2, <3>1, <3>2
  <2>3. QED  BY <2>1, <2>2
<1>16. QED  BY <1>11, <1>12, <1>13, <1>14, <1>15 DEF SessionsInv

LEMMA StoreKeepsBudget ==
  ASSUME IInv, NEW c \in Calls, NEW r \in CallType, NEW n \in Fresh, NEW s \in Tokens,
         Store(c, r, n, s)
  PROVE  BudgetInv'
<1> DEFINE t == call[c].old
<1>1. TokensInv /\ BudgetInv
  BY DEF IInv
<1>2. /\ n \in Tokens /\ n \notin Known /\ NoToken \notin Tokens
      /\ t # NoToken => t \in Known /\ t \notin stored
      /\ call'[c] = r /\ \A d \in Calls \ {c} : call'[d] = call[d]
  BY StoreFacts
<1>3. /\ stored' = stored \cup {n} /\ r.pc = "answered" /\ call[c].pc = "store"
      /\ exchanges' = IF t = NoToken THEN exchanges ELSE [exchanges EXCEPT ![t] = @ + 1]
  BY DEF Store
<1> SUFFICES ASSUME NEW m \in Tokens
             PROVE  /\ m \in stored' => exchanges'[m] = 0
                    /\ exchanges'[m] + Cardinality(Through(m)') <= Cardinality(Calls)
  BY DEF BudgetInv
<1>4. /\ IsFiniteSet(Calls) /\ Cardinality(Calls) \in Nat /\ exchanges[m] \in Nat
      /\ IsFiniteSet(Through(m)) /\ Cardinality(Through(m)) \in Nat
  <2>1. Through(m) \subseteq Calls /\ IsFiniteSet(Calls)
    BY BoundsAssumption DEF Through
  <2>2. QED  BY <1>1, <2>1, FS_Subset, FS_CardinalityType DEF TokensInv
<1>5. Through(m)' = Through(m) \ {c} /\ (m = t => c \in Through(m))
  BY <1>2, <1>3 DEF Through
<1>6. Cardinality(Through(m)') = IF c \in Through(m) THEN Cardinality(Through(m)) - 1
                                                    ELSE Cardinality(Through(m))
  BY <1>4, <1>5, FS_RemoveElement
<1>7. exchanges'[m] = IF m = t THEN exchanges[m] + 1 ELSE exchanges[m]
  BY <1>1, <1>2, <1>3 DEF TokensInv
<1>8. m \in stored' => m # t /\ exchanges[m] = 0
  BY <1>1, <1>2, <1>3 DEF BudgetInv, TokensInv, Known
<1>9. exchanges[m] + Cardinality(Through(m)) <= Cardinality(Calls)
  BY <1>1 DEF BudgetInv
<1>10. QED  BY <1>4, <1>5, <1>6, <1>7, <1>8, <1>9

LEMMA StoreHolds ==
  ASSUME IInv, NEW c \in Calls, NEW r \in CallType, NEW n \in Fresh, NEW s \in Tokens,
         Store(c, r, n, s)
  PROVE  IInv'
BY StoreKeepsCalls, StoreKeepsSessions, StoreKeepsBudget DEF IInv

-----------------------------------------------------------------------------
(* Time keeps the invariant, and so does every step *)

LEMMA ExpireHolds ==
  ASSUME IInv, NEW t \in Tokens, Expire(t)
  PROVE  IInv' /\ \A s \in Tokens : Open(s)' => Open(s)
<1>1. TokensInv /\ CallsInv /\ SessionsInv /\ BudgetInv
  BY DEF IInv
<1>2. /\ expired' = expired \cup {t} /\ t \in Known
      /\ UNCHANGED <<users, stored, issue, held, call, exchanges, loggedOut, overlapped, disturbed>>
  BY DEF Expire, history, Known, Fresh
<1>3. Known' = Known /\ Fresh' = Fresh /\ \A s : Members(s)' = Members(s)
  BY <1>2 DEF Known, Fresh, Members
<1>4. TokensInv'
  BY <1>1, <1>2, <1>3 DEF TokensInv, SessionOf
<1>5. CallsInv'
  <2> SUFFICES ASSUME NEW c \in Calls PROVE (Whole(call[c]) /\ Informed(call[c]) /\ Alone(call[c]))'
    BY <1>1, <1>2 DEF CallsInv
  <2>1. Whole(call[c]) /\ Informed(call[c]) /\ Alone(call[c])
    BY <1>1 DEF CallsInv
  <2>2. Whole(call[c])'  BY <1>2, <1>3, <2>1 DEF Whole, SessionOf
  <2>3. Informed(call[c])'  BY <1>2, <2>1 DEF Informed, SessionOf
  <2>4. Alone(call[c])'  BY <1>2, <2>1 DEF Alone, SessionOf, Members
  <2>5. QED  BY <2>2, <2>3, <2>4
<1>6. \A s \in Tokens : Open(s)' => Open(s)
  BY <1>2, <1>3 DEF Open
<1>7. SessionsInv'
  <2>1. SingleToken'
    BY <1>1, <1>2, <1>3 DEF SessionsInv, SingleToken
  <2>2. \A c \in Calls : \A s : Of(call[c], s)' <=> Of(call[c], s)
    BY <1>2 DEF Of, SessionOf
  <2>3. OneRequest'
    BY <1>1, <1>2, <1>6, <2>2 DEF SessionsInv, OneRequest
  <2>4. LogoutEndsSession'
    BY <1>1, <1>2, <1>3 DEF SessionsInv, LogoutEndsSession
  <2>5. SessionSurvives'
    BY <1>1, <1>2, <1>3 DEF SessionsInv, SessionSurvives
  <2>6. QED  BY <2>1, <2>3, <2>4, <2>5 DEF SessionsInv
<1>8. BudgetInv'
  BY <1>1, <1>2 DEF BudgetInv, Through
<1>9. QED  BY <1>4, <1>5, <1>6, <1>7, <1>8 DEF IInv

LEMMA InitHolds == Init => IInv
<1> SUFFICES ASSUME Init PROVE IInv
  OBVIOUS
<1>1. Known = {} /\ Fresh = Tokens
  BY DEF Init, Known, Fresh
<1>2. TokensInv
  BY <1>1 DEF Init, TokensInv, NotIssued
<1>3. \A c \in Calls : call[c] = IdleCall
  BY DEF Init
<1>4. CallsInv
  <2>1. Whole(IdleCall) /\ Informed(IdleCall) /\ Alone(IdleCall)
    BY <1>1, AskShapes, NamesAssumption DEF Whole, Informed, Alone
  <2>2. QED  BY <1>3, <2>1, AskShapes DEF Init, CallsInv
<1>5. \A s \in Tokens : Members(s) = {}
  BY NamesAssumption DEF Init, Members, NotIssued
<1>6. SessionsInv
  <2>1. \A c \in Calls : \A s : ~Of(call[c], s)
    BY <1>3, AskShapes DEF Of
  <2>2. QED
    BY <1>5, <2>1 DEF Init, SessionsInv, SingleToken, OneRequest, LogoutEndsSession, SessionSurvives
<1>7. BudgetInv
  <2>1. \A t : Through(t) = {}
    BY <1>3, AskShapes DEF Through
  <2>2. Cardinality(Calls) \in Nat /\ Cardinality({}) = 0
    BY BoundsAssumption, FS_CardinalityType, FS_EmptySet
  <2>3. QED  BY <2>1, <2>2 DEF Init, BudgetInv
<1>8. QED  BY <1>2, <1>4, <1>6, <1>7 DEF IInv

LEMMA StutterHolds == IInv /\ UNCHANGED vars => IInv'
<1> SUFFICES ASSUME IInv, UNCHANGED vars PROVE IInv'
  OBVIOUS
<1>1. UNCHANGED <<users, stored, issue, expired, held, call>> /\ UNCHANGED history
  BY DEF vars, tokens
<1>2. Known' = Known /\ Fresh' = Fresh
  BY <1>1 DEF Known, Fresh
<1>3. TokensInv'
  BY <1>1, <1>2 DEF IInv, TokensInv, SessionOf, history
<1>4. CallsInv'
  BY <1>1, <1>2 DEF IInv, CallsInv, Whole, Informed, Alone, SessionOf, Members, history
<1>5. SessionsInv'
  BY <1>1 DEF IInv, SessionsInv, SingleToken, OneRequest, LogoutEndsSession, SessionSurvives,
              Open, Of, SessionOf, Members, history
<1>6. BudgetInv'
  BY <1>1 DEF IInv, BudgetInv, Through, history
<1>7. QED  BY <1>3, <1>4, <1>5, <1>6 DEF IInv

LEMMA StepHolds == IInv /\ [Next]_vars => IInv'
BY KindsOfSteps, MoveHolds, DeleteHolds, StoreHolds, ExpireHolds, StutterHolds

LEMMA Invariant == Spec => []IInv
BY InitHolds, StepHolds, PTL DEF Spec

-----------------------------------------------------------------------------
(* Theorems *)

\* The variables have their types, and requests have what they need
\* (auth.service.js).
THEOREM TypeCorrect == Spec => []TypeOK
<1>1. IInv => TypeOK
  BY DEF IInv, TokensInv, CallsInv, CallType, Whole, Known, TypeOK
<1>2. QED  BY <1>1, Invariant, PTL

\* However many requests present a token, and whatever becomes of them, it is
\* exchanged no more often than requests can be under way (refreshAccessToken).
THEOREM Exchanged == Spec => []ExchangeBudget
<1>1. IInv => ExchangeBudget
  <2> SUFFICES ASSUME IInv, NEW t \in Tokens PROVE exchanges[t] <= Cardinality(Calls)
    BY DEF ExchangeBudget
  <2>1. Through(t) \subseteq Calls
    BY DEF Through
  <2>2. Cardinality(Through(t)) \in Nat /\ Cardinality(Calls) \in Nat /\ exchanges[t] \in Nat
    BY <2>1, BoundsAssumption, FS_Subset, FS_CardinalityType DEF IInv, TokensInv
  <2>3. exchanges[t] + Cardinality(Through(t)) <= Cardinality(Calls)
    BY DEF IInv, BudgetInv
  <2>4. QED  BY <2>2, <2>3
<1>2. QED  BY <1>1, Invariant, PTL

\* A client that awaits its answers has one good token per session.
THEOREM OneToken == Spec => []OneTokenPerSession
<1>1. IInv => OneTokenPerSession
  <2> SUFFICES ASSUME IInv, NEW s \in Tokens \ overlapped
               PROVE  Cardinality(Members(s) \cap stored) <= 1
    BY DEF OneTokenPerSession
  <2>1. \A t, n \in Members(s) \cap stored : t = n
    BY DEF IInv, SessionsInv, SingleToken
  <2>2. CASE Members(s) \cap stored = {}
    BY <2>2, FS_EmptySet
  <2>3. ASSUME NEW t \in Members(s) \cap stored
        PROVE  Cardinality(Members(s) \cap stored) <= 1
    <3>1. Members(s) \cap stored = {t}
      BY <2>1, <2>3
    <3>2. Cardinality({t}) = 1
      BY FS_Singleton
    <3>3. QED  BY <3>1, <3>2
  <2>4. QED  BY <2>2, <2>3
<1>2. QED  BY <1>1, Invariant, PTL

\* A session ends for a reason (refreshAccessToken, logout).
THEOREM SessionsSurvive == Spec => []SessionSurvives
<1>1. IInv => SessionSurvives
  BY DEF IInv, SessionsInv
<1>2. QED  BY <1>1, Invariant, PTL

\* A session that was logged out by a client that awaits its answers has ended
\* (logout).
THEOREM LogoutEnds == Spec => []LogoutEndsSession
<1>1. IInv => LogoutEndsSession
  BY DEF IInv, SessionsInv
<1>2. QED  BY <1>1, Invariant, PTL

\* "Logout successful" is true, but where a request was cut short (logout).
THEOREM LogoutTrue == Spec => []LogoutIsTrue
<1>1. IInv => LogoutIsTrue
  BY DEF IInv, CallsInv, Informed, SessionOf, LogoutIsTrue
<1>2. QED  BY <1>1, Invariant, PTL

\* A session that exists stays what it is, is raced by its client, or ends.
LEMMA StandingFalls ==
  ASSUME IInv, NEW s \in Tokens, Members(s)' = Members(s), overlapped \subseteq overlapped',
         s \in overlapped' \ overlapped => Open(s), Open(s)' => Open(s)
  PROVE  Lifecycle!Stays(s) \/ Lifecycle!Ends(s) \/ Lifecycle!Races(s)
<1>1. Open(s) => Members(s) # {}
  BY DEF Open
<1>2. /\ Standing[s] = IF Members(s) = {} THEN "none"
                       ELSE IF s \in overlapped THEN "raced"
                       ELSE IF Open(s) THEN "open" ELSE "over"
      /\ Standing'[s] = IF Members(s) = {} THEN "none"
                        ELSE IF s \in overlapped' THEN "raced"
                        ELSE IF Open(s)' THEN "open" ELSE "over"
  BY DEF Standing
<1>3. QED
  BY <1>1, <1>2 DEF Lifecycle!Stays, Lifecycle!Ends, Lifecycle!Races, Lifecycle!Goes

LEMMA LifecycleStep == IInv /\ [Next]_vars => [Lifecycle!Next]_Standing
<1> SUFFICES ASSUME IInv, [Next]_vars PROVE Lifecycle!Next \/ UNCHANGED Standing
  OBVIOUS
<1>1. ASSUME UNCHANGED vars PROVE UNCHANGED Standing
  BY <1>1 DEF vars, tokens, history, Standing, Members, Open
<1>2. ASSUME NEW c \in Calls, NEW r \in CallType, Move(c, r) PROVE Lifecycle!Next
  <2>1. \A s \in Tokens : Open(s)' => Open(s)
    BY <1>2, MoveKeepsSessions
  <2>2. \A s : Members(s)' = Members(s)
    BY <1>2 DEF Move, Members
  <2>3. QED
    BY <1>2, <2>1, <2>2, StandingFalls DEF Lifecycle!Next, Move
<1>3. ASSUME NEW c \in Calls, NEW r \in CallType, Delete(c, r) PROVE Lifecycle!Next
  <2>1. \A s \in Tokens : Open(s)' => Open(s)
    BY <1>3, DeleteKeepsSessions
  <2>2. (\A s : Members(s)' = Members(s)) /\ overlapped' = overlapped
    BY <1>3 DEF Delete, Members
  <2>3. QED
    BY <2>1, <2>2, StandingFalls DEF Lifecycle!Next
<1>4. ASSUME NEW t \in Tokens, Expire(t) PROVE Lifecycle!Next
  <2>1. \A s \in Tokens : Open(s)' => Open(s)
    BY <1>4, ExpireHolds
  <2>2. (\A s : Members(s)' = Members(s)) /\ overlapped' = overlapped
    BY <1>4 DEF Expire, Members, history
  <2>3. QED
    BY <2>1, <2>2, StandingFalls DEF Lifecycle!Next
<1>5. ASSUME NEW c \in Calls, NEW r \in CallType, NEW n \in Fresh, NEW s \in Tokens,
             Store(c, r, n, s)
      PROVE  Lifecycle!Next
  <2>1. \A x \in Tokens \ {s} : Open(x)' => Open(x)
    BY <1>5, StoreKeepsSessions
  <2>2. \A x \in Tokens : Members(x)' = IF x = s THEN Members(x) \cup {n} ELSE Members(x)
    BY <1>5, StoreFacts
  <2>3. /\ overlapped' = overlapped /\ expired' = expired /\ stored' = stored \cup {n}
    BY <1>5 DEF Store
  <2>4. ASSUME NEW x \in Tokens \ {s}
        PROVE  Lifecycle!Stays(x) \/ Lifecycle!Ends(x) \/ Lifecycle!Races(x)
    BY <2>1, <2>2, <2>3, StandingFalls
  <2>5. Lifecycle!Stays(s) \/ Lifecycle!Begins(s) \/ Lifecycle!Ends(s)
    <3>1. n \in Members(s)'
      BY <2>2
    <3>2. Standing'[s] = IF s \in overlapped THEN "raced"
                         ELSE IF Open(s)' THEN "open" ELSE "over"
      BY <2>3, <3>1 DEF Standing
    <3>3. CASE call[c].old = NoToken
      <4>1. s = n /\ Members(s) = {} /\ s \notin overlapped /\ n \notin expired
        BY <1>5, <3>3, StoreFacts
      <4>2. Open(s)'
        BY <2>3, <3>1, <4>1 DEF Open
      <4>3. Standing[s] = "none" /\ Standing'[s] = "open"
        BY <3>2, <4>1, <4>2 DEF Standing
      <4>4. QED  BY <4>3 DEF Lifecycle!Begins, Lifecycle!Goes
    <3>4. CASE call[c].old # NoToken
      <4>1. Open(s) /\ Members(s) # {}
        BY <1>5, <3>4, StoreFacts
      <4>2. Standing[s] = IF s \in overlapped THEN "raced" ELSE "open"
        BY <4>1 DEF Standing
      <4>3. QED  BY <3>2, <4>2 DEF Lifecycle!Stays, Lifecycle!Ends, Lifecycle!Goes
    <3>5. QED  BY <3>3, <3>4
  <2>6. QED  BY <2>4, <2>5 DEF Lifecycle!Next
<1>6. QED  BY <1>1, <1>2, <1>3, <1>4, <1>5, KindsOfSteps

\* Sessions implements SessionLifecycle: a session that is over never comes
\* back, unless its client overlapped requests while it was open.
THEOREM Refinement == Spec => FollowsLifecycle
<1>1. Init => Lifecycle!Init
  <2> SUFFICES ASSUME Init PROVE Standing = [s \in Tokens |-> "none"]
    BY DEF Lifecycle!Init
  <2>1. \A s \in Tokens : Members(s) = {}
    BY NamesAssumption DEF Init, Members, NotIssued
  <2>2. QED  BY <2>1 DEF Standing
<1>2. QED
  BY <1>1, LifecycleStep, Invariant, PTL DEF Spec, FollowsLifecycle, Lifecycle!Spec
=============================================================================
