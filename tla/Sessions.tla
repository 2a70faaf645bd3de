------------------------------ MODULE Sessions ------------------------------
(***************************************************************************)
(* Accounts and refresh tokens: src/services/auth.service.js with the       *)
(* answers auth.controller.js makes of its results.  Every statement is a   *)
(* step of its own and none is in a transaction, so the requests of one     *)
(* client, of several, and the end of a process come in between.            *)
(*                                                                          *)
(* A refresh token is its jti.  The tokens got from one registration or     *)
(* login by refreshing again and again are a session, named by its first    *)
(* token.                                                                   *)
(***************************************************************************)
EXTENDS DbStatements, Naturals, FiniteSets

CONSTANTS
  Emails,        \* addresses people register with
  Tokens,        \* jtis; crypto.randomUUID gives a fresh one each time
  Calls,         \* requests that may be under way at once
  Crashes,       \* whether the process that serves a request can die
  MaxExpired,    \* bound on the tokens that run out
  NoEmail, NoToken

VARIABLES
  users,         \* users[e]: rows of the users table with this email
  stored,        \* tokens with a row in refresh_tokens
  issue,         \* issue[t]: the account and the session t was made for
  expired,       \* tokens past their seven days
  held,          \* tokens a client has received
  call,          \* call[c]: a request
  exchanges,     \* history: exchanges[t] new tokens were stored in place of t
  loggedOut,     \* history: sessions a logout took a stored token from
  overlapped,    \* history: sessions whose client did not await an answer
  disturbed      \* history: sessions in which a request was cut short

tokens == <<stored, issue, expired, held>>
history == <<exchanges, loggedOut, overlapped, disturbed>>
vars == <<users, tokens, call, history>>

ASSUME NamesAssumption == NoEmail \notin Emails /\ NoToken \notin Tokens

ASSUME FlagsAssumption ==
  /\ Crashes \in BOOLEAN
  /\ DbFaults \subseteq {"refused", "lostReply"}

ASSUME BoundsAssumption == IsFiniteSet(Calls) /\ MaxExpired \in Nat

-----------------------------------------------------------------------------
NotIssued == [email |-> NoEmail, session |-> NoToken]

\* jtis nobody has used yet.
Fresh == {t \in Tokens : issue[t] = NotIssued}

CallPcs == {"idle", "create", "store", "read", "cleanup", "delete", "logout", "answered"}

\* "served" stands for the 200 or 201 of the request.
Replies == {"none", "served", "bad_request", "unauthorized", "error"}

\* email: the account a register or login request is for.  old: the token
\* presented.  new: the token handed out.
IdleCall == [pc |-> "idle", email |-> NoEmail, old |-> NoToken, new |-> NoToken,
             reply |-> "none"]

Asks(e, pc) == [IdleCall EXCEPT !.email = e, !.pc = pc]

\* Broken variant of Presents: the tokens are made without a jti.
PresentsNoId(t, pc) == [IdleCall EXCEPT !.pc = pc]

Presents(t, pc) == [IdleCall EXCEPT !.old = t, !.pc = pc]

\* The tokens of the session s.
Members(s) == {t \in Tokens : issue[t].session = s}

\* s has a token that can be exchanged, or a request that will store one.
Open(s) ==
  \/ Members(s) \cap (stored \ expired) # {}
  \/ \E c \in Calls : call[c].pc \in {"delete", "store"} /\ call[c].old \in Members(s)

\* The sessions of the tokens the request c has to do with.
SessionsOf(c) == {issue[t].session : t \in {call[c].old, call[c].new} \ {NoToken}}

\* A client that has sent a request with the token t.
Overlap(t) ==
  LET s == issue[t].session IN
  overlapped' = IF Open(s) /\ \E c \in Calls : s \in SessionsOf(c)
                THEN overlapped \cup {s} ELSE overlapped

Become(c, record) == call' = [call EXCEPT ![c] = record]
Goto(c, pc) == call' = [call EXCEPT ![c].pc = pc]
Answered(request, reply) ==
  [request EXCEPT !.pc = "answered", !.email = NoEmail, !.reply = reply]
Answer(c, reply) == Become(c, Answered(call[c], reply))

Init ==
  /\ users = [e \in Emails |-> 0]
  /\ stored = {}
  /\ issue = [t \in Tokens |-> NotIssued]
  /\ expired = {}
  /\ held = {}
  /\ call = [c \in Calls |-> IdleCall]
  /\ exchanges = [t \in Tokens |-> 0]
  /\ loggedOut = {}
  /\ overlapped = {}
  /\ disturbed = {}

-----------------------------------------------------------------------------
(* register and login *)

\* Bound: a request that may store a token starts only while there is a fresh
\* one for it and for each request already under way.
RoomForToken == Cardinality({c \in Calls : call[c].pc # "idle"}) < Cardinality(Fresh)

\* The email is looked up, then the password is hashed.
Register(c, e) ==
  /\ call[c].pc = "idle"
  /\ RoomForToken
  /\ LET request == Asks(e, "create") IN
     \/ Become(c, IF users[e] > 0 THEN Answered(request, "bad_request") ELSE request)
     \/ "refused" \in DbFaults /\ Become(c, Answered(request, "error"))
  /\ UNCHANGED <<users, tokens, history>>

\* INSERT INTO users; a second row with the email is refused, and the message
\* of that error does not contain the "already exists" the controller looks for.
CreateUser(c) ==
  LET e == call[c].email IN
  /\ call[c].pc = "create"
  /\ \E o \in Outcomes :
       LET created == Applied(o) /\ users[e] = 0 IN
       /\ users' = IF created THEN [users EXCEPT ![e] = 1] ELSE users
       /\ IF created /\ ~Raised(o) THEN Goto(c, "store") ELSE Answer(c, "error")
  /\ UNCHANGED <<tokens, history>>

\* The account is looked up and the password compared.
Login(c, e) ==
  /\ call[c].pc = "idle"
  /\ LET request == Asks(e, "store") IN
     \/ users[e] > 0 /\ RoomForToken /\ Become(c, request)
     \/ Become(c, Answered(request, "unauthorized"))
     \/ "refused" \in DbFaults /\ Become(c, Answered(request, "error"))
  /\ UNCHANGED <<users, tokens, history>>

-----------------------------------------------------------------------------
(* refreshAccessToken *)

\* verifyRefreshToken: the signature holds, and the token has not expired.
Refresh(c, t) ==
  /\ call[c].pc = "idle"
  /\ RoomForToken
  /\ LET request == Presents(t, "read") IN
     Become(c, IF t \in expired THEN Answered(request, "unauthorized") ELSE request)
  /\ Overlap(t)
  /\ UNCHANGED <<users, tokens, exchanges, loggedOut, disturbed>>

\* Broken variant of ReadToken: the signature is enough, the row is not asked for.
ReadTokenUnchecked(c) ==
  /\ call[c].pc = "read"
  /\ Goto(c, "delete")
  /\ UNCHANGED <<users, tokens, history>>

\* Broken variant of ReadToken: expires_at is not looked at.
ReadTokenUndated(c) ==
  /\ call[c].pc = "read"
  /\ IF call[c].old \in stored THEN Goto(c, "delete") ELSE Answer(c, "unauthorized")
  /\ UNCHANGED <<users, tokens, history>>

\* The row is read and its date checked; its user is always found, as no
\* account is ever deleted.
ReadToken(c) ==
  LET t == call[c].old IN
  /\ call[c].pc = "read"
  /\ \/ IF t \notin stored    THEN Answer(c, "unauthorized")
        ELSE IF t \in expired THEN Goto(c, "cleanup")
        ELSE Goto(c, "delete")
     \/ "refused" \in DbFaults /\ Answer(c, "error")
  /\ UNCHANGED <<users, tokens, history>>

\* DELETE FROM refresh_tokens WHERE token: how many rows it took is not asked.
DeleteRow(c, next) ==
  /\ \E o \in Outcomes :
       /\ stored' = IF Applied(o) THEN stored \ {call[c].old} ELSE stored
       /\ IF Raised(o) THEN Answer(c, "error") ELSE Become(c, next)
       /\ disturbed' = IF Raised(o) THEN disturbed \cup SessionsOf(c) ELSE disturbed
  /\ UNCHANGED <<users, issue, expired, held, exchanges, loggedOut, overlapped>>

CleanUp(c) ==
  call[c].pc = "cleanup" /\ DeleteRow(c, Answered(call[c], "unauthorized"))

\* Broken variant of DeleteOld: the old token stays good.
DeleteOldSkipped(c) ==
  /\ call[c].pc = "delete"
  /\ Goto(c, "store")
  /\ UNCHANGED <<users, tokens, history>>

\* Token rotation: the old token goes ...
DeleteOld(c) ==
  call[c].pc = "delete" /\ DeleteRow(c, [call[c] EXCEPT !.pc = "store"])

\* ... and a new one is stored in its place.  The last step of register and
\* login is the same INSERT, for a new session.
StoreNew(c) ==
  LET t == call[c].old IN
  /\ call[c].pc = "store"
  /\ \/ /\ "refused" \in DbFaults
        /\ Answer(c, "error")
        /\ disturbed' = disturbed \cup SessionsOf(c)
        /\ UNCHANGED <<stored, issue, exchanges>>
     \/ \E n \in Fresh, o \in Outcomes \ {"refused"} :
          /\ stored' = stored \cup {n}
          /\ issue' = [issue EXCEPT ![n] =
               IF t = NoToken THEN [email |-> call[c].email, session |-> n]
                              ELSE issue[t]]
          /\ exchanges' = IF t = NoToken THEN exchanges
                                         ELSE [exchanges EXCEPT ![t] = @ + 1]
          /\ disturbed' = IF Raised(o) THEN disturbed \cup {issue'[n].session}
                                       ELSE disturbed
          /\ Become(c, IF Raised(o)
                       THEN Answered(call[c], "error")
                       ELSE [Answered(call[c], "served") EXCEPT !.new = n])
  /\ UNCHANGED <<users, expired, held, loggedOut, overlapped>>

-----------------------------------------------------------------------------
(* logout: whatever goes wrong, it was successful *)

Logout(c, t) ==
  /\ call[c].pc = "idle"
  /\ LET request == Presents(t, "logout") IN
     Become(c, IF t \in expired THEN Answered(request, "served") ELSE request)
  /\ Overlap(t)
  /\ UNCHANGED <<users, tokens, exchanges, loggedOut, disturbed>>

\* Broken variant of DeleteForLogout: ... WHERE user_id instead of WHERE token.
DeleteAllForLogout(c) ==
  LET t == call[c].old IN
  /\ call[c].pc = "logout"
  /\ stored' = {s \in stored : issue[s].email # issue[t].email}
  /\ loggedOut' = IF t \in stored THEN loggedOut \cup {issue[t].session} ELSE loggedOut
  /\ Answer(c, "served")
  /\ UNCHANGED <<users, issue, expired, held, exchanges, overlapped, disturbed>>

\* Broken variant of DeleteForLogout: the answer does not wait for the DELETE.
AnswerLogoutFirst(c) ==
  /\ call[c].pc = "logout"
  /\ Answer(c, "served")
  /\ UNCHANGED <<users, tokens, history>>

DeleteForLogout(c) ==
  LET t == call[c].old IN
  /\ call[c].pc = "logout"
  /\ \E o \in Outcomes :
       /\ stored' = IF Applied(o) THEN stored \ {t} ELSE stored
       /\ loggedOut' = IF Applied(o) /\ t \in stored
                       THEN loggedOut \cup {issue[t].session} ELSE loggedOut
       /\ disturbed' = IF Raised(o) THEN disturbed \cup SessionsOf(c) ELSE disturbed
  /\ Answer(c, "served")
  /\ UNCHANGED <<users, issue, expired, held, exchanges, overlapped>>

-----------------------------------------------------------------------------
(* The rest of the world *)

\* The answer reaches the client, which keeps every token it is given.
Respond(c) ==
  /\ call[c].pc = "answered"
  /\ held' = held \cup ({call[c].new} \ {NoToken})
  /\ Become(c, IdleCall)
  /\ UNCHANGED <<users, stored, issue, expired, history>>

\* Seven days have passed: the JWT and its row expire together.
Expire(t) ==
  /\ issue[t] # NotIssued /\ t \notin expired
  /\ Cardinality(expired) < MaxExpired
  /\ expired' = expired \cup {t}
  /\ UNCHANGED <<users, stored, issue, held, call, history>>

\* The process that serves the request dies.
Crash(c) ==
  /\ Crashes /\ call[c].pc # "idle"
  /\ Become(c, IdleCall)
  /\ disturbed' = disturbed \cup SessionsOf(c)
  /\ UNCHANGED <<users, tokens, exchanges, loggedOut, overlapped>>

Arrival(c) ==
  \/ \E e \in Emails : Register(c, e) \/ Login(c, e)
  \/ \E t \in held : Refresh(c, t) \/ Logout(c, t)

CallStep(c) ==
  CreateUser(c) \/ ReadToken(c) \/ CleanUp(c) \/ DeleteOld(c) \/ StoreNew(c)
    \/ DeleteForLogout(c) \/ Respond(c)

Next ==
  \/ \E c \in Calls : Arrival(c) \/ CallStep(c) \/ Crash(c)
  \/ \E t \in Tokens : Expire(t)

Spec == Init /\ [][Next]_vars

-----------------------------------------------------------------------------
(* Properties *)

\* The variables have their types, a token is stored, held or expired only if
\* it was issued, and requests refer to what they need (auth.service.js).
TypeOK ==
  /\ users \in [Emails -> Nat]
  /\ issue \in [Tokens -> [email : Emails \cup {NoEmail}, session : Tokens \cup {NoToken}]]
  /\ stored \subseteq Tokens \ Fresh
  /\ held \subseteq Tokens \ Fresh
  /\ expired \subseteq Tokens \ Fresh
  /\ call \in [Calls -> [pc : CallPcs, email : Emails \cup {NoEmail},
                         old : Tokens \cup {NoToken}, new : Tokens \cup {NoToken},
                         reply : Replies]]
  /\ \A c \in Calls :
       /\ call[c].old \notin Fresh /\ call[c].new \notin Fresh
       /\ call[c].pc \in {"read", "cleanup", "delete", "logout"} => call[c].old # NoToken
       /\ call[c].pc = "create" => call[c].email # NoEmail
       /\ call[c].pc = "store" => call[c].email # NoEmail \/ call[c].old # NoToken
  /\ exchanges \in [Tokens -> Nat]
  /\ loggedOut \subseteq Tokens /\ overlapped \subseteq Tokens /\ disturbed \subseteq Tokens

\* However many requests present a token over time, it is exchanged no more
\* often than there can be requests under way at once: only those that read it
\* before the first DELETE get through (refreshAccessToken).
ExchangeBudget == \A t \in Tokens : exchanges[t] <= Cardinality(Calls)

\* A client that awaits each answer never has two good refresh tokens in one
\* session, whatever is lost, refused or repeated.
OneTokenPerSession ==
  \A s \in Tokens \ overlapped : Cardinality(Members(s) \cap stored) <= 1

\* A session no request of which was cut short, that was not logged out and has
\* not run out, has a good token: its client has received it, or it is about to,
\* even when the client's requests overlap (refreshAccessToken).
SessionSurvives ==
  \A s \in Tokens \ (loggedOut \cup disturbed) : Members(s) # {} =>
    \/ Members(s) \cap (expired \cup (stored \cap held)) # {}
    \/ \E c \in Calls : \/ call[c].pc = "store" /\ call[c].old \in Members(s)
                        \/ call[c].new \in Members(s) \cap stored

\* When its client awaits each answer, a session that was logged out has no
\* good token and gets none again.
LogoutEndsSession ==
  \A s \in loggedOut \ overlapped :
    /\ Members(s) \cap stored = {}
    /\ \A c \in Calls : call[c].pc = "store" => call[c].old \notin Members(s)

\* A client told that it is logged out has its token gone, unless a request of
\* the session was cut short: a logout whose DELETE fails says the same
\* (auth.service.js:200).
LogoutIsTrue ==
  \A c \in Calls :
    LET t == call[c].old IN
    call[c].reply = "served" /\ call[c].new = NoToken =>
      t \notin stored \ expired \/ issue[t].session \in disturbed

-----------------------------------------------------------------------------
(* What the sessions are for: SessionLifecycle, with each session in the     *)
(* state its tokens and requests leave it in.                                *)

Standing ==
  [s \in Tokens |->
    IF Members(s) = {} THEN "none"
    ELSE IF s \in overlapped THEN "raced"
    ELSE IF Open(s) THEN "open" ELSE "over"]

Lifecycle == INSTANCE SessionLifecycle WITH Sessions <- Tokens, state <- Standing

\* A session that is over, because it was logged out, ran out or was cut short,
\* never comes back, unless its client overlapped requests while it was open.
FollowsLifecycle == Lifecycle!Spec

-----------------------------------------------------------------------------
(* What the repository says and the code does not provide *)

\* "JWT-based authentication with refresh token rotation" (README.md:26): a
\* token is exchanged once.
RotatedOnce == \A t \in Tokens : exchanges[t] <= 1
=============================================================================
