----------------------------- MODULE RedisChannel -----------------------------
(***************************************************************************)
(* What redis-pubsub.service.js makes of Redis: every server has one        *)
(* connection it publishes on, to both channels, and one it is subscribed   *)
(* with.  Redis executes the PUBLISH commands of a server in order, and     *)
(* hands all subscribers what it executes in one order.                     *)
(*                                                                          *)
(* ioredis hides broken connections.  A command without a reply is sent     *)
(* again when the connection is back, executed or not.  A subscription is   *)
(* renewed; what was published in between never comes.                      *)
(***************************************************************************)
EXTENDS Sequences, FiniteSets, Naturals

CONSTANTS
  Servers,
  Outages,      \* "publisher", "subscriber": the connections that can break
  MaxEvents     \* bound on what is ever published, and on connections breaking

VARIABLES
  outbox,       \* outbox[s]: what s has published and got no reply for
  executed,     \* executed[s]: how many of these Redis has executed already
  inbox,        \* inbox[s]: what Redis has sent s that s has not handled
  listening,    \* the servers that are subscribed and have their handlers set
  happened      \* history: the events published, and connections broken

channel == <<outbox, executed, inbox, listening, happened>>

ASSUME OutagesAssumption ==
  Outages \subseteq {"publisher", "subscriber"} /\ MaxEvents \in Nat

\* When a process starts, setupRedisSubscriptions has not been answered yet;
\* where subscriptions are not to fail, this moment is left out as well.
AtStart == IF "subscriber" \in Outages THEN {} ELSE Servers

ChannelInit ==
  /\ outbox = [s \in Servers |-> <<>>]
  /\ executed = [s \in Servers |-> 0]
  /\ inbox = [s \in Servers |-> <<>>]
  /\ listening = AtStart
  /\ happened = 0

Quiet == \A s \in Servers : outbox[s] = <<>> /\ inbox[s] = <<>>

Happens == happened < MaxEvents /\ happened' = happened + 1

\* Broken variant of Send: commands of one server overtake each other.
SendUnordered(s, e) == Happens /\ outbox' = [outbox EXCEPT ![s] = <<e>> \o @]

\* publish: nobody awaits the reply.
Send(s, e) == Happens /\ outbox' = [outbox EXCEPT ![s] = Append(@, e)]

\* What Redis executes next for s.
Upcoming(s) == outbox[s][executed[s] + 1]

PassedOn(e) ==
  inbox' = [t \in Servers |-> IF t \in listening THEN Append(inbox[t], e) ELSE inbox[t]]

\* The reply reaches s ...
Execute(s) ==
  /\ outbox[s] # <<>> /\ executed[s] = 0
  /\ PassedOn(Upcoming(s))
  /\ outbox' = [outbox EXCEPT ![s] = Tail(@)]
  /\ UNCHANGED <<executed, listening, happened>>

\* ... or the connection breaks before it does, and nothing more gets a reply.
ExecuteUnanswered(s) ==
  /\ "publisher" \in Outages
  /\ executed[s] < Len(outbox[s])
  /\ IF executed[s] = 0 THEN Happens ELSE UNCHANGED happened
  /\ PassedOn(Upcoming(s))
  /\ executed' = [executed EXCEPT ![s] = @ + 1]
  /\ UNCHANGED <<outbox, listening>>

\* All of outbox is sent again.
Resend(s) ==
  /\ executed[s] > 0
  /\ executed' = [executed EXCEPT ![s] = 0]
  /\ UNCHANGED <<outbox, inbox, listening, happened>>

\* subscribe: the handler is set after the await, so what comes before that is
\* dropped as if Redis did not know the subscriber.
Listen(s) ==
  /\ s \notin listening
  /\ listening' = listening \cup {s}
  /\ UNCHANGED <<outbox, executed, inbox, happened>>

\* The subscriber's connection breaks, with what is on its way.
StopListening(s) ==
  /\ "subscriber" \in Outages
  /\ s \in listening
  /\ Happens
  /\ listening' = listening \ {s}
  /\ inbox' = [inbox EXCEPT ![s] = <<>>]
  /\ UNCHANGED <<outbox, executed>>

\* handleMessage takes the next message.
Handle(s) ==
  /\ inbox[s] # <<>>
  /\ inbox' = [inbox EXCEPT ![s] = Tail(@)]
  /\ UNCHANGED <<outbox, executed, listening, happened>>

\* The process of s dies, with both connections.
Vanish(s) ==
  /\ outbox' = [outbox EXCEPT ![s] = <<>>]
  /\ executed' = [executed EXCEPT ![s] = 0]
  /\ inbox' = [inbox EXCEPT ![s] = <<>>]
  /\ listening' = (listening \ {s}) \cup ({s} \cap AtStart)
  /\ Happens
=============================================================================
