----------------------------- MODULE ServerProofs -----------------------------
(***************************************************************************)
(* Theorems about ServerProcess, for all clients, processors, routes and    *)
(* sizes of the pool: the state is well typed, the pool is sound, and the   *)
(* process exits only when its work is done.                                *)
(*                                                                          *)
(* Held(p) are the leases out and waited for.  The pool's operations are    *)
(* described by what they do to Held (Pool operations); actions then by the *)
(* leases of the one actor they move (Owned).                               *)
(***************************************************************************)
EXTENDS ServerProcess, FiniteSetTheorems, TLAPS

InLine(p) == {p.queue[i] : i \in DOMAIN p.queue}
Held(p) == p.out \cup InLine(p)

PoolType == [out : SUBSET Leases, queue : Seq(Leases)]

\* The pool p, without regard to whose its leases are.
Sound(p) ==
  /\ p \in PoolType
  /\ IsFiniteSet(p.out) /\ Cardinality(p.out) <= PoolSize
  /\ p.queue # <<>> => Cardinality(p.out) = PoolSize
  /\ \A i, j \in DOMAIN p.queue : p.queue[i] = p.queue[j] => i = j
  /\ p.out \cap InLine(p) = {}

\* A lease is that of the use its actor is at.
Owned == \A l \in Held(pool) : l[1] \in Actors /\ todo[l[1]] # <<>> /\ l = Current(l[1])

TypedInv ==
  /\ phase \in {"serving", "stopping", "closing", "exited", "dead"}
  /\ conn \in [Clients -> {"none", "http", "socket"}]
  /\ todo \in [Actors -> Seq(Uses)]
  /\ attended \subseteq Processors

PoolInv == Sound(pool) /\ Owned

\* Once the queues are closed no job is attended to.
ShutInv == phase \in {"closing", "exited", "dead"} => attended = {}

IInv == TypedInv /\ PoolInv /\ ShutInv

-----------------------------------------------------------------------------
(* Pool operations *)

LEMMA AskSound ==
  ASSUME NEW p, Sound(p), NEW l \in Leases, l \notin Held(p)
  PROVE  Sound(Ask(p, l)) /\ Held(Ask(p, l)) = Held(p) \cup {l}
<1> DEFINE q == Ask(p, l)
<1>0. /\ p.out \subseteq Leases /\ p.queue \in Seq(Leases) /\ Len(p.queue) \in Nat
      /\ DOMAIN p.queue = 1..Len(p.queue)
  BY DEF Sound, PoolType
<1>1. CASE Full(p) \/ p.queue # <<>>
  <2>1. q = [p EXCEPT !.queue = Append(@, l)]
    BY <1>1 DEF Ask
  <2>2. q.out = p.out /\ q.queue = Append(p.queue, l) /\ q \in PoolType
    <3>1. p \in PoolType
      BY DEF Sound
    <3>2. Append(p.queue, l) \in Seq(Leases)
      BY <1>0
    <3> HIDE DEF q
    <3> QED BY <2>1, <3>1, <3>2 DEF PoolType
  <2>3. /\ DOMAIN q.queue = 1..(Len(p.queue) + 1)
        /\ q.queue[Len(p.queue) + 1] = l
        /\ \A i \in 1..Len(p.queue) : q.queue[i] = p.queue[i]
    BY <2>2, <1>0
  <2>4. InLine(q) = InLine(p) \cup {l}
    BY <2>3, <1>0 DEF InLine
  <2>5. Cardinality(q.out) = PoolSize
    BY <1>1, <2>2, FS_CardinalityType, ServerAssumption DEF Full, Sound
  <2>6. \A i, j \in DOMAIN q.queue : q.queue[i] = q.queue[j] => i = j
    <3>1. \A i \in 1..Len(p.queue) : p.queue[i] # l
      BY <1>0 DEF Held, InLine
    <3>2. \A i, j \in 1..Len(p.queue) : p.queue[i] = p.queue[j] => i = j
      BY <1>0 DEF Sound
    <3>3. \A i \in DOMAIN q.queue : i \in 1..Len(p.queue) \/ i = Len(p.queue) + 1
      BY <1>0, <2>3
    <3> HIDE DEF q
    <3> QED BY <2>3, <3>1, <3>2, <3>3
  <2>7. q.out \cap InLine(q) = {}
    BY <2>2, <2>4 DEF Sound, Held
  <2>8. Cardinality(q.out) <= PoolSize /\ IsFiniteSet(q.out)
    BY <2>2 DEF Sound
  <2> QED BY <2>2, <2>4, <2>5, <2>6, <2>7, <2>8 DEF Sound, Held
<1>2. CASE ~Full(p) /\ p.queue = <<>>
  <2>1. q = [p EXCEPT !.out = @ \cup {l}]
    BY <1>2 DEF Ask
  <2>2. q.out = p.out \cup {l} /\ q.queue = <<>> /\ q \in PoolType
    BY <2>1, <1>0, <1>2 DEF PoolType, Sound
  <2>3. InLine(q) = {} /\ InLine(p) = {} /\ DOMAIN q.queue = {}
    BY <2>2, <1>2 DEF InLine
  <2>4. /\ IsFiniteSet(q.out)
        /\ Cardinality(q.out) <= PoolSize
    <3>1. Cardinality(p.out) \in Nat /\ IsFiniteSet(p.out)
      BY FS_CardinalityType DEF Sound
    <3>2. Cardinality(p.out) < PoolSize
      BY <3>1, <1>2, ServerAssumption DEF Full
    <3>3. l \notin p.out
      BY DEF Held
    <3>4. IsFiniteSet(p.out \cup {l}) /\ Cardinality(p.out \cup {l}) = Cardinality(p.out) + 1
      BY <3>1, <3>3, FS_AddElement
    <3>5. Cardinality(p.out \cup {l}) <= PoolSize
      BY <3>1, <3>2, <3>4, ServerAssumption
    <3> QED BY <2>2, <3>4, <3>5
  <2> QED BY <2>2, <2>3, <2>4 DEF Sound, Held
<1> QED BY <1>1, <1>2

LEMMA GiveBackSound ==
  ASSUME NEW p, Sound(p), NEW l \in p.out
  PROVE  Sound(GiveBack(p, l)) /\ Held(GiveBack(p, l)) = Held(p) \ {l}
<1> DEFINE q == GiveBack(p, l)
<1>0. /\ p.out \subseteq Leases /\ p.queue \in Seq(Leases) /\ Len(p.queue) \in Nat
      /\ DOMAIN p.queue = 1..Len(p.queue) /\ l \notin InLine(p)
  BY DEF Sound, PoolType
<1>1. /\ IsFiniteSet(p.out \ {l})
      /\ Cardinality(p.out) \in Nat
      /\ Cardinality(p.out \ {l}) = Cardinality(p.out) - 1
  BY FS_RemoveElement, FS_CardinalityType DEF Sound
<1>2. CASE p.queue = <<>>
  <2>1. q.out = p.out \ {l} /\ q.queue = <<>> /\ q \in PoolType
    BY <1>0, <1>2 DEF GiveBack, PoolType, Sound
  <2>2. InLine(q) = {} /\ InLine(p) = {} /\ DOMAIN q.queue = {}
    BY <2>1, <1>2 DEF InLine
  <2>3. Cardinality(q.out) <= PoolSize
    BY <1>1, <2>1, ServerAssumption DEF Sound
  <2> QED BY <1>1, <2>1, <2>2, <2>3 DEF Sound, Held
<1>3. CASE p.queue # <<>>
  <2> DEFINE h == p.queue[1]
  <2>1. /\ q.out = (p.out \ {l}) \cup {h} /\ q.queue = Tail(p.queue)
        /\ h \in Leases /\ Len(p.queue) >= 1
    BY <1>0, <1>3 DEF GiveBack
  <2>2. q \in PoolType
    BY <2>1, <1>0, <1>3 DEF GiveBack, PoolType
  <2>3. /\ DOMAIN q.queue = 1..(Len(p.queue) - 1)
        /\ \A i \in 1..(Len(p.queue) - 1) : q.queue[i] = p.queue[i + 1]
    BY <2>1, <1>0, <1>3
  <2>4. \A i, j \in DOMAIN q.queue : q.queue[i] = q.queue[j] => i = j
    <3>1. \A i, j \in 1..Len(p.queue) : p.queue[i] = p.queue[j] => i = j
      BY <1>0 DEF Sound
    <3> HIDE DEF q
    <3> SUFFICES ASSUME NEW i \in 1..(Len(p.queue) - 1), NEW j \in 1..(Len(p.queue) - 1),
                        p.queue[i + 1] = p.queue[j + 1]
                 PROVE  i = j
      BY <2>3
    <3>2. i + 1 \in 1..Len(p.queue) /\ j + 1 \in 1..Len(p.queue)
      BY <1>0
    <3>3. i + 1 = j + 1
      BY <3>1, <3>2
    <3> QED BY <3>3
  <2>5. h \notin InLine(q)
    BY <2>1, <2>3, <1>0 DEF Sound, InLine
  <2>6. InLine(p) = InLine(q) \cup {h}
    <3>1. ASSUME NEW i \in 1..Len(p.queue), i # 1 PROVE p.queue[i] = q.queue[i - 1] /\ i - 1 \in DOMAIN q.queue
      BY <3>1, <2>3, <1>0
    <3>2. InLine(p) \subseteq InLine(q) \cup {h}
      BY <3>1, <1>0 DEF InLine
    <3>3. InLine(q) \cup {h} \subseteq InLine(p)
      BY <2>1, <2>3, <1>0 DEF InLine
    <3> QED BY <3>2, <3>3
  <2>7. h \in InLine(p) /\ h \notin p.out
    BY <2>6 DEF Sound
  <2>8. /\ IsFiniteSet(q.out)
        /\ Cardinality(q.out) = Cardinality(p.out)
    <3>1. h \notin p.out \ {l}
      BY <2>7
    <3>2. /\ IsFiniteSet((p.out \ {l}) \cup {h})
          /\ Cardinality((p.out \ {l}) \cup {h}) = Cardinality(p.out \ {l}) + 1
      BY <1>1, <3>1, FS_AddElement
    <3> QED BY <1>1, <2>1, <3>2
  <2>9. q.out \cap InLine(q) = {}
    BY <2>1, <2>5, <2>6 DEF Sound
  <2>10. Held(q) = Held(p) \ {l}
    BY <2>1, <2>6, <1>0 DEF Held
  <2>11. Cardinality(q.out) = PoolSize /\ PoolSize <= PoolSize
    BY <2>8, <1>3, ServerAssumption DEF Sound
  <2> QED BY <2>2, <2>4, <2>8, <2>9, <2>10, <2>11 DEF Sound
<1> QED BY <1>2, <1>3

LEMMA CutSound ==
  ASSUME NEW p, Sound(p), NEW i \in DOMAIN p.queue
  PROVE  Sound(Cut(p, i)) /\ Held(Cut(p, i)) = Held(p) \ {p.queue[i]}
<1> DEFINE q == Cut(p, i)
           n == Len(p.queue)
           Old(m) == IF m < i THEN m ELSE m + 1
<1>0. /\ p.out \subseteq Leases /\ p.queue \in Seq(Leases) /\ n \in Nat
      /\ DOMAIN p.queue = 1..n /\ i \in 1..n
      /\ \A m \in 1..n : p.queue[m] \in Leases
  BY DEF Sound, PoolType
<1>1. q.out = p.out /\ q.queue = [m \in 1..(n - 1) |-> p.queue[Old(m)]]
  BY DEF Cut, Sound, PoolType
<1>2. \A m \in 1..(n - 1) : Old(m) \in 1..n
  BY <1>0
<1>3. q.queue \in Seq(Leases) /\ DOMAIN q.queue = 1..(n - 1)
  <2>1. q.queue \in [1..(n - 1) -> Leases] /\ n - 1 \in Nat
    BY <1>0, <1>1, <1>2
  <2> QED BY <2>1
<1>4. q \in PoolType
  <2>1. q = [out |-> q.out, queue |-> q.queue]
    <3> DEFINE rest == [m \in 1..(n - 1) |-> p.queue[Old(m)]]
    <3>1. p \in PoolType /\ q = [p EXCEPT !.queue = rest]
      BY DEF Sound, Cut
    <3> HIDE DEF rest, q
    <3> QED BY <3>1 DEF PoolType
  <2> QED BY <2>1, <1>0, <1>1, <1>3 DEF PoolType
<1>5. \A m, k \in DOMAIN q.queue : q.queue[m] = q.queue[k] => m = k
  <2> SUFFICES ASSUME NEW m \in 1..(n - 1), NEW k \in 1..(n - 1), q.queue[m] = q.queue[k]
               PROVE  m = k
    BY <1>3
  <2>1. Old(m) = Old(k)
    <3>1. p.queue[Old(m)] = p.queue[Old(k)]
      BY <1>1
    <3>2. Old(m) \in DOMAIN p.queue /\ Old(k) \in DOMAIN p.queue
      BY <1>0, <1>2
    <3> HIDE DEF Old
    <3> QED BY <3>1, <3>2 DEF Sound
  <2> QED BY <2>1, <1>0
<1>6. InLine(q) = InLine(p) \ {p.queue[i]}
  <2>1. ASSUME NEW m \in 1..(n - 1) PROVE q.queue[m] \in InLine(p) \ {p.queue[i]}
    <3>1. Old(m) # i
      BY <1>0
    <3>2. q.queue[m] = p.queue[Old(m)] /\ Old(m) \in DOMAIN p.queue
      BY <1>0, <1>1, <1>2
    <3>3. p.queue[Old(m)] # p.queue[i]
      BY <3>1, <3>2 DEF Sound
    <3> QED BY <3>2, <3>3 DEF InLine
  <2>2. ASSUME NEW m \in 1..n, p.queue[m] # p.queue[i] PROVE p.queue[m] \in InLine(q)
    <3> DEFINE k == IF m < i THEN m ELSE m - 1
    <3>1. m # i
      BY <2>2
    <3>2. k \in 1..(n - 1) /\ Old(k) = m
      BY <3>1, <1>0
    <3> QED BY <3>2, <1>1, <1>3 DEF InLine
  <2> QED BY <2>1, <2>2, <1>0, <1>3 DEF InLine
<1>7. p.queue # <<>>
  BY <1>0
<1>8. Sound(q)
  BY <1>1, <1>4, <1>5, <1>6, <1>7 DEF Sound
<1>9. p.queue[i] \notin p.out
  BY <1>0 DEF Sound, InLine
<1> QED BY <1>1, <1>6, <1>8, <1>9 DEF Held

-----------------------------------------------------------------------------
(* Whose leases are held *)

LEMMA Lengths ==
  ASSUME TypedInv, NEW a \in Actors
  PROVE  /\ todo[a] \in Seq(Uses) /\ Len(todo[a]) \in Nat
         /\ Current(a)[1] = a
         /\ \A n \in Nat \ {0} : Lease(a, n) \in Leases
         /\ todo[a] # <<>> => Len(todo[a]) >= 1
<1>1. todo[a] \in Seq(Uses)
  BY DEF TypedInv
<1>2. Len(todo[a]) \in Nat /\ (todo[a] # <<>> => Len(todo[a]) >= 1)
  BY <1>1
<1> QED BY <1>1, <1>2 DEF Current, Lease, Leases

\* The leases of a are gone, but for the one it is now at.
LEMMA Moved ==
  ASSUME IInv, NEW a \in Actors, NEW steps \in Seq(Uses), Sound(pool'),
         todo' = [todo EXCEPT ![a] = steps],
         \A l \in Held(pool') : \/ l \in Held(pool) /\ l # Current(a)
                                \/ l = Lease(a, Len(steps)) /\ steps # <<>>
  PROVE  PoolInv' /\ todo' \in [Actors -> Seq(Uses)]
<1>1. todo' \in [Actors -> Seq(Uses)]
  BY DEF IInv, TypedInv
<1>2. todo'[a] = steps /\ \A x \in Actors \ {a} : todo'[x] = todo[x]
  BY DEF IInv, TypedInv
<1>3. ASSUME NEW l \in Held(pool')
      PROVE  l[1] \in Actors /\ todo'[l[1]] # <<>> /\ l = Lease(l[1], Len(todo'[l[1]]))
  <2>1. CASE l \in Held(pool) /\ l # Current(a)
    <3>1. l[1] \in Actors /\ todo[l[1]] # <<>> /\ l = Current(l[1])
      BY <2>1 DEF IInv, PoolInv, Owned
    <3>2. l[1] # a
      BY <2>1, <3>1
    <3> QED BY <1>2, <3>1, <3>2 DEF Current
  <2>2. CASE l = Lease(a, Len(steps)) /\ steps # <<>>
    BY <1>2, <2>2 DEF Lease
  <2> QED BY <1>3, <2>1, <2>2
<1>4. Owned'
  BY <1>3 DEF Owned, Current
<1> QED BY <1>1, <1>4 DEF PoolInv

\* a, which holds nothing, begins.
LEMMA BeginHolds ==
  ASSUME IInv, NEW a \in Actors, NEW steps \in Seq(Uses) \ {<<>>},
         Current(a) \notin Held(pool) \/ todo[a] = <<>>, Begin(a, steps)
  PROVE  PoolInv' /\ todo' \in [Actors -> Seq(Uses)]
<1> DEFINE l == Lease(a, Len(steps))
<1>1. l \in Leases
  <2>1. Len(steps) \in Nat \ {0}
    OBVIOUS
  <2> QED BY <2>1, Lengths DEF IInv
<1>2. \A x \in Held(pool) : x[1] # a /\ x # Current(a)
  BY Lengths DEF IInv, PoolInv, Owned
<1>3. l \notin Held(pool)
  BY <1>2 DEF Lease
<1>4. Sound(pool') /\ Held(pool') = Held(pool) \cup {l}
  BY <1>1, <1>3, AskSound DEF IInv, PoolInv, Begin
<1>5. todo' = [todo EXCEPT ![a] = steps]
  BY DEF Begin
<1>6. \A x \in Held(pool') : \/ x \in Held(pool) /\ x # Current(a)
                             \/ x = Lease(a, Len(steps)) /\ steps # <<>>
  BY <1>2, <1>4
<1>7. Sound(pool')
  BY <1>4
<1> QED BY <1>5, <1>6, <1>7, Moved

\* a gives up its connection, or its place in line, and goes on otherwise.
LEMMA FreeHolds ==
  ASSUME IInv, NEW a \in Actors, NEW steps \in Seq(Uses), Sound(pool'),
         Held(pool') = Held(pool) \ {Current(a)}, todo' = [todo EXCEPT ![a] = steps]
  PROVE  PoolInv' /\ todo' \in [Actors -> Seq(Uses)]
BY Moved

LEMMA ServedGivesBack ==
  ASSUME IInv, NEW a \in Actors, Served(a)
  PROVE  /\ Sound(GiveBack(pool, Current(a)))
         /\ Held(GiveBack(pool, Current(a))) = Held(pool) \ {Current(a)}
BY GiveBackSound DEF IInv, PoolInv, Served

LEMMA PlaceIsCut ==
  ASSUME IInv, NEW a \in Actors, NEW i \in Places(a)
  PROVE  Sound(Cut(pool, i)) /\ Held(Cut(pool, i)) = Held(pool) \ {Current(a)}
BY CutSound DEF IInv, PoolInv, Places

\* Who is elsewhere holds nothing.
LEMMA ElsewhereIsFree ==
  ASSUME IInv, NEW a \in Actors, Elsewhere(a)
  PROVE  Current(a) \notin Held(pool) /\ todo[a] # <<>>
BY DEF Elsewhere, Served, Waits, Places, Held, InLine

LEMMA TailProperties ==
  ASSUME NEW s \in Seq(Uses), s # <<>>
  PROVE  /\ Tail(s) \in Seq(Uses) /\ Len(Tail(s)) = Len(s) - 1
         /\ Len(s) > 1 => Tail(s) # <<>>
<1>1. Len(s) \in Nat /\ Len(s) >= 1
  OBVIOUS
<1>2. Tail(s) \in Seq(Uses)
  OBVIOUS
<1>3. Len(Tail(s)) = Len(s) - 1
  OBVIOUS
<1>4. ASSUME Tail(s) = <<>> PROVE Len(s) = 1
  <2>1. Len(s) - 1 = 0
    BY <1>3, <1>4
  <2> QED BY <1>1, <2>1
<1> QED BY <1>2, <1>3, <1>4

LEMMA PassedOn ==
  ASSUME IInv, NEW c \in Actors, Served(c), Len(todo[c]) > 1,
         todo' = [todo EXCEPT ![c] = Tail(@)],
         pool' = GiveBack(Ask(pool, Lease(c, Len(todo[c]) - 1)), Current(c))
  PROVE  PoolInv' /\ todo' \in [Actors -> Seq(Uses)]
<1> DEFINE l == Lease(c, Len(todo[c]) - 1)
           q == Ask(pool, l)
<1>0. /\ todo[c] \in Seq(Uses) /\ Len(todo[c]) \in Nat /\ Len(todo[c]) - 1 \in Nat \ {0}
      /\ Sound(pool) /\ Current(c) \in pool.out
  <2>1. todo[c] \in Seq(Uses) /\ Len(todo[c]) \in Nat
    BY Lengths DEF IInv
  <2>2. Len(todo[c]) - 1 \in Nat \ {0}
    <3>1. \A n \in Nat : n > 1 => n - 1 \in Nat \ {0}
      OBVIOUS
    <3> QED BY <2>1, <3>1, Zenon
  <2> QED BY <2>1, <2>2 DEF IInv, PoolInv, Served
<1>1. /\ Tail(todo[c]) \in Seq(Uses) /\ Len(Tail(todo[c])) = Len(todo[c]) - 1
      /\ Tail(todo[c]) # <<>>
  BY <1>0, TailProperties DEF Served
<1>2. l \in Leases /\ l # Current(c)
  BY <1>0, Lengths DEF IInv, Current, Lease
<1>3. l \notin Held(pool)
  BY <1>2 DEF IInv, PoolInv, Owned, Lease
<1>4. Sound(q) /\ Held(q) = Held(pool) \cup {l}
  BY <1>0, <1>2, <1>3, AskSound
<1>5. Current(c) \in q.out
  BY <1>0 DEF Ask, Sound, PoolType
<1>6. Sound(pool') /\ Held(pool') = (Held(pool) \cup {l}) \ {Current(c)}
  <2> HIDE DEF q
  <2> QED BY <1>4, <1>5, GiveBackSound DEF q
<1>7. todo' = [todo EXCEPT ![c] = Tail(todo[c])]
  OBVIOUS
<1> QED BY <1>1, <1>2, <1>6, <1>7, Moved

-----------------------------------------------------------------------------
(* The actions *)

LEMMA InitHolds == Init => IInv
<1> SUFFICES ASSUME Init PROVE IInv
  OBVIOUS
<1>1. TypedInv
  BY DEF Init, TypedInv
<1>2. pool.out = {} /\ pool.queue = <<>> /\ pool \in PoolType /\ Held(pool) = {}
  BY DEF Init, PoolType, Held, InLine
<1>3. Sound(pool)
  BY <1>2, FS_EmptySet, ServerAssumption DEF Sound
<1> QED BY <1>1, <1>2, <1>3 DEF IInv, PoolInv, Owned, ShutInv, Init

\* What a route does with the pool.
LEMMA ChainsTyped ==
  ASSUME NEW chain \in Chains \cup {<<"handshake">>, <<"access">>}
  PROVE  chain \in Seq(Uses) \ {<<>>}
<1>1. ASSUME chain \in Chains PROVE chain \in Seq(Uses) \ {<<>>}
  <2>1. chain \in Seq({"authenticate", "role", "handler"}) /\ chain # <<>>
    BY <1>1, ServerAssumption
  <2>2. /\ Len(chain) \in Nat /\ chain = [i \in 1..Len(chain) |-> chain[i]]
        /\ \A i \in 1..Len(chain) : chain[i] \in Uses
    BY <2>1 DEF Uses
  <2> QED BY <2>1, <2>2
<1>2. ASSUME chain \in {<<"handshake">>, <<"access">>} PROVE chain \in Seq(Uses) \ {<<>>}
  <2>1. "handshake" \in Uses /\ "access" \in Uses
    BY DEF Uses
  <2>2. <<"handshake">> \in Seq(Uses) \ {<<>>}
    BY <2>1
  <2>3. <<"access">> \in Seq(Uses) \ {<<>>}
    BY <2>1
  <2> QED BY <1>2, <2>2, <2>3
<1> QED BY <1>1, <1>2

LEMMA MarksTyped ==
  Marks \in Seq(Uses) \ {<<>>} /\ <<"failed">> \in Seq(Uses) \ {<<>>} /\ <<>> \in Seq(Uses)
<1>1. "processing" \in Uses /\ "completed" \in Uses /\ "failed" \in Uses
  BY DEF Uses
<1> QED BY <1>1 DEF Marks

LEMMA ClientHolds ==
  ASSUME IInv, NEW c \in Clients, ClientStep(c)
  PROVE  IInv'
<1> USE DEF Actors
<1>1. ASSUME Accept(c) PROVE IInv'
  BY <1>1 DEF Accept, IInv, TypedInv, PoolInv, Owned, Current, ShutInv
<1>2. ASSUME Request(c) PROVE IInv'
  <2>1. PoolInv' /\ todo' \in [Actors -> Seq(Uses)]
    BY <1>2, ChainsTyped, BeginHolds DEF Request
  <2> QED BY <1>2, <2>1 DEF Request, IInv, TypedInv, ShutInv
<1>3. ASSUME PassOn(c) PROVE IInv'
  <2>1. PoolInv' /\ todo' \in [Actors -> Seq(Uses)]
    BY <1>3, PassedOn DEF PassOn
  <2> QED BY <1>3, <2>1 DEF PassOn, IInv, TypedInv, ShutInv
<1>4. ASSUME Pause(c) PROVE IInv'
  <2>1. Tail(todo[c]) \in Seq(Uses)
    BY <1>4, TailProperties, Lengths DEF Pause, Served, IInv
  <2>2. todo' = [todo EXCEPT ![c] = Tail(todo[c])]
    BY <1>4 DEF Pause
  <2>3. Sound(pool') /\ Held(pool') = Held(pool) \ {Current(c)}
    BY <1>4, ServedGivesBack DEF Pause
  <2>4. PoolInv' /\ todo' \in [Actors -> Seq(Uses)]
    BY <2>1, <2>2, <2>3, FreeHolds
  <2> QED BY <1>4, <2>4 DEF Pause, IInv, TypedInv, ShutInv
<1>5. ASSUME Proceed(c) PROVE IInv'
  <2>1. Current(c) \notin Held(pool) /\ todo[c] \in Seq(Uses) \ {<<>>}
    BY <1>5, ElsewhereIsFree, Lengths DEF Proceed, IInv
  <2>2. CASE Begin(c, todo[c])
    BY <2>1, <2>2, <1>5, BeginHolds DEF Proceed, IInv, TypedInv, ShutInv
  <2>3. CASE todo' = [todo EXCEPT ![c] = <<>>] /\ UNCHANGED pool
    <3>1. Sound(pool') /\ Held(pool') = Held(pool) \ {Current(c)}
      BY <2>1, <2>3 DEF IInv, PoolInv
    <3>2. PoolInv' /\ todo' \in [Actors -> Seq(Uses)]
      BY <2>3, <3>1, MarksTyped, FreeHolds
    <3> QED BY <1>5, <3>2 DEF Proceed, IInv, TypedInv, ShutInv
  <2> QED BY <1>5, <2>2, <2>3 DEF Proceed
<1>6. ASSUME Answer(c) PROVE IInv'
  <2>1. Sound(pool') /\ Held(pool') = Held(pool) \ {Current(c)}
    BY <1>6, ServedGivesBack DEF Answer, End
  <2>2. PoolInv' /\ todo' \in [Actors -> Seq(Uses)]
    BY <1>6, <2>1, MarksTyped, FreeHolds DEF Answer, End
  <2>3. conn' \in [Clients -> {"none", "http", "socket"}]
    BY <1>6 DEF Answer, IInv, TypedInv
  <2> QED BY <1>6, <2>2, <2>3 DEF Answer, IInv, TypedInv, ShutInv
<1>7. ASSUME GiveUp(c) PROVE IInv'
  <2>1. Sound(pool') /\ Held(pool') = Held(pool) \ {Current(c)}
    BY <1>7, PlaceIsCut DEF GiveUp
  <2>2. PoolInv' /\ todo' \in [Actors -> Seq(Uses)]
    BY <1>7, <2>1, MarksTyped, FreeHolds DEF GiveUp
  <2> QED BY <1>7, <2>2 DEF GiveUp, IInv, TypedInv, ShutInv
<1>8. ASSUME Leave(c) PROVE IInv'
  BY <1>8 DEF Leave, IInv, TypedInv, PoolInv, Owned, Current, ShutInv
<1> QED BY <1>1, <1>2, <1>3, <1>4, <1>5, <1>6, <1>7, <1>8 DEF ClientStep, Works

\* w has given up its connection or its place, q, and asks again to mark the row
\* failed (the catch blocks of the workers).
LEMMA AsksAgain ==
  ASSUME IInv, NEW w \in Actors, NEW q, Sound(q), Held(q) = Held(pool) \ {Current(w)},
         todo' = [todo EXCEPT ![w] = <<"failed">>], pool' = Ask(q, Lease(w, 1))
  PROVE  PoolInv' /\ todo' \in [Actors -> Seq(Uses)]
<1> DEFINE l == Lease(w, 1)
<1>1. l \in Leases /\ Len(<<"failed">>) = 1
  BY Lengths DEF IInv
<1>2. l \notin Held(q)
  BY DEF IInv, PoolInv, Owned, Lease
<1>3. Sound(pool') /\ Held(pool') = Held(q) \cup {l}
  BY <1>1, <1>2, AskSound
<1>4. \A x \in Held(pool') : \/ x \in Held(pool) /\ x # Current(w)
                             \/ x = Lease(w, Len(<<"failed">>)) /\ <<"failed">> # <<>>
  BY <1>1, <1>3
<1> QED BY <1>3, <1>4, MarksTyped, Moved

LEMMA ProcessorHolds ==
  ASSUME IInv, NEW w \in Processors, ProcessorStep(w)
  PROVE  IInv'
<1> USE DEF Actors
<1>1. ASSUME PickJob(w) PROVE IInv'
  <2>1. PoolInv' /\ todo' \in [Actors -> Seq(Uses)]
    BY <1>1, MarksTyped, BeginHolds DEF PickJob
  <2> QED BY <1>1, <2>1 DEF PickJob, IInv, TypedInv, ShutInv
<1>2. ASSUME Mark(w) PROVE IInv'
  <2>1. Tail(todo[w]) \in Seq(Uses)
    BY <1>2, TailProperties, Lengths DEF Mark, Served, IInv
  <2>2. todo' = [todo EXCEPT ![w] = Tail(todo[w])]
    BY <1>2 DEF Mark
  <2>3. Sound(pool') /\ Held(pool') = Held(pool) \ {Current(w)}
    BY <1>2, ServedGivesBack DEF Mark
  <2>4. PoolInv' /\ todo' \in [Actors -> Seq(Uses)]
    BY <2>1, <2>2, <2>3, FreeHolds
  <2>5. attended' \subseteq attended
    BY <1>2 DEF Mark
  <2> QED BY <1>2, <2>4, <2>5 DEF Mark, IInv, TypedInv, ShutInv
<1>3. ASSUME TaskEnds(w) PROVE IInv'
  <2>1. Current(w) \notin Held(pool) /\ todo[w] \in Seq(Uses) \ {<<>>}
    BY <1>3, ElsewhereIsFree, Lengths DEF TaskEnds, IInv
  <2>2. PoolInv' /\ todo' \in [Actors -> Seq(Uses)]
    BY <1>3, <2>1, MarksTyped, BeginHolds DEF TaskEnds
  <2> QED BY <1>3, <2>2 DEF TaskEnds, IInv, TypedInv, ShutInv
<1>4. ASSUME MarkGivesUp(w) PROVE IInv'
  <2> PICK i \in Places(w) :
        IF todo[w] = <<"failed">>
        THEN /\ todo' = [todo EXCEPT ![w] = <<>>]
             /\ pool' = Cut(pool, i)
             /\ attended' = attended \ {w}
        ELSE /\ todo' = [todo EXCEPT ![w] = <<"failed">>]
             /\ pool' = Ask(Cut(pool, i), Lease(w, 1))
             /\ UNCHANGED attended
    BY <1>4 DEF MarkGivesUp
  <2>1. Sound(Cut(pool, i)) /\ Held(Cut(pool, i)) = Held(pool) \ {Current(w)}
    BY PlaceIsCut
  <2>2. PoolInv' /\ todo' \in [Actors -> Seq(Uses)]
    <3>1. CASE todo[w] = <<"failed">>
      BY <2>1, <3>1, MarksTyped, FreeHolds
    <3>2. CASE todo[w] # <<"failed">>
      BY <2>1, <3>2, AsksAgain
    <3> QED BY <3>1, <3>2
  <2>3. attended' \subseteq attended
    OBVIOUS
  <2> QED BY <1>4, <2>2, <2>3 DEF MarkGivesUp, IInv, TypedInv, ShutInv
<1>5. ASSUME JobTimesOut(w) PROVE IInv'
  BY <1>5 DEF JobTimesOut, IInv, TypedInv, PoolInv, Owned, Current, ShutInv
<1>6. ASSUME MarkFails(w) PROVE IInv'
  <2>1. /\ Sound(GiveBack(pool, Current(w)))
        /\ Held(GiveBack(pool, Current(w))) = Held(pool) \ {Current(w)}
    BY <1>6, ServedGivesBack DEF MarkFails
  <2>2. PoolInv' /\ todo' \in [Actors -> Seq(Uses)]
    BY <1>6, <2>1, AsksAgain DEF MarkFails
  <2> QED BY <1>6, <2>2 DEF MarkFails, IInv, TypedInv, ShutInv
<1> QED BY <1>1, <1>2, <1>3, <1>4, <1>5, <1>6 DEF ProcessorStep

\* The pool of a process that is not there.
LEMMA EmptyPool ==
  ASSUME pool' = [out |-> {}, queue |-> <<>>]
  PROVE  PoolInv'
<1>1. pool'.out = {} /\ pool'.queue = <<>> /\ pool' \in PoolType /\ Held(pool') = {}
  BY DEF PoolType, Held, InLine
<1>2. Sound(pool')
  BY <1>1, FS_EmptySet, ServerAssumption DEF Sound
<1> QED BY <1>1, <1>2 DEF PoolInv, Owned

LEMMA StepHolds == IInv /\ [Next]_vars => IInv'
<1> SUFFICES ASSUME IInv, [Next]_vars PROVE IInv'
  OBVIOUS
<1>1. ASSUME UNCHANGED vars PROVE IInv'
  BY <1>1 DEF vars, IInv, TypedInv, PoolInv, Owned, Current, ShutInv
<1>2. ASSUME Signal PROVE IInv'
  BY <1>2 DEF Signal, IInv, TypedInv, PoolInv, Owned, Current, ShutInv
<1>3. ASSUME CloseServer PROVE IInv'
  BY <1>3 DEF CloseServer, IInv, TypedInv, PoolInv, Owned, Current, ShutInv
<1>4. ASSUME Exit PROVE IInv'
  BY <1>4, EmptyPool, MarksTyped DEF Exit, IInv, TypedInv, ShutInv
<1>5. ASSUME Die PROVE IInv'
  BY <1>5, EmptyPool, MarksTyped DEF Die, IInv, TypedInv, ShutInv
<1>6. ASSUME Restart PROVE IInv'
  BY <1>6 DEF Restart, IInv, TypedInv, PoolInv, Owned, Current, ShutInv
<1> QED BY <1>1, <1>2, <1>3, <1>4, <1>5, <1>6, ClientHolds, ProcessorHolds DEF Next

LEMMA Invariant == Spec => []IInv
BY InitHolds, StepHolds, PTL DEF Spec

-----------------------------------------------------------------------------
(* Theorems *)

\* The state of a server process is well typed, whatever routes it serves and
\* however many clients and jobs there are.
THEOREM TypeCorrect == Spec => []TypeOK
<1>1. IInv => TypeOK
  BY DEF IInv, TypedInv, PoolInv, Sound, PoolType, TypeOK
<1> QED BY <1>1, Invariant, PTL

\* The pool hands out no more connections than it has, lets nobody wait while
\* one is left, and nobody has or awaits two, although next() is called with one
\* still out (auth.middleware.js:41).
THEOREM PoolSound == Spec => []PoolIsSound
<1>1. IInv => PoolIsSound
  <2> SUFFICES ASSUME IInv PROVE PoolIsSound
    OBVIOUS
  <2>1. \A i \in DOMAIN pool.queue : pool.queue[i] \in Held(pool) /\ pool.queue[i] \notin pool.out
    BY DEF IInv, PoolInv, Sound, Held, InLine
  <2>2. \A l \in pool.out : l \in Held(pool)
    BY DEF Held
  <2> QED BY <2>1, <2>2 DEF IInv, PoolInv, Sound, Owned, PoolIsSound
<1> QED BY <1>1, Invariant, PTL

\* When the process exits, Bull waits for no job any more and no client still
\* connected for its answer (server.js:44).
THEOREM ExitsGracefully == Spec => GracefulExit
<1>1. IInv /\ [Next]_vars =>
        [phase = "closing" /\ phase' = "exited" =>
           attended = {} /\ \A c \in Clients : conn[c] # "none" => todo[c] = <<>>]_vars
  <2> SUFFICES ASSUME IInv, Next, phase = "closing", phase' = "exited"
               PROVE  attended = {} /\ \A c \in Clients : conn[c] # "none" => todo[c] = <<>>
    OBVIOUS
  <2>1. attended = {}
    BY DEF IInv, ShutInv
  <2>2. Exit
    BY DEF Next, ClientStep, Works, ProcessorStep, Accept, Request, PassOn, Pause, Proceed, Answer,
           GiveUp, Leave, PickJob, Mark, MarkFails, TaskEnds, MarkGivesUp, JobTimesOut, Signal,
           CloseServer, Die, Restart
  <2> QED BY <2>1, <2>2 DEF Exit
<1> QED BY <1>1, Invariant, PTL DEF Spec, GracefulExit
=============================================================================
