----------------------------- MODULE DeliveryProofs -----------------------------
(***************************************************************************)
(* Proofs about the way of an event to the connections of a user, for any  *)
(* number of connections, nodes, events and faults.                        *)
(***************************************************************************)
EXTENDS Delivery, FiniteSetTheorems, TLAPS

USE NodesAssumption

-------------------------------------------------------------------------------
(* Sequences without repetitions.                                          *)

Distinct(s) == \A j, k \in DOMAIN s : s[j] = s[k] => j = k
Elements(s) == {s[k] : k \in DOMAIN s}

LEMMA NoElements == Elements(<< >>) = {} /\ Distinct(<< >>)
  BY DEF Elements, Distinct

\* Dropping the head takes just it away.
LEMMA TailElements ==
  ASSUME NEW S, NEW s \in Seq(S), s # << >>, Distinct(s)
  PROVE  /\ Tail(s) \in Seq(S) /\ Distinct(Tail(s))
         /\ Elements(Tail(s)) = Elements(s) \ {Head(s)}
         /\ Head(s) \in S /\ Head(s) \in Elements(s)
  <1>1. /\ Tail(s) \in Seq(S) /\ Len(Tail(s)) = Len(s) - 1 /\ Len(s) \in Nat \ {0}
        /\ \A k \in 1 .. Len(s) - 1 : Tail(s)[k] = s[k + 1]
        /\ DOMAIN s = 1 .. Len(s) /\ DOMAIN Tail(s) = 1 .. Len(s) - 1
        /\ Head(s) = s[1]
    OBVIOUS
  <1>2. Distinct(Tail(s))
    BY <1>1 DEF Distinct
  <1>3. ASSUME NEW x \in Elements(Tail(s))
        PROVE  x \in Elements(s) \ {Head(s)}
    <2>1. PICK k \in 1 .. Len(s) - 1 : x = s[k + 1]
      BY <1>1 DEF Elements
    <2>2. k + 1 \in DOMAIN s /\ 1 \in DOMAIN s /\ k + 1 # 1
      BY <1>1, <2>1
    <2> QED
      BY <1>1, <2>1, <2>2 DEF Elements, Distinct
  <1>4. ASSUME NEW x \in Elements(s) \ {Head(s)}
        PROVE  x \in Elements(Tail(s))
    <2>1. PICK k \in 1 .. Len(s) : x = s[k]
      BY <1>1 DEF Elements
    <2>2. k # 1
      BY <1>1, <2>1
    <2>3. k - 1 \in 1 .. Len(s) - 1 /\ (k - 1) + 1 = k
      BY <1>1, <2>1, <2>2
    <2> QED
      BY <1>1, <2>1, <2>3 DEF Elements
  <1>5. Head(s) \in S /\ Head(s) \in Elements(s)
    BY <1>1 DEF Elements
  <1> QED
    BY <1>1, <1>2, <1>3, <1>4, <1>5

\* Appending what is new keeps it so.
LEMMA AppendElements ==
  ASSUME NEW S, NEW s \in Seq(S), NEW x \in S, Distinct(s), x \notin Elements(s)
  PROVE  /\ Append(s, x) \in Seq(S) /\ Distinct(Append(s, x))
         /\ Elements(Append(s, x)) = Elements(s) \union {x}
  <1>1. /\ Append(s, x) \in Seq(S) /\ Len(s) \in Nat
        /\ DOMAIN s = 1 .. Len(s) /\ DOMAIN Append(s, x) = 1 .. Len(s) + 1
        /\ \A k \in 1 .. Len(s) : Append(s, x)[k] = s[k]
        /\ Append(s, x)[Len(s) + 1] = x
    OBVIOUS
  <1>2. Distinct(Append(s, x))
    BY <1>1 DEF Distinct, Elements
  <1>3. Elements(Append(s, x)) = Elements(s) \union {x}
    BY <1>1 DEF Elements
  <1> QED
    BY <1>1, <1>2, <1>3

\* SetToSeqs has the orders of a finite set.
LEMMA OrdersDistinct ==
  ASSUME NEW S, IsFiniteSet(S), NEW s \in SetToSeqs(S)
  PROVE  s \in Seq(S) /\ Distinct(s)
  <1>1. Cardinality(S) \in Nat
    BY FS_CardinalityType
  <1>2. s \in [1 .. Cardinality(S) -> S]
        /\ \A j, k \in 1 .. Cardinality(S) : j # k => s[j] # s[k]
    BY DEF SetToSeqs
  <1>3. s \in Seq(S)
    BY <1>1, <1>2
  <1>4. Distinct(s)
    BY <1>2 DEF Distinct
  <1> QED
    BY <1>3, <1>4

-------------------------------------------------------------------------------
(* The registry.                                                           *)

Steps == {"new", "sadd", "expire", "open", "srem", "scard", "del", "remove", "gone",
          "leaked", "torn"}

ConnTypeOK ==
  /\ at \in [Conns -> Steps]
  /\ node \in [Conns -> Nodes \union {NoNode}]
  /\ \A c \in Conns : at[c] # "new" => node[c] \in Nodes
  /\ registry \subseteq Conns /\ local \subseteq Conns
  /\ \A c \in registry \union local : at[c] # "new"
  /\ up \subseteq Nodes /\ listening \subseteq Nodes

\* A connection that must be in the registry.
Owed(c) == at[c] \in {"expire", "open"} /\ c \notin exposed \union suspended

\* Whoever goes on to DEL found the set empty, and who joins it since is exposed.
RegistryHolds ==
  /\ \A c \in Conns : Owed(c) => c \in registry
  /\ (\E d \in Conns : at[d] = "del") => \A c \in Conns : ~ Owed(c)

ConnInv == ConnTypeOK /\ RegistryHolds

LEMMA ConnInitInv == Init => ConnInv
  BY DEF Init, ConnInv, ConnTypeOK, RegistryHolds, Owed, Steps

LEMMA HandlerInv ==
  ASSUME ConnInv, NEW c \in Conns,
         \/ \E n \in Nodes : Accept(c, n)
         \/ ConnStep(c) \/ Disconnect(c) \/ Suspend(c) \/ RedisFails(c)
  PROVE  ConnInv'
  <1> USE DEF ConnInv, ConnTypeOK, RegistryHolds, Owed, Steps, Go, Keep, redisVars, nodeVars,
              connVars, fanVars
  <1>1. CASE \E n \in Nodes : Accept(c, n)
    <2>1. PICK n \in Nodes : Accept(c, n)
      BY <1>1
    <2>2. ConnTypeOK'
      BY <2>1 DEF Accept
    <2>3. RegistryHolds'
      BY <2>1 DEF Accept
    <2> QED
      BY <2>2, <2>3
  <1>2. CASE Sadd(c)
    <2>1. ConnTypeOK'
      BY <1>2 DEF Sadd
    <2>2. /\ registry' = registry \union {c} /\ suspended' = suspended
          /\ exposed \subseteq exposed'
          /\ (\E d \in Conns : at[d] = "del") => c \in exposed'
          /\ at[c] = "sadd" /\ at' = [at EXCEPT ![c] = "expire"]
      BY <1>2 DEF Sadd
    <2>3. RegistryHolds'
      BY <2>2
    <2> QED
      BY <2>1, <2>3
  <1>3. CASE SetExpiry(c)
    BY <1>3 DEF SetExpiry
  <1>4. CASE Srem(c)
    BY <1>4 DEF Srem
  <1>5. CASE Scard(c)
    <2>1. ConnTypeOK'
      BY <1>5 DEF Scard
    <2>2. RegistryHolds'
      BY <1>5 DEF Scard
    <2> QED
      BY <2>1, <2>2
  <1>6. CASE Del(c)
    BY <1>6 DEF Del
  <1>7. CASE RemoveLocal(c)
    BY <1>7 DEF RemoveLocal
  <1>8. CASE Disconnect(c)
    BY <1>8 DEF Disconnect
  <1>9. CASE Suspend(c)
    BY <1>9 DEF Suspend
  <1>10. CASE RedisFails(c)
    BY <1>10 DEF RedisFails
  <1> QED
    BY <1>1, <1>2, <1>3, <1>4, <1>5, <1>6, <1>7, <1>8, <1>9, <1>10 DEF ConnStep

LEMMA NodeInv ==
  ASSUME ConnInv, Expire \/ \E n \in Nodes : NodeDies(n) \/ ListenerFails(n) \/ Deliver(n)
  PROVE  ConnInv'
  <1> USE DEF ConnInv, ConnTypeOK, RegistryHolds, Owed, Steps, Keep, redisVars, nodeVars,
              connVars, fanVars
  <1>1. CASE Expire
    BY <1>1 DEF Expire
  <1>2. ASSUME NEW n \in Nodes, NodeDies(n)
        PROVE  ConnInv'
    <2>1. /\ \A c \in Conns : at'[c] = at[c] \/ at'[c] \in {"torn", "gone"}
          /\ at' \in [Conns -> Steps]
          /\ \A c \in Conns : at[c] = "new" /\ at'[c] # "new" => node[c] \in Nodes
          /\ local' \subseteq local /\ up' \subseteq up /\ listening' \subseteq listening
          /\ UNCHANGED <<registry, node, suspended, exposed>>
      BY <1>2 DEF NodeDies
    <2> QED
      BY <2>1
  <1>3. ASSUME NEW n \in Nodes, ListenerFails(n)
        PROVE  ConnInv'
    BY <1>3 DEF ListenerFails
  <1>4. ASSUME NEW n \in Nodes, Deliver(n)
        PROVE  ConnInv'
    <2>1. local' \subseteq local
          /\ UNCHANGED <<registry, at, node, suspended, exposed, up, listening>>
      BY <1>4 DEF Deliver
    <2> QED
      BY <2>1
  <1> QED
    BY <1>1, <1>2, <1>3, <1>4

LEMMA ConnNextInv == ConnInv /\ [Next]_vars => ConnInv'
  <1> SUFFICES ASSUME ConnInv, [Next]_vars PROVE ConnInv'
    OBVIOUS
  <1> USE DEF redisVars, nodeVars, connVars, fanVars
  <1>1. CASE UNCHANGED <<registry, at, node, local, suspended, exposed, up, listening>>
    BY <1>1 DEF ConnInv, ConnTypeOK, RegistryHolds, Owed
  <1>2. CASE UNCHANGED vars
    BY <1>1, <1>2 DEF vars
  <1>3. CASE \E e \in Events : Emit(e) \/ Lookup(e) \/ Publish(e) \/ PublishFails(e)
    BY <1>1, <1>3 DEF Emit, Lookup, Publish, PublishFails
  <1> QED
    BY <1>2, <1>3, HandlerInv, NodeInv DEF Next

\* A connection that must be in the registry is, in every reachable state.
THEOREM ConnInvariance == Spec => []ConnInv
  BY ConnInitInv, ConnNextInv, PTL DEF Spec

\* A connection answered with auth.ok is in the registry while it lasts, whatever
\* the user's other connections and nodes do, but for the exceptions named.
THEOREM RegisteredWhileOpen == Spec => []Findable
  <1>1. ConnInv => Findable
    BY DEF ConnInv, RegistryHolds, Owed, Findable
  <1> QED
    BY <1>1, ConnInvariance, PTL

-------------------------------------------------------------------------------
(* Events.                                                                 *)

Registered == {node[c] : c \in registry}

FanTypeOK ==
  /\ fan \in [Events -> {"new", "lookup", "publish"}]
  /\ route \in [Events -> Seq(Nodes)]
  /\ channel \in [Nodes -> Seq(Events)]
  /\ got \in [Conns -> [Events -> Nat]]
  /\ IsFiniteSet(Registered)

\* An event is on its way to a node, in the node's channel, or delivered there.
Unique ==
  /\ \A e \in Events : Distinct(route[e])
  /\ \A n \in Nodes : Distinct(channel[n])
  /\ \A n \in Nodes, e \in Events :
       e \in Elements(channel[n]) => fan[e] = "publish" /\ n \notin Elements(route[e])
  /\ \A c \in Conns, e \in Events :
       \/ got[c][e] = 0
       \/ /\ got[c][e] = 1 /\ fan[e] = "publish" /\ at[c] # "new"
          /\ node[c] \notin Elements(route[e]) /\ e \notin Elements(channel[node[c]])

FanInv == ConnTypeOK /\ FanTypeOK /\ Unique

LEMMA FanInitInv == Init => FanInv
  <1> SUFFICES ASSUME Init PROVE FanInv
    OBVIOUS
  <1>1. ConnTypeOK
    BY ConnInitInv DEF ConnInv
  <1>2. Registered = {}
    BY DEF Init, Registered
  <1>3. FanTypeOK
    BY <1>2, FS_EmptySet DEF Init, FanTypeOK
  <1>4. Unique
    BY NoElements DEF Init, Unique
  <1> QED
    BY <1>1, <1>3, <1>4 DEF FanInv

\* Steps of connections leave events alone, and one that is new has got none.
LEMMA ConnStepFan ==
  ASSUME FanInv, ConnTypeOK', UNCHANGED <<fan, route, channel, got>>,
         \A c \in Conns : at[c] # "new" => at'[c] # "new" /\ node'[c] = node[c],
         IsFiniteSet(Registered')
  PROVE  FanInv'
  BY DEF FanInv, FanTypeOK, Unique, ConnTypeOK

LEMMA RegisteredFinite ==
  ASSUME ConnTypeOK, IsFiniteSet(Registered),
         \A c \in registry : node'[c] = node[c],
         registry' \subseteq registry
         \/ \E c \in Conns : registry' = registry \union {c} /\ node' = node
  PROVE  IsFiniteSet(Registered')
  <1>1. CASE registry' \subseteq registry
    <2>1. Registered' \subseteq Registered
      BY <1>1 DEF Registered
    <2> QED
      BY <2>1, FS_Subset
  <1>2. CASE \E c \in Conns : registry' = registry \union {c} /\ node' = node
    <2>1. PICK c \in Conns : registry' = registry \union {c} /\ node' = node
      BY <1>2
    <2>2. Registered' = Registered \union {node[c]}
      BY <2>1 DEF Registered
    <2> QED
      BY <2>2, FS_AddElement
  <1> QED
    BY <1>1, <1>2

LEMMA HandlerFan ==
  ASSUME FanInv, ConnTypeOK', NEW c \in Conns,
         \/ \E n \in Nodes : Accept(c, n)
         \/ ConnStep(c) \/ Disconnect(c) \/ Suspend(c) \/ RedisFails(c)
  PROVE  FanInv'
  <1> USE DEF Go, Keep, redisVars, nodeVars, connVars, fanVars
  <1>0. ConnTypeOK /\ IsFiniteSet(Registered)
    BY DEF FanInv, FanTypeOK
  <1>1. UNCHANGED <<fan, route, channel, got>>
    BY DEF Accept, ConnStep, Sadd, SetExpiry, Srem, Scard, Del, RemoveLocal, Disconnect,
           Suspend, RedisFails
  <1>2. ASSUME NEW d \in Conns, at[d] # "new"
        PROVE  at'[d] # "new" /\ node'[d] = node[d]
    BY <1>0, <1>2
       DEF ConnTypeOK, Accept, ConnStep, Sadd, SetExpiry, Srem, Scard, Del, RemoveLocal,
           Disconnect, Suspend, RedisFails
  <1>3. \A d \in registry : node'[d] = node[d]
    BY <1>0, <1>2 DEF ConnTypeOK
  <1>4. \/ registry' \subseteq registry
        \/ registry' = registry \union {c} /\ node' = node
    BY DEF Accept, ConnStep, Sadd, SetExpiry, Srem, Scard, Del, RemoveLocal, Disconnect,
           Suspend, RedisFails
  <1>5. IsFiniteSet(Registered')
    BY <1>0, <1>3, <1>4, RegisteredFinite
  <1> QED
    BY <1>1, <1>2, <1>5, ConnStepFan

LEMMA ExpireFan == FanInv /\ ConnTypeOK' /\ Expire => FanInv'
  <1> SUFFICES ASSUME FanInv, ConnTypeOK', Expire PROVE FanInv'
    OBVIOUS
  <1> USE DEF Keep, redisVars, nodeVars, connVars, fanVars
  <1>1. registry' = {} /\ UNCHANGED <<at, node, fan, route, channel, got>>
    BY DEF Expire
  <1>2. IsFiniteSet(Registered')
    BY <1>1, RegisteredFinite DEF FanInv, FanTypeOK
  <1> QED
    BY <1>1, <1>2, ConnStepFan

LEMMA LostFan ==
  ASSUME FanInv, ConnTypeOK', NEW n \in Nodes, NodeDies(n) \/ ListenerFails(n)
  PROVE  FanInv'
  <1> USE DEF redisVars, nodeVars, connVars, fanVars, FanInv, FanTypeOK, ConnTypeOK
  <1>1. channel' = [channel EXCEPT ![n] = << >>]
        /\ UNCHANGED <<registry, node, fan, route, got>>
    BY DEF NodeDies, ListenerFails
  <1>2. \A c \in Conns : at[c] # "new" => at'[c] # "new"
    BY DEF NodeDies, ListenerFails
  <1>3. FanTypeOK'
    BY <1>1 DEF Registered
  <1>4. Unique'
    <2>1. \A m \in Nodes : Distinct(channel'[m])
          /\ Elements(channel'[m]) \subseteq Elements(channel[m])
      BY <1>1, NoElements DEF Unique
    <2> QED
      BY <1>1, <1>2, <2>1 DEF Unique
  <1> QED
    BY <1>3, <1>4

LEMMA RouteFan ==
  ASSUME FanInv, ConnTypeOK', NEW e \in Events, Emit(e) \/ Lookup(e) \/ PublishFails(e)
  PROVE  FanInv'
  <1> USE DEF redisVars, nodeVars, connVars, fanVars, FanInv, FanTypeOK
  <1>1. CASE Emit(e)
    <2>1. fan[e] = "new" /\ fan' = [fan EXCEPT ![e] = "lookup"]
          /\ UNCHANGED <<registry, at, node, route, channel, got>>
      BY <1>1 DEF Emit
    <2>2. FanTypeOK'
      BY <2>1 DEF Registered
    <2>3. Unique'
      BY <2>1 DEF Unique
    <2> QED
      BY <2>2, <2>3
  <1>2. CASE Lookup(e) \/ PublishFails(e)
    <2>1. PICK s : /\ route' = [route EXCEPT ![e] = s]
                   /\ \/ s = << >>
                      \/ s \in SetToSeqs(Registered) /\ fan[e] = "lookup"
      <3>1. ASSUME Lookup(e)
            PROVE  \E s \in SetToSeqs(Registered) : route' = [route EXCEPT ![e] = s]
        BY <3>1 DEF Lookup, Routes, Registered
      <3>2. Lookup(e) => fan[e] = "lookup"
        BY DEF Lookup
      <3>3. PublishFails(e) => route' = [route EXCEPT ![e] = << >>]
        BY DEF PublishFails
      <3> QED
        BY <1>2, <3>1, <3>2, <3>3
    <2>2. fan' = [fan EXCEPT ![e] = "publish"]
          /\ UNCHANGED <<registry, at, node, channel, got>>
      BY <1>2 DEF Lookup, PublishFails
    <2>3. s \in Seq(Nodes) /\ Distinct(s)
      <3>1. Registered \subseteq Nodes
        BY DEF Registered, ConnTypeOK
      <3>2. CASE s = << >>
        BY <3>2, NoElements
      <3>3. CASE s \in SetToSeqs(Registered)
        <4>1. s \in Seq(Registered) /\ Distinct(s)
          BY <3>3, OrdersDistinct
        <4>2. s \in Seq(Nodes)
          BY <3>1, <4>1
        <4> QED
          BY <4>1, <4>2
      <3> QED
        BY <2>1, <3>2, <3>3
    <2>4. FanTypeOK'
      BY <2>1, <2>2, <2>3 DEF Registered
    <2>5. fan[e] = "lookup" \/ s = << >>
      BY <2>1
    <2>6. Unique'
      BY <2>1, <2>2, <2>3, <2>5, NoElements DEF Unique
    <2> QED
      BY <2>4, <2>6
  <1> QED
    BY <1>1, <1>2

LEMMA PublishFan ==
  ASSUME FanInv, ConnTypeOK', NEW e \in Events, Publish(e)
  PROVE  FanInv'
  <1> USE DEF redisVars, nodeVars, connVars, fanVars, FanInv, FanTypeOK
  <1> DEFINE n == Head(route[e])
  <1>1. /\ fan[e] = "publish" /\ route[e] # << >>
        /\ route' = [route EXCEPT ![e] = Tail(@)]
        /\ channel' = IF n \in listening THEN [channel EXCEPT ![n] = Append(@, e)]
                      ELSE channel
        /\ UNCHANGED <<registry, at, node, fan, got>>
    BY DEF Publish
  <1>2. /\ Tail(route[e]) \in Seq(Nodes) /\ Distinct(Tail(route[e]))
        /\ Elements(Tail(route[e])) = Elements(route[e]) \ {n}
        /\ n \in Nodes /\ n \in Elements(route[e])
    BY <1>1, TailElements DEF Unique
  <1>3. e \notin Elements(channel[n])
    BY <1>2 DEF Unique
  <1>4. /\ Append(channel[n], e) \in Seq(Events) /\ Distinct(Append(channel[n], e))
        /\ Elements(Append(channel[n], e)) = Elements(channel[n]) \union {e}
    BY <1>2, <1>3, AppendElements DEF Unique
  <1> HIDE DEF n
  <1>5. FanTypeOK'
    BY <1>1, <1>2, <1>4 DEF Registered
  <1>6. \A m \in Nodes : /\ Distinct(channel'[m])
                         /\ Elements(channel'[m]) \subseteq Elements(channel[m]) \union {e}
                         /\ m # n => channel'[m] = channel[m]
    BY <1>1, <1>2, <1>4 DEF Unique
  <1>7. \A f \in Events : /\ Distinct(route'[f])
                          /\ Elements(route'[f]) \subseteq Elements(route[f])
                          /\ f = e => n \notin Elements(route'[f])
    BY <1>1, <1>2 DEF Unique
  <1>8. ASSUME NEW m \in Nodes, NEW f \in Events, f \in Elements(channel'[m])
        PROVE  fan[f] = "publish" /\ m \notin Elements(route'[f])
    <2>1. CASE f \in Elements(channel[m])
      BY <1>7, <2>1 DEF Unique
    <2>2. CASE f = e /\ m = n
      BY <1>1, <1>7, <2>2
    <2> QED
      BY <1>6, <1>8, <2>1, <2>2
  <1>9. ASSUME NEW c \in Conns, NEW f \in Events, got[c][f] # 0
        PROVE  /\ got[c][f] = 1 /\ fan[f] = "publish" /\ at[c] # "new"
               /\ node[c] \notin Elements(route'[f]) /\ f \notin Elements(channel'[node[c]])
    <2>1. /\ got[c][f] = 1 /\ fan[f] = "publish" /\ at[c] # "new"
          /\ node[c] \notin Elements(route[f]) /\ f \notin Elements(channel[node[c]])
          /\ node[c] \in Nodes
      BY <1>9 DEF Unique, ConnTypeOK
    <2>2. f = e => node[c] # n
      BY <1>2, <2>1
    <2> QED
      BY <1>6, <1>7, <2>1, <2>2
  <1>10. Unique'
    BY <1>1, <1>6, <1>7, <1>8, <1>9 DEF Unique
  <1> QED
    BY <1>5, <1>10

LEMMA DeliverFan ==
  ASSUME FanInv, ConnTypeOK', NEW n \in Nodes, Deliver(n)
  PROVE  FanInv'
  <1> USE DEF redisVars, nodeVars, connVars, fanVars, FanInv, FanTypeOK
  <1> DEFINE e == Head(channel[n])
  <1>1. /\ channel[n] # << >> /\ channel' = [channel EXCEPT ![n] = Tail(@)]
        /\ UNCHANGED <<registry, at, node, fan, route>>
    BY DEF Deliver
  <1>2. PICK to \in SUBSET {c \in local : node[c] = n} :
          /\ \A c \in to : at[c] # "new"
          /\ got' = [c \in Conns |-> IF c \in to THEN [got[c] EXCEPT ![e] = @ + 1] ELSE got[c]]
    <2> DEFINE to == {c \in local : node[c] = n /\ Connected(c)}
    <2>1. to \in SUBSET {c \in local : node[c] = n} /\ \A c \in to : at[c] # "new"
      BY DEF Connected
    <2>2. got' = [c \in Conns |-> IF c \in to THEN [got[c] EXCEPT ![e] = @ + 1] ELSE got[c]]
      BY DEF Deliver
    <2> QED
      BY <2>1, <2>2
  <1>3. /\ Tail(channel[n]) \in Seq(Events) /\ Distinct(Tail(channel[n]))
        /\ Elements(Tail(channel[n])) = Elements(channel[n]) \ {e}
        /\ e \in Events /\ e \in Elements(channel[n])
    BY <1>1, TailElements DEF Unique
  <1> HIDE DEF e
  <1>4. \A c \in Conns, f \in Events :
          got'[c][f] = IF c \in to /\ f = e THEN got[c][f] + 1 ELSE got[c][f]
    BY <1>2, <1>3
  <1>5. FanTypeOK'
    BY <1>1, <1>2, <1>3 DEF Registered
  <1>6. \A m \in Nodes : /\ Distinct(channel'[m])
                         /\ Elements(channel'[m]) \subseteq Elements(channel[m])
    BY <1>1, <1>3 DEF Unique
  <1>7. e \notin Elements(channel'[n])
    BY <1>1, <1>3
  <1>8. ASSUME NEW c \in Conns, NEW f \in Events, got'[c][f] # 0
        PROVE  /\ got'[c][f] = 1 /\ fan[f] = "publish" /\ at[c] # "new"
               /\ node[c] \notin Elements(route[f]) /\ f \notin Elements(channel'[node[c]])
    <2>1. CASE c \in to /\ f = e
      <3>1. node[c] = n /\ at[c] # "new"
        BY <1>2, <2>1
      <3>2. got[c][e] = 0 /\ fan[e] = "publish" /\ n \notin Elements(route[e])
        BY <1>3, <3>1 DEF Unique
      <3> QED
        BY <1>4, <1>7, <2>1, <3>1, <3>2
    <2>2. CASE ~ (c \in to /\ f = e)
      <3>1. /\ got[c][f] = 1 /\ fan[f] = "publish" /\ at[c] # "new"
            /\ node[c] \notin Elements(route[f]) /\ f \notin Elements(channel[node[c]])
            /\ node[c] \in Nodes
        BY <1>4, <1>8, <2>2 DEF Unique, ConnTypeOK
      <3> QED
        BY <1>4, <1>6, <2>2, <3>1
    <2> QED
      BY <2>1, <2>2
  <1>9. Unique'
    BY <1>1, <1>6, <1>8 DEF Unique
  <1> QED
    BY <1>5, <1>9

LEMMA FanNextInv == FanInv /\ ConnTypeOK' /\ [Next]_vars => FanInv'
  <1> SUFFICES ASSUME FanInv, ConnTypeOK', [Next]_vars PROVE FanInv'
    OBVIOUS
  <1>1. CASE UNCHANGED vars
    BY <1>1 DEF vars, FanInv, FanTypeOK, Unique, Registered
  <1> QED
    BY <1>1, HandlerFan, ExpireFan, LostFan, RouteFan, PublishFan, DeliverFan DEF Next

\* Where an event is, it is once, in every reachable state.
THEOREM FanInvariance == Spec => []FanInv
  <1>1. ConnInv => ConnTypeOK
    BY DEF ConnInv
  <1> QED
    BY <1>1, ConnInvariance, FanInitInv, FanNextInv, PTL DEF Spec

\* No connection is sent an event twice, however many connections the user has on
\* its node and however stale the registry is.
THEOREM AtMostOnce == Spec => []DeliveredOnce
  <1>1. FanInv => DeliveredOnce
    BY DEF FanInv, FanTypeOK, Unique, DeliveredOnce
  <1> QED
    BY <1>1, FanInvariance, PTL

===============================================================================
