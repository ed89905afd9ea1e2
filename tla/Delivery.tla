-------------------------------- MODULE Delivery --------------------------------
(***************************************************************************)
(* From a published event to the WebSocket connections of one user: the    *)
(* gateway's connections, the Redis registry that says which nodes hold    *)
(* them, and the fan-out that asks it.                                     *)
(*                                                                         *)
(* The registry is one Redis set per user.  A call to Redis is an action:  *)
(* registering is SADD, then EXPIRE; unregistering is SREM, SCARD and, if  *)
(* nothing is left, DEL.  Every connection has an id of its own, so Conns  *)
(* are used once; so are Nodes, whose node_id is random.                   *)
(*                                                                         *)
(* An event for a user not registered goes to the retry stream, wrapped    *)
(* with no target users: its worker delivers it to nobody and it is left   *)
(* out.                                                                    *)
(***************************************************************************)
EXTENDS Naturals, Sequences, FiniteSets, SequencesExt

CONSTANTS
  Conns, Nodes, Events,
  NoNode,
  MaxFaults                 \* bound on nodes that die and on failing calls

ASSUME NodesAssumption == NoNode \notin Nodes
ASSUME FaultsAssumption == MaxFaults \in Nat

VARIABLES
  registry, ttl,            \* the set's members; whether it has an expiry
  up, listening,            \* nodes that run; that read their channel
  at, node,                 \* each connection: its handler's step ("leaked": over,
                            \* but still in the manager; "torn": its node died
                            \* between SADD and EXPIRE), its node
  local,                    \* ConnectionManager of all nodes
  suspended,                \* connections whose client stopped pinging
  exposed,                  \* history: connections that registered too close to
                            \* a DEL or to the key's expiry
  fan, route,               \* each event: where its fan-out is, nodes to go
  channel,                  \* each node: published events it has not handled
  got,                      \* how often each connection was sent each event
  faults

redisVars == <<registry, ttl>>
nodeVars == <<up, listening>>
connVars == <<at, node, local>>
fanVars == <<fan, route, channel, got>>
vars == <<registry, ttl, up, listening, at, node, local, suspended, exposed, fan,
          route, channel, got, faults>>

Init ==
  /\ registry = {}
  /\ ttl = FALSE
  /\ up = Nodes
  /\ listening = Nodes
  /\ at = [c \in Conns |-> "new"]
  /\ node = [c \in Conns |-> NoNode]
  /\ local = {}
  /\ suspended = {}
  /\ exposed = {}
  /\ fan = [e \in Events |-> "new"]
  /\ route = [e \in Events |-> << >>]
  /\ channel = [n \in Nodes |-> << >>]
  /\ got = [c \in Conns |-> [e \in Events |-> 0]]
  /\ faults = 0

Go(c, step) == at' = [at EXCEPT ![c] = step]

\* The client's end of the socket is there.
Connected(c) == at[c] \in {"sadd", "expire", "open"}

-------------------------------------------------------------------------------
(* A connection's handler: handle_connection.                              *)

\* The auth frame is accepted and the connection added to the manager.
Accept(c, n) ==
  /\ at[c] = "new"
  /\ n \in up
  /\ node' = [node EXCEPT ![c] = n]
  /\ local' = local \union {c}
  /\ Go(c, "sadd")
  /\ UNCHANGED <<redisVars, nodeVars, suspended, exposed, fanVars, faults>>

Sadd(c) ==
  /\ at[c] = "sadd"
  /\ registry' = registry \union {c}
  /\ exposed' =
       IF \E d \in Conns : at[d] = "del" THEN exposed \union {c} ELSE exposed
  /\ Go(c, "expire")
  /\ UNCHANGED <<ttl, nodeVars, node, local, suspended, fanVars, faults>>

\* Slip: the key is left without an expiry.
NoExpiry(c) ==
  /\ at[c] = "expire"
  /\ Go(c, "open")
  /\ UNCHANGED <<redisVars, nodeVars, node, local, suspended, exposed, fanVars, faults>>

\* EXPIRE (of no effect on a key that is gone), then auth.ok.
SetExpiry(c) ==
  /\ at[c] = "expire"
  /\ ttl' = (registry # {})
  /\ Go(c, "open")
  /\ UNCHANGED <<registry, nodeVars, node, local, suspended, exposed, fanVars, faults>>

\* The socket closes: the finally block.
Disconnect(c) ==
  /\ at[c] = "open"
  /\ Go(c, "srem")
  /\ UNCHANGED <<redisVars, nodeVars, node, local, suspended, exposed, fanVars, faults>>

\* Redis removes a set, and its expiry, with its last member.
Keep(members) ==
  /\ registry' = members
  /\ ttl' = (ttl /\ members # {})

\* Slip: unregister without a connection id.
SremAll(c) ==
  /\ at[c] = "srem"
  /\ Keep({})
  /\ Go(c, "scard")
  /\ UNCHANGED <<nodeVars, node, local, suspended, exposed, fanVars, faults>>

Srem(c) ==
  /\ at[c] = "srem"
  /\ Keep(registry \ {c})
  /\ Go(c, "scard")
  /\ UNCHANGED <<nodeVars, node, local, suspended, exposed, fanVars, faults>>

Scard(c) ==
  /\ at[c] = "scard"
  /\ Go(c, IF registry = {} THEN "del" ELSE "remove")
  /\ UNCHANGED <<redisVars, nodeVars, node, local, suspended, exposed, fanVars, faults>>

\* Whatever is in the set by now.
Del(c) ==
  /\ at[c] = "del"
  /\ Keep({})
  /\ Go(c, "remove")
  /\ UNCHANGED <<nodeVars, node, local, suspended, exposed, fanVars, faults>>

RemoveLocal(c) ==
  /\ at[c] = "remove"
  /\ local' = local \ {c}
  /\ Go(c, "gone")
  /\ UNCHANGED <<redisVars, nodeVars, node, suspended, exposed, fanVars, faults>>

ConnStep(c) ==
  Sadd(c) \/ SetExpiry(c) \/ Srem(c) \/ Scard(c) \/ Del(c) \/ RemoveLocal(c)

-------------------------------------------------------------------------------
(* Time and faults.                                                        *)

\* A client whose timers the browser stops (a frozen tab, a sleeping laptop).
Suspend(c) ==
  /\ at[c] = "open"
  /\ suspended' = suspended \union {c}
  /\ UNCHANGED <<redisVars, nodeVars, connVars, exposed, fanVars, faults>>

\* A ping every 25 s extends the whole set by 90 s, whichever connection it comes
\* from: the key expires when every open connection has stopped pinging.
Expire ==
  /\ ttl
  /\ \A c \in Conns : at[c] = "open" => c \in suspended
  /\ Keep({})
  /\ exposed' = exposed \union {c \in Conns : at[c] = "expire"}
  /\ UNCHANGED <<nodeVars, connVars, suspended, fanVars, faults>>

\* A Redis call fails.  While registering, the finally block runs all the same;
\* in the finally block, the manager's remove is skipped.
RedisFails(c) ==
  /\ faults < MaxFaults
  /\ faults' = faults + 1
  /\ \/ at[c] \in {"sadd", "expire"} /\ Go(c, "srem")
     \/ at[c] \in {"srem", "scard", "del"} /\ Go(c, "leaked")
  /\ UNCHANGED <<redisVars, nodeVars, node, local, suspended, exposed, fanVars>>

NodeDies(n) ==
  LET lost == {c \in Conns : node[c] = n /\ at[c] # "gone"} IN
  /\ n \in up
  /\ faults < MaxFaults
  /\ faults' = faults + 1
  /\ up' = up \ {n}
  /\ listening' = listening \ {n}
  /\ at' = [c \in Conns |->
              IF c \notin lost THEN at[c]
              ELSE IF at[c] = "expire" THEN "torn" ELSE "gone"]
  /\ local' = local \ lost
  /\ channel' = [channel EXCEPT ![n] = << >>]
  /\ UNCHANGED <<redisVars, node, suspended, exposed, fan, route, got>>

\* get_message raises: what Redis had sent to the node is lost, and the listener
\* ends unless the client library connects again.
ListenerFails(n) ==
  /\ n \in listening
  /\ faults < MaxFaults
  /\ faults' = faults + 1
  /\ listening' \in {listening, listening \ {n}}
  /\ channel' = [channel EXCEPT ![n] = << >>]
  /\ UNCHANGED <<redisVars, up, connVars, suspended, exposed, fan, route, got>>

-------------------------------------------------------------------------------
(* Fan-out of an event, by the service that publishes it, and delivery.    *)

Emit(e) ==
  /\ fan[e] = "new"
  /\ fan' = [fan EXCEPT ![e] = "lookup"]
  /\ UNCHANGED <<redisVars, nodeVars, connVars, suspended, exposed, route, channel, got,
                 faults>>

\* Slips: once per connection; only one connection's node (publish_to_users).
PerConnection == {[k \in DOMAIN s |-> node[s[k]]] : s \in SetToSeqs(registry)}
OneConnection == IF registry = {} THEN {<< >>} ELSE {<<node[c]>> : c \in registry}

\* by_node: each node once, in any order.
Routes == SetToSeqs({node[c] : c \in registry})

Lookup(e) ==
  /\ fan[e] = "lookup"
  /\ fan' = [fan EXCEPT ![e] = "publish"]
  /\ \E r \in Routes : route' = [route EXCEPT ![e] = r]
  /\ UNCHANGED <<redisVars, nodeVars, connVars, suspended, exposed, channel, got, faults>>

\* PUBLISH reaches who is subscribed.
Publish(e) ==
  /\ fan[e] = "publish"
  /\ route[e] # << >>
  /\ route' = [route EXCEPT ![e] = Tail(@)]
  /\ LET n == Head(route[e])
     IN  channel' = IF n \in listening THEN [channel EXCEPT ![n] = Append(@, e)]
                     ELSE channel
  /\ UNCHANGED <<redisVars, nodeVars, connVars, suspended, exposed, fan, got, faults>>

\* The publisher fails: the rest of the nodes are not told.
PublishFails(e) ==
  /\ fan[e] \in {"lookup", "publish"}
  /\ faults < MaxFaults
  /\ faults' = faults + 1
  /\ fan' = [fan EXCEPT ![e] = "publish"]
  /\ route' = [route EXCEPT ![e] = << >>]
  /\ UNCHANGED <<redisVars, nodeVars, connVars, suspended, exposed, channel, got>>

\* Every local connection of the user; a send that fails removes it from the
\* manager.
Deliver(n) ==
  LET here == {c \in local : node[c] = n} IN
  /\ channel[n] # << >>
  /\ channel' = [channel EXCEPT ![n] = Tail(@)]
  /\ got' = [c \in Conns |->
               IF c \in here /\ Connected(c)
                 THEN [got[c] EXCEPT ![Head(channel[n])] = @ + 1] ELSE got[c]]
  /\ local' = local \ {c \in here : ~ Connected(c)}
  /\ UNCHANGED <<redisVars, nodeVars, at, node, suspended, exposed, fan, route, faults>>

Next ==
  \/ \E c \in Conns :
       \/ \E n \in Nodes : Accept(c, n)
       \/ ConnStep(c) \/ Disconnect(c) \/ Suspend(c) \/ RedisFails(c)
  \/ Expire
  \/ \E n \in Nodes : NodeDies(n) \/ ListenerFails(n) \/ Deliver(n)
  \/ \E e \in Events : Emit(e) \/ Lookup(e) \/ Publish(e) \/ PublishFails(e)

Spec == Init /\ [][Next]_vars

\* Coroutines go on, Redis expires keys, a node reads its channel.
FairSpec ==
  /\ Spec
  /\ \A c \in Conns : WF_vars(ConnStep(c))
  /\ \A e \in Events : WF_vars(Lookup(e)) /\ WF_vars(Publish(e))
  /\ \A n \in Nodes : WF_vars(Deliver(n))
  /\ WF_vars(Expire)

-------------------------------------------------------------------------------
(* Properties.                                                             *)

\* "Maps user_id -> one or more {node_id, conn_id}": a connection answered with
\* auth.ok is in the registry while it lasts, whatever the user's other
\* connections and nodes do, unless it registered between another's SCARD and DEL
\* or the key expired between its own SADD and EXPIRE, or its client stopped
\* pinging.
Findable ==
  \A c \in Conns :
    at[c] = "open" /\ c \notin exposed \union suspended => c \in registry

\* No connection is sent an event twice, however many connections the user has on
\* its node and however stale the registry is.
DeliveredOnce == \A c \in Conns, e \in Events : got[c][e] <= 1

\* "Route a realtime event to all WS nodes that hold target connections": an event
\* published while a findable connection is open reaches it, or the connection
\* closes first, or something fails.
Reached ==
  \A c \in Conns, e \in Events :
    fan[e] = "lookup" /\ at[c] = "open" /\ c \notin exposed
      ~> \/ got[c][e] > 0
         \/ at[c] # "open" \/ c \in suspended \/ faults > 0

\* What dead nodes leave in the registry goes away when the user has no
\* connection any more, unless a node died between SADD and EXPIRE, which leaves
\* a key that never expires.
OfflineInTheEnd ==
  (\A c \in Conns : ~ Connected(c))
    ~> \/ registry = {}
       \/ \E c \in Conns : Connected(c) \/ at[c] = "torn"
       \/ faults > 1
===============================================================================
