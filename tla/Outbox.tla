--------------------------------- MODULE Outbox ---------------------------------
(***************************************************************************)
(* The web client's outbox: from a message typed in one conversation to    *)
(* its row in chat-service and its bubble on the screen.                   *)
(*                                                                         *)
(* The client is one JavaScript thread: an action of it is one callback.   *)
(* A message goes out over the WebSocket (a FIFO that a drop empties), or  *)
(* by REST: sendText's own request, or one of the flushes that walk the    *)
(* queue, one request at a time.  Each new connection starts three         *)
(* flushes.  chat-service is what ChatSend implements: a message is stored *)
(* once, and the anti-spam memory answers before the store does.           *)
(***************************************************************************)
EXTENDS Naturals, Sequences, FiniteSets

CONSTANTS
  Msgs,
  MaxAttempts,              \* MAX_ATTEMPTS of queuedSend.ts: 5
  AntiSpam,                 \* SpaceSettings.anti_spam_enabled, on by default
  MaxTroubles               \* bound on lost connections and server faults together

ASSUME AttemptsAssumption == MaxAttempts \in Nat \ {0}
ASSUME SpamAssumption == AntiSpam \in BOOLEAN
ASSUME BoundsAssumption == MaxTroubles \in Nat

\* The callers of flushOutboundQueueRest: flushOfflineQueue from onopen and
\* from auth.ok, and runReconnectSync.  Bound: the client does not connect
\* again while flushes of the last connection wait for answers.
Flushes == {"onopen", "authok", "sync"}

VARIABLES
  queue,                    \* offline queue: [id, attempts] records
  todo, live,               \* each flush: items left; whether the array it
                            \* walks is still the queue's own
  rest,                     \* REST requests: [by, id, answer] records
  sync, resolved,           \* runReconnectSync: where it is, what it got stored
  ws, frames, replies,      \* socket state, messages out, answers in
  bubble,                   \* each message's optimistic row on the screen
  stored, seen,             \* server: rows, anti-spam memory
  drops, faults,
  unheard                   \* history: messages whose "ok" a drop took

socket == <<ws, frames, replies, drops, unheard>>
server == <<stored, seen, faults>>
vars == <<queue, todo, live, rest, sync, resolved, ws, frames, replies,
          bubble, stored, seen, drops, faults, unheard>>

Init ==
  /\ queue = << >>
  /\ todo = [f \in Flushes |-> << >>]
  /\ live = [f \in Flushes |-> FALSE]
  /\ rest = {}
  /\ sync = "idle"
  /\ resolved = {}
  /\ ws = "down"
  /\ frames = << >>
  /\ replies = << >>
  /\ bubble = [m \in Msgs |-> "unwritten"]
  /\ stored = {}
  /\ seen = {}
  /\ drops = 0
  /\ faults = 0
  /\ unheard = {}

-------------------------------------------------------------------------------
(* The queue and its flushes.                                              *)

Ids(items) == [k \in DOMAIN items |-> items[k].id]

IsQueued(m) == \E k \in DOMAIN queue : queue[k].id = m

\* queue.filter: the items at the positions kept, in the order they have.
Keeping(kept) ==
  LET place == [k \in kept |-> Cardinality({j \in kept : j <= k})]
  IN  [n \in 1 .. Cardinality(kept) |-> queue[CHOOSE k \in kept : place[k] = n]]

\* removeOutbound and bumpAttempt build a new array: flushes keep walking the
\* old one, with its old attempts.
\* (Slips: removing nothing; removing the oldest item.)
Unremoved(m) == queue
Shifted(m) == IF queue = << >> THEN queue ELSE Tail(queue)
Removed(m) == Keeping({k \in DOMAIN queue : queue[k].id # m})

Bumped(m) ==
  [k \in DOMAIN queue |->
     IF queue[k].id = m THEN [queue[k] EXCEPT !.attempts = @ + 1] ELSE queue[k]]

Replace(newQueue) ==
  /\ queue' = newQueue
  /\ live' = [f \in Flushes |-> FALSE]

RestEligible ==
  Ids(Keeping({k \in DOMAIN queue : queue[k].attempts < MaxAttempts}))

\* One more than by REST: attempts > 5 is skipped there, attempts >= 5 here.
WsEligible ==
  Ids(Keeping({k \in DOMAIN queue : queue[k].attempts <= MaxAttempts}))

Request(by, ids) ==
  IF ids = << >> THEN {} ELSE {[by |-> by, id |-> Head(ids), answer |-> "none"]}

\* flushOutboundQueueRest, up to its first await.
StartFlushes(flushes) ==
  /\ todo' = [f \in Flushes |-> IF f \in flushes THEN RestEligible ELSE todo[f]]
  /\ live' = [f \in Flushes |-> f \in flushes \/ live[f]]
  /\ rest' = rest \union UNION {Request(f, RestEligible) : f \in flushes}

-------------------------------------------------------------------------------
(* Writing a message (sendText), its optimistic row included.              *)

\* Over an open socket: nothing is queued.
WriteOpen(m) ==
  /\ bubble[m] = "unwritten"
  /\ ws # "down"
  /\ frames' = Append(frames, m)
  /\ bubble' = [bubble EXCEPT ![m] = "sending"]
  /\ UNCHANGED <<queue, todo, live, rest, sync, resolved, ws, replies,
                 server, drops, unheard>>

\* Without one: queued in place, where a flush still on this array finds it,
\* and sent by REST at once if the browser believes to be online.
WriteClosed(m) ==
  /\ bubble[m] = "unwritten"
  /\ ws = "down"
  /\ queue' = Append(queue, [id |-> m, attempts |-> 0])
  /\ todo' = [f \in Flushes |->
                IF live[f] /\ todo[f] # << >> THEN Append(todo[f], m) ELSE todo[f]]
  /\ \E onLine \in BOOLEAN :
       rest' = IF onLine THEN rest \union Request("sendText", <<m>>) ELSE rest
  /\ bubble' = [bubble EXCEPT ![m] = "sending"]
  /\ UNCHANGED <<live, sync, resolved, socket, server>>

\* onLivePatch: the optimistic row becomes the server's.
Patched(ids) ==
  bubble' = [m \in Msgs |-> IF m \in ids THEN "gone" ELSE bubble[m]]

ShowFailed(m) ==
  bubble' = [bubble EXCEPT ![m] = IF @ = "sending" THEN "failed" ELSE @]

-------------------------------------------------------------------------------
(* chat-service and the gateway in front of it.                            *)

Refused(m) == AntiSpam /\ m \in seen

\* One POST, by whoever sent it.  A fault: nothing is reached, or it comes after
\* the moderation memory has the body, and the row may be stored, its answer lost.
Serve(m, answer) ==
  \/ /\ answer = "error"
     /\ Refused(m)
     /\ UNCHANGED <<stored, seen, faults>>
  \/ /\ answer = "ok"
     /\ ~ Refused(m)
     /\ seen' = seen \union {m}
     /\ stored' = stored \union {m}
     /\ UNCHANGED faults
  \/ /\ answer = "error"
     /\ drops + faults < MaxTroubles
     /\ faults' = faults + 1
     /\ \/ UNCHANGED <<stored, seen>>
        \/ /\ ~ Refused(m)
           /\ seen' = seen \union {m}
           /\ stored' \in {stored, stored \union {m}}

\* The gateway handles one frame of a connection after the other.
GatewayServe ==
  /\ frames # << >>
  /\ \E a \in {"ok", "error"} :
       /\ Serve(Head(frames), a)
       /\ replies' = Append(replies, [name |-> a, id |-> Head(frames)])
  /\ frames' = Tail(frames)
  /\ UNCHANGED <<queue, todo, live, rest, sync, resolved, ws, bubble, drops, unheard>>

RestServe(q) ==
  /\ q.answer = "none"
  /\ \E a \in {"ok", "error"} :
       /\ Serve(q.id, a)
       /\ rest' = (rest \ {q}) \union {[q EXCEPT !.answer = a]}
  /\ UNCHANGED <<queue, todo, live, sync, resolved, socket, bubble>>

\* chat-service starts again: the moderation memory is the process's.
Restart ==
  /\ seen # {}
  /\ drops + faults < MaxTroubles
  /\ faults' = faults + 1
  /\ seen' = {}
  /\ UNCHANGED <<queue, todo, live, rest, sync, resolved, socket, bubble,
                 stored>>

-------------------------------------------------------------------------------
(* The client's callbacks.                                                 *)

\* onopen: the auth frame, every queued item over the socket, one REST flush
\* of flushOfflineQueue, and runReconnectSync with another.
Connect ==
  /\ ws = "down"
  /\ sync = "idle"
  /\ \A f \in Flushes : todo[f] = << >>
  /\ ws' = "open"
  /\ frames' = WsEligible
  /\ replies' = <<[name |-> "auth.ok"]>>
  /\ StartFlushes({"onopen", "sync"})
  /\ sync' = IF RestEligible = << >> THEN "catchUp" ELSE "flush"
  /\ UNCHANGED <<queue, resolved, bubble, server, drops, unheard>>

\* auth.ok: flushOfflineQueue again.
AuthOk ==
  /\ replies # << >>
  /\ Head(replies).name = "auth.ok"
  /\ replies' = Tail(replies)
  /\ ws' = "ready"
  /\ frames' = frames \o WsEligible
  /\ StartFlushes({"authok"})
  /\ UNCHANGED <<queue, sync, resolved, bubble, server, drops, unheard>>

\* message.send.ok, message.send.failed.
WsReply ==
  /\ replies # << >>
  /\ \E m \in Msgs :
       \/ /\ Head(replies) = [name |-> "ok", id |-> m]
          /\ Replace(Removed(m))
          /\ Patched({m})
       \/ /\ Head(replies) = [name |-> "error", id |-> m]
          /\ Replace(Bumped(m))
          /\ ShowFailed(m)
  /\ replies' = Tail(replies)
  /\ UNCHANGED <<todo, rest, sync, resolved, ws, frames, server, drops, unheard>>

\* sendText's own request; a failure counts no attempt.
DirectAnswer(q) ==
  /\ q.by = "sendText"
  /\ \/ /\ q.answer = "ok"
        /\ Replace(Removed(q.id))
        /\ Patched({q.id})
     \/ /\ q.answer = "error"
        /\ ShowFailed(q.id)
        /\ UNCHANGED <<queue, live>>
  /\ rest' = rest \ {q}
  /\ UNCHANGED <<todo, sync, resolved, socket, server>>

AfterError(m) == Bumped(m)

ResolvedWith(q) == IF q.answer = "ok" THEN resolved \union {q.id} ELSE resolved

\* A flush's request is answered: the queue is updated and the next item goes
\* out.  Only runReconnectSync looks at what its flush resolved, at the end.
FlushAnswer(q) ==
  /\ q.by \in Flushes
  /\ \/ q.answer = "ok" /\ Replace(Removed(q.id))
     \/ q.answer = "error" /\ Replace(AfterError(q.id))
  /\ LET left == Tail(todo[q.by])
     IN  /\ todo' = [todo EXCEPT ![q.by] = left]
         /\ rest' = (rest \ {q}) \union Request(q.by, left)
         /\ \/ q.by # "sync" /\ UNCHANGED <<sync, resolved, bubble>>
            \/ /\ q.by = "sync" /\ left # << >>
               /\ resolved' = ResolvedWith(q)
               /\ UNCHANGED <<sync, bubble>>
            \/ /\ q.by = "sync" /\ left = << >>
               /\ Patched(ResolvedWith(q))
               /\ resolved' = {}
               /\ sync' = "catchUp"
  /\ UNCHANGED <<socket, server>>

\* The rest of runReconnectSync: server rows merged in, optimistic ones kept.
CatchUp ==
  /\ sync = "catchUp"
  /\ sync' = "idle"
  /\ UNCHANGED <<queue, todo, live, rest, resolved, socket, bubble, server>>

\* refreshMessagesForConversation, every 25 s and on focus: the list becomes what
\* the server has, so optimistic rows disappear.
Refresh ==
  /\ bubble' = [m \in Msgs |-> IF bubble[m] = "unwritten" THEN "unwritten" ELSE "gone"]
  /\ UNCHANGED <<queue, todo, live, rest, sync, resolved, socket, server>>

\* The socket closes; what it carried is gone.
Drop ==
  /\ ws # "down"
  /\ drops + faults < MaxTroubles
  /\ drops' = drops + 1
  /\ ws' = "down"
  /\ frames' = << >>
  /\ replies' = << >>
  /\ unheard' = unheard \union
                  {m \in Msgs : \E k \in DOMAIN replies : replies[k] = [name |-> "ok", id |-> m]}
  /\ UNCHANGED <<queue, todo, live, rest, sync, resolved, bubble, server>>

Answered(q) == DirectAnswer(q) \/ FlushAnswer(q)

Next ==
  \/ \E m \in Msgs : WriteOpen(m) \/ WriteClosed(m)
  \/ \E q \in rest : RestServe(q) \/ Answered(q)
  \/ GatewayServe \/ Restart
  \/ Connect \/ AuthOk \/ WsReply \/ CatchUp \/ Refresh \/ Drop

Spec == Init /\ [][Next]_vars

\* Requests are answered (an outage ends, a proxy times out), callbacks run, and
\* the client reconnects: onclose sets a timer each time.
Fairness ==
  /\ \A by \in Flushes \union {"sendText"}, m \in Msgs :
       WF_vars(\E q \in rest : q.by = by /\ q.id = m /\ (RestServe(q) \/ Answered(q)))
  /\ WF_vars(GatewayServe)
  /\ WF_vars(Connect) /\ WF_vars(AuthOk) /\ WF_vars(WsReply) /\ WF_vars(CatchUp)

FairSpec == Spec /\ Fairness

-------------------------------------------------------------------------------
(* Properties.                                                             *)

\* A message leaves the offline queue only once it is stored, whichever of the
\* overlapping sends was answered, and however.
KeptUntilStored ==
  [][\A m \in Msgs : IsQueued(m) /\ ~ IsQueued(m)' => m \in stored]_vars

\* While the server answers, a queued message is sent and leaves the queue,
\* through any loss of connection; but anti-spam takes what is sent again for a
\* duplicate, so one whose "ok" the connection lost is refused at every retry
\* (moderation_engine.py:77) and stays queued although it is stored.
OutboxDrains ==
  \A m \in Msgs :
    IsQueued(m) ~> \/ ~ IsQueued(m)
                   \/ faults > 0
                   \/ AntiSpam /\ m \in unheard
===============================================================================
