---------------------------------- MODULE Calls ----------------------------------
(***************************************************************************)
(* Calls between two users: each browser's CallEngine and CallProvider,    *)
(* call-service's table of calls, and the frames it sends to both.         *)
(*                                                                         *)
(* An engine's functions await requests and getUserMedia; frames are       *)
(* handled as they come, also while a function waits.  Frames name their   *)
(* call, but the engine looks at its current call only.  A peer connection *)
(* is its signalling state; ICE, restarts and tracks are left out.         *)
(* Requests succeed, the browser grants the microphone.  A request reaches *)
(* call-service as its button is pressed, its answer comes any time later. *)
(***************************************************************************)
EXTENDS Naturals, Sequences

CONSTANTS
  Users, None,
  MaxCalls,                 \* bound on calls placed
  MaxLost,                  \* bound on frames lost with a connection
  MaxPresses                \* bound on the buttons pressed

ASSUME UsersAssumption ==
  (\E u, v \in Users : u # v /\ Users = {u, v}) /\ None \notin Users \union Nat
ASSUME BoundsAssumption == {MaxCalls, MaxLost, MaxPresses} \subseteq Nat

VARIABLES
  room,                     \* call_store: the status of each call
  engine,                   \* each browser's CallEngine
  incoming,                 \* the call each browser's banner shows as ringing
  active,                   \* whether each browser shows a call under way
  running,                  \* functions under way in each browser
  wire,                     \* frames on their way to each browser
  lost,                     \* frames lost
  picked,                   \* <<u, c>>: u placed c or pressed Accept on it
  answered,                 \* <<u, c>>: u answered an offer, c its engine's call
  presses,                  \* buttons pressed
  over,                     \* calls that somebody has left
  overtaken                 \* browsers whose call was replaced or cleaned up
                            \* by what concerned another call, or while one of
                            \* their functions was at work on it

Calls == 1 .. MaxCalls

vars ==
  <<room, engine, incoming, active, running, wire, lost, picked, answered, presses, over, overtaken>>

Peer(u) == CHOOSE v \in Users : v # u

\* CallEngine after cleanup.
Blank == [call |-> None, accepted |-> FALSE, media |-> FALSE,
          pc |-> "none", linked |-> FALSE, pendingOffer |-> FALSE]

Functions == {"start", "accept", "leave", "answer"}
Done == [at |-> "done"]

Init ==
  /\ room = << >>
  /\ engine = [u \in Users |-> Blank]
  /\ incoming = [u \in Users |-> None]
  /\ active = [u \in Users |-> FALSE]
  /\ running = [u \in Users |-> [f \in Functions |-> Done]]
  /\ wire = [u \in Users |-> << >>]
  /\ lost = << >>
  /\ picked = {}
  /\ answered = {}
  /\ presses = 0
  /\ over = {}
  /\ overtaken = {}

At(u, f, where) == running[u][f].at = where
Become(u, f, where, c) ==
  running' = [running EXCEPT ![u][f] = [at |-> where, call |-> c]]
End(u, f) == running' = [running EXCEPT ![u][f] = Done]
CallOf(u, f) == running[u][f].call

Frame(name, c) == [name |-> name, call |-> c]

\* The engine after it made an offer, and the frames the offer adds.
Offering(e) == [e EXCEPT !.pc = "have-local-offer"]
OfferFrame(e) == IF e.call = None THEN << >> ELSE << Frame("offer", e.call) >>

\* answerOffer once it has the microphone: an offer under way of one's own is
\* rolled back.
Answering(e) == [e EXCEPT !.media = TRUE, !.pc = "stable", !.linked = TRUE]
AnswerFrame(e) == IF e.call = None THEN << >> ELSE << Frame("answer", e.call) >>
Answered(u) ==
  answered' = IF engine[u].call = None THEN answered
              ELSE answered \union {<<u, engine[u].call>>}

Tell(u, frames) == wire' = [wire EXCEPT ![u] = @ \o frames]
TellBoth(frame) == wire' = [u \in Users |-> Append(wire[u], frame)]

-------------------------------------------------------------------------------
(* startOutgoing.                                                          *)

Press == presses < MaxPresses /\ presses' = presses + 1

Joining(u) == \E f \in Functions \ {"leave"} : running[u][f] # Done
Overtake(u, when) == overtaken' = IF when THEN overtaken \union {u} ELSE overtaken

\* create_call in call-service.  The call under way covers the call buttons; that
\* nobody places a call while one rings or a function is under way bounds the
\* model.
Start(u) ==
  /\ Press
  /\ ~active[u]
  /\ engine[u].call = None
  /\ \A f \in Functions : running[u][f] = Done
  /\ Len(room) < MaxCalls
  /\ engine' = [engine EXCEPT ![u].accepted = TRUE]
  /\ room' = Append(room, "ringing")
  /\ Tell(Peer(u), << Frame("call.incoming", Len(room) + 1) >>)
  /\ picked' = picked \union {<<u, Len(room) + 1>>}
  /\ Become(u, "start", "creating", Len(room) + 1)
  /\ UNCHANGED <<incoming, active, lost, answered, overtaken, over>>

Created(u) ==
  /\ At(u, "start", "creating")
  /\ engine' = [engine EXCEPT ![u].call = CallOf(u, "start")]
  /\ Become(u, "start", "media", CallOf(u, "start"))
  /\ UNCHANGED <<room, incoming, active, wire, lost, picked, answered, overtaken, presses, over>>

\* The stream is there: the first offer.  Where the call was cleaned up after
\* meanwhile the function fails, the stream stays open.
StartMedia(u) ==
  /\ At(u, "start", "media")
  /\ LET e == [engine[u] EXCEPT !.media = TRUE]
     IN IF e.call = None
        THEN engine' = [engine EXCEPT ![u] = e] /\ UNCHANGED <<wire, active>>
        ELSE /\ engine' = [engine EXCEPT ![u] = Offering(e)]
             /\ Tell(Peer(u), OfferFrame(e))
             /\ active' = [active EXCEPT ![u] = TRUE]
  /\ End(u, "start")
  /\ UNCHANGED <<room, incoming, lost, picked, answered, overtaken, presses, over>>

-------------------------------------------------------------------------------
(* acceptIncoming.                                                         *)

\* The button takes the engine's call, whatever call the banner shows.
\* accept_call in call-service: whatever the status was, it becomes active.
Accept(u) ==
  /\ Press
  /\ incoming[u] # None
  /\ engine[u].call # None
  /\ running[u]["accept"] = Done
  /\ room' = [room EXCEPT ![engine[u].call] = "active"]
  /\ Tell(Peer(u), << Frame("call.accepted", engine[u].call) >>)
  /\ picked' = picked \union {<<u, engine[u].call>>}
  /\ Become(u, "accept", "asking", engine[u].call)
  /\ Overtake(u, running[u]["leave"] # Done)
  /\ UNCHANGED <<engine, incoming, active, lost, answered, over>>

Accepted(u) ==
  /\ At(u, "accept", "asking")
  /\ engine' = [engine EXCEPT ![u].call = CallOf(u, "accept")]
  /\ Become(u, "accept", "media", CallOf(u, "accept"))
  /\ UNCHANGED <<room, incoming, active, wire, lost, picked, answered, overtaken, presses, over>>

\* Is there an offer to replay?
Replayed(e) == e.pendingOffer

AcceptMedia(u) ==
  /\ At(u, "accept", "media")
  /\ LET e == [engine[u] EXCEPT !.media = TRUE, !.accepted = TRUE, !.pendingOffer = FALSE]
     IN IF Replayed(engine[u])
        THEN /\ engine' = [engine EXCEPT ![u] = Answering(e)]
             /\ Tell(Peer(u), AnswerFrame(e))
             /\ Answered(u)
        ELSE engine' = [engine EXCEPT ![u] = e] /\ UNCHANGED <<wire, answered>>
  /\ incoming' = [incoming EXCEPT ![u] = None]
  /\ active' = [active EXCEPT ![u] = TRUE]
  /\ End(u, "accept")
  /\ UNCHANGED <<room, lost, picked, overtaken, presses, over>>

-------------------------------------------------------------------------------
(* reject and hangup: the banner's button and that of the call under way.  *)

\* Slip: the microphone stays open.
CleanupButMedia(e) == [Blank EXCEPT !.media = e.media]
\* cleanup, whichever call has ended.
Cleanup(e) == Blank

\* end_call and reject_call in call-service: both users are told, the one who
\* asked too.  Browsers treat call.rejected as they do call.ended.
Leave(u) ==
  /\ Press
  /\ running[u]["leave"] = Done
  /\ LET c == engine[u].call
     IN \E how \in {"ended", "rejected"} :
          /\ IF how = "ended" THEN active[u] ELSE incoming[u] # None
          /\ Become(u, "leave", how, c)
          /\ IF c = None THEN UNCHANGED <<room, wire, over>>
             ELSE /\ room' = [room EXCEPT ![c] = how]
                  /\ TellBoth(Frame("call.ended", c))
                  /\ over' = over \union {c}
  /\ UNCHANGED <<engine, incoming, active, lost, picked, answered, overtaken>>

\* cleanup once the request is answered, whichever call it is now.
Left(u) ==
  /\ running[u]["leave"] # Done
  /\ engine' = [engine EXCEPT ![u] = Cleanup(@)]
  /\ IF At(u, "leave", "ended")
     THEN active' = [active EXCEPT ![u] = FALSE] /\ UNCHANGED incoming
     ELSE incoming' = [incoming EXCEPT ![u] = None] /\ UNCHANGED active
  /\ End(u, "leave")
  /\ Overtake(u, Joining(u) \/ engine[u].call \notin {CallOf(u, "leave"), None})
  /\ UNCHANGED <<room, wire, lost, picked, answered, presses, over>>

-------------------------------------------------------------------------------
(* Frames: each is handled whole, but for an answer that waits for the      *)
(* microphone.                                                             *)

Arriving(u, name) == wire[u] # << >> /\ Head(wire[u]).name = name
Take(u) == wire' = [wire EXCEPT ![u] = Tail(@)]
TakeAndTell(u, frames) ==
  wire' = [wire EXCEPT ![u] = Tail(@), ![Peer(u)] = @ \o frames]

\* attachIncomingCall.
Attach(e, c) == [e EXCEPT !.call = c, !.accepted = FALSE, !.pendingOffer = FALSE]

CallIncoming(u) ==
  /\ Arriving(u, "call.incoming")
  /\ LET c == Head(wire[u]).call
     IN /\ incoming' = [incoming EXCEPT ![u] = c]
        /\ engine' = [engine EXCEPT ![u] = Attach(@, c)]
  /\ Take(u)
  /\ Overtake(u, Joining(u) \/ engine[u].call # None)
  /\ UNCHANGED <<room, active, running, lost, picked, answered, presses, over>>

\* onPeerJoined: another offer.
CallAccepted(u) ==
  /\ Arriving(u, "call.accepted")
  /\ IF engine[u].call = None
     THEN Take(u) /\ UNCHANGED engine
     ELSE /\ engine' = [engine EXCEPT ![u] = Offering(@)]
          /\ TakeAndTell(u, OfferFrame(engine[u]))
  /\ UNCHANGED <<room, incoming, active, running, lost, picked, answered, overtaken, presses, over>>

\* Slip: an offer is answered whether or not the user takes part.
TakesPartAnyway(e) == TRUE
\* May an offer be answered?
TakesPart(e) == e.accepted

\* handleSignal with an offer, before the user takes part ...
BufferOffer(u) ==
  /\ Arriving(u, "offer")
  /\ ~TakesPart(engine[u])
  /\ engine' = [engine EXCEPT ![u].pendingOffer = @ \/ engine[u].call # None]
  /\ Take(u)
  /\ UNCHANGED <<room, incoming, active, running, lost, picked, answered, overtaken, presses, over>>

\* ... and after: at once where the microphone is open.
AnswerOffer(u) ==
  /\ Arriving(u, "offer")
  /\ TakesPart(engine[u])
  /\ CASE engine[u].call = None -> Take(u) /\ UNCHANGED <<engine, running, answered>>
       [] engine[u].call # None /\ engine[u].media ->
            /\ engine' = [engine EXCEPT ![u] = Answering(@)]
            /\ TakeAndTell(u, AnswerFrame(engine[u]))
            /\ Answered(u)
            /\ UNCHANGED running
       [] engine[u].call # None /\ ~engine[u].media ->
            /\ Become(u, "answer", "media", engine[u].call)
            /\ Take(u)
            /\ UNCHANGED <<engine, answered>>
  /\ UNCHANGED <<room, incoming, active, lost, picked, overtaken, presses, over>>

AnswerMedia(u) ==
  /\ At(u, "answer", "media")
  /\ engine' = [engine EXCEPT ![u] = Answering(@)]
  /\ Tell(Peer(u), AnswerFrame(engine[u]))
  /\ Answered(u)
  /\ End(u, "answer")
  /\ UNCHANGED <<room, incoming, active, lost, picked, overtaken, presses, over>>

\* handleSignal with an answer: setRemoteDescription throws unless an offer
\* waits for it.
TakeAnswer(u) ==
  /\ Arriving(u, "answer")
  /\ engine' = [engine EXCEPT ![u] =
       IF @.call # None /\ @.pc = "have-local-offer"
       THEN [@ EXCEPT !.pc = "stable", !.linked = TRUE] ELSE @]
  /\ Take(u)
  /\ UNCHANGED <<room, incoming, active, running, lost, picked, answered, overtaken, presses, over>>

CallEnded(u) ==
  /\ Arriving(u, "call.ended")
  /\ engine' = [engine EXCEPT ![u] = Cleanup(@)]
  /\ incoming' = [incoming EXCEPT ![u] = None]
  /\ active' = [active EXCEPT ![u] = FALSE]
  /\ Take(u)
  /\ Overtake(u, Joining(u) \/ engine[u].call \notin {Head(wire[u]).call, None})
  /\ UNCHANGED <<room, running, lost, picked, answered, presses, over>>

\* A connection breaks as a frame is on its way.
Lose(u) ==
  /\ wire[u] # << >>
  /\ Len(lost) < MaxLost
  /\ lost' = Append(lost, Head(wire[u]))
  /\ Take(u)
  /\ UNCHANGED <<room, engine, incoming, active, running, picked, answered, overtaken, presses, over>>

Handle(u) ==
  \/ CallIncoming(u) \/ CallAccepted(u) \/ BufferOffer(u) \/ AnswerOffer(u)
  \/ TakeAnswer(u) \/ CallEnded(u)

Progress(u) ==
  \/ Created(u) \/ StartMedia(u) \/ Accepted(u) \/ AcceptMedia(u)
  \/ Left(u) \/ AnswerMedia(u)

Next ==
  \E u \in Users : Start(u) \/ Accept(u) \/ Leave(u) \/ Progress(u) \/ Handle(u) \/ Lose(u)

Spec == Init /\ [][Next]_vars

-------------------------------------------------------------------------------
(* Properties.                                                             *)

\* An offer is answered, which opens the microphone, only by a browser whose user
\* has placed the call it is in or pressed Accept: "While false we must NOT capture
\* the mic or answer an offer" (CallEngine.ts).
AnswerOnlyAfterPickup == answered \subseteq picked

\* The same but for browsers whose call was overtaken by another.
PickupKept == \A a \in answered : a \in picked \/ a[1] \in overtaken

Quiet == \A u \in Users : wire[u] = << >> /\ \A f \in Functions : running[u][f] = Done

\* Once everything has settled nobody is in a call that is over, and nobody's
\* microphone is open outside a call, but for those same browsers.
NobodyLeftBehind ==
  Quiet /\ lost = << >> =>
    \A u \in Users \ overtaken :
      LET c == engine[u].call
      IN IF c = None THEN ~engine[u].media /\ ~active[u]
         ELSE c \notin over

Connected(c) ==
  \A u \in Users : engine[u].call = c /\ engine[u].media /\ engine[u].linked

\* Picked up and not left, no other call, no frame lost but a call.accepted.
Undisturbed(c) ==
  /\ Len(room) = c /\ room[c] = "active" /\ over = 1 .. c - 1
  /\ overtaken = {}
  /\ \A i \in DOMAIN lost : lost[i].name = "call.accepted"

\* Once everything has settled, a call picked up and not disturbed is connected both
\* ways, in whatever order the microphones opened and the frames came, and though
\* the call.accepted was lost: the offer that came while it rang is answered on
\* accepting.
PickedUpConnects ==
  Quiet => \A c \in Calls : Undisturbed(c) => Connected(c)

\* What everybody sees once requests, prompts and frames are through is one call, or
\* none.
CallsSettle == NobodyLeftBehind /\ PickedUpConnects
===============================================================================
