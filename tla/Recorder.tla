-------------------------------- MODULE Recorder --------------------------------
(***************************************************************************)
(* Voice messages and video notes: the gesture on the composer's button,   *)
(* and the recorders, which await the browser's permission to use the      *)
(* microphone.  Holding the button starts a take, releasing it sends the   *)
(* take, sliding up locks it so that it goes on by itself and is reviewed, *)
(* sliding left cancels it.                                                *)
(*                                                                         *)
(* The button is empty's: with text in the field it sends the text.  Both  *)
(* recorders work alike, but only the voice recorder is told of a slide to *)
(* the left.  A recorder whose component is gone lives on until its prompt *)
(* is answered, and records then: nothing can reach it, and React drops    *)
(* the counting that would stop it after 5 minutes.                        *)
(***************************************************************************)
EXTENDS Naturals

CONSTANT MaxTakes                \* bound on takes

ASSUME TakesAssumption == MaxTakes \in Nat

VARIABLES
  press,                    \* the pointer: up, or down, held or long, and the take
  videoMode,                \* the button records video notes
  recordingMode,            \* a recorder is shown in place of the field
  recordingRef, lockedRef,  \* refs of the composer; recordLocked is lockedRef
  take,                     \* each take
  takes,                    \* takes so far
  review,                   \* the take under review, 0 if none
  sentTakes,
  refused,                  \* takes that the user gave up
  early                     \* takes that the user let go before they recorded

composer == <<recordingMode, recordingRef, lockedRef>>
outcome == <<review, sentTakes>>
recorderVars == <<press, videoMode, composer, take, takes, outcome, refused, early>>

Takes == 1 .. MaxTakes
Up == [at |-> "up", take |-> 0]
NoTake == [at |-> "none", shown |-> FALSE, here |-> TRUE, video |-> FALSE, discard |-> FALSE]

RecorderInit ==
  /\ press = Up
  /\ videoMode = FALSE
  /\ recordingMode = FALSE /\ recordingRef = FALSE /\ lockedRef = FALSE
  /\ take = [n \in Takes |-> NoTake]
  /\ takes = 0
  /\ review = 0 /\ sentTakes = {}
  /\ refused = {} /\ early = {}

Unready(n) == take[n].at \in {"loading", "asking"}
Current == {n \in Takes : take[n].shown}

\* Slip: what was recorded until then is kept.
UnmountKeeps(t) ==
  CASE t.at = "loading" -> [t EXCEPT !.at = "over"]
    [] t.at = "recording" /\ t.shown -> [t EXCEPT !.at = "stopping", !.shown = FALSE]
    [] OTHER -> [t EXCEPT !.shown = FALSE]
\* The recorder leaves the screen: the cleanup of its effect.  One that is still
\* being loaded will not come.
Unmount(t) ==
  CASE t.at = "loading" -> [t EXCEPT !.at = "over"]
    [] t.at = "recording" /\ t.shown ->
         [t EXCEPT !.at = "stopping", !.shown = FALSE, !.discard = TRUE]
    [] OTHER -> [t EXCEPT !.shown = FALSE]
AllUnmounted(ts) == [n \in Takes |-> Unmount(ts[n])]

\* stopRecording: onstop comes later.  Before it records there is nothing to stop.
Stopped(n, discard) ==
  [take EXCEPT ![n].at = IF @ = "recording" THEN "stopping" ELSE @,
               ![n].discard = discard]

\* The composer's onCancel, and the end of onRecorded.
Reset ==
  recordingMode' = FALSE /\ recordingRef' = FALSE /\ lockedRef' = FALSE

\* stopRecording(true): onCancel now, or when the recorder has stopped.
CancelTake(n) ==
  IF take[n].at = "recording"
  THEN take' = Stopped(n, TRUE) /\ UNCHANGED composer
  ELSE take' = AllUnmounted(Stopped(n, TRUE)) /\ Reset

-------------------------------------------------------------------------------
(* The gesture: onSendPointerDown and the listeners it adds.                *)

PointerDown ==
  /\ press = Up /\ ~recordingMode /\ ~lockedRef /\ review = 0
  /\ press' = [at |-> "down", take |-> 0]
  /\ UNCHANGED <<videoMode, composer, take, takes, outcome, refused, early>>

\* The timer of 280 ms.
HoldTimer ==
  /\ press.at = "down"
  /\ takes < MaxTakes
  /\ takes' = takes + 1
  /\ press' = [at |-> "held", take |-> takes + 1]
  /\ take' = [take EXCEPT ![takes + 1] = [NoTake EXCEPT !.at = "loading", !.video = videoMode]]
  /\ recordingMode' = TRUE /\ recordingRef' = TRUE /\ lockedRef' = FALSE
  /\ UNCHANGED <<videoMode, outcome, refused, early>>

\* 400 ms since the pointer came down.
LongHold ==
  /\ press.at = "held"
  /\ press' = [press EXCEPT !.at = "long"]
  /\ UNCHANGED <<videoMode, composer, take, takes, outcome, refused, early>>

SlideUp ==
  /\ press.at \in {"held", "long"} /\ recordingRef /\ ~lockedRef
  /\ lockedRef' = TRUE
  /\ press' = Up
  /\ UNCHANGED <<videoMode, recordingMode, recordingRef, take, takes, outcome, refused, early>>

\* One that has stopped by itself cannot be given up any more.
LetGo(n, given) ==
  /\ press' = Up
  /\ refused' = IF given /\ take[n].at # "stopping" THEN refused \union {n} ELSE refused
  /\ early' = IF Unready(n) THEN early \union {n} ELSE early

SlideLeft ==
  LET n == press.take IN
  /\ press.at \in {"held", "long"} /\ recordingRef /\ ~lockedRef
  /\ LetGo(n, TRUE)
  /\ take' = AllUnmounted(IF take[n].shown /\ ~take[n].video THEN Stopped(n, TRUE) ELSE take)
  /\ Reset
  /\ UNCHANGED <<videoMode, takes, outcome>>

\* A tap on the empty field, or the end of a press whose recorder has ended.
ReleaseTap ==
  /\ press # Up /\ ~recordingRef
  /\ press' = Up
  /\ videoMode' = ~videoMode
  /\ UNCHANGED <<composer, take, takes, outcome, refused, early>>

ReleaseShort ==
  LET n == press.take IN
  /\ press.at = "held" /\ recordingRef
  /\ LetGo(n, TRUE)
  /\ take' = AllUnmounted(IF take[n].shown THEN Stopped(n, TRUE) ELSE take)
  /\ Reset
  /\ UNCHANGED <<videoMode, takes, outcome>>

\* Sends the take.  Without a recorder yet, nothing happens.
ReleaseLong ==
  LET n == press.take IN
  /\ press.at = "long" /\ recordingRef
  /\ LetGo(n, FALSE)
  /\ take' = IF take[n].shown THEN Stopped(n, FALSE) ELSE take
  /\ UNCHANGED <<videoMode, composer, takes, outcome>>

-------------------------------------------------------------------------------
(* A recorder.                                                             *)

Load(n) ==
  /\ take[n].at = "loading"
  /\ take' = [take EXCEPT ![n].at = "asking", ![n].shown = TRUE]
  /\ UNCHANGED <<press, videoMode, composer, takes, outcome, refused, early>>

Grant(n) ==
  /\ take[n].at = "asking"
  /\ take' = [take EXCEPT ![n].at = "recording"]
  /\ UNCHANGED <<press, videoMode, composer, takes, outcome, refused, early>>

\* onCancel, of a composer that may have gone.
Cancelled(n, ts) ==
  IF take[n].here
  THEN take' = AllUnmounted(ts) /\ Reset /\ early' = early \union {m \in Takes : Unready(m)}
  ELSE take' = ts /\ UNCHANGED <<composer, early>>

Deny(n) ==
  /\ take[n].at = "asking"
  /\ Cancelled(n, [take EXCEPT ![n].at = "over"])
  /\ UNCHANGED <<press, videoMode, takes, outcome, refused>>

\* MAX_RECORD_SECONDS
Cap(n) ==
  /\ take[n].at = "recording" /\ take[n].shown
  /\ take' = Stopped(n, FALSE)
  /\ UNCHANGED <<press, videoMode, composer, takes, outcome, refused, early>>

\* onstop: handleVoiceRecorded, handleVideoRecorded or onCancel.
OnStop(n, empty) ==
  /\ take[n].at = "stopping"
  /\ Cancelled(n, [take EXCEPT ![n].at = "over"])
  /\ LET kept == ~take[n].discard /\ ~empty
         locked == take[n].here /\ lockedRef
     IN  /\ review' = IF kept /\ locked THEN n ELSE review
         /\ sentTakes' = IF kept /\ ~locked THEN sentTakes \union {n} ELSE sentTakes
  /\ UNCHANGED <<press, videoMode, takes, refused>>

-------------------------------------------------------------------------------
(* The buttons of a locked recorder, the review, and what else ends a take. *)

PressStop(n) ==
  /\ take[n].shown /\ take[n].at \in {"recording", "stopping"} /\ lockedRef
  /\ take' = Stopped(n, FALSE)
  /\ refused' = refused \ {n}
  /\ UNCHANGED <<press, videoMode, composer, takes, outcome, early>>

PressCancelTake(n) ==
  /\ take[n].shown /\ take[n].at \in {"recording", "stopping"} /\ lockedRef
  /\ CancelTake(n)
  /\ refused' = refused \union {n}
  /\ UNCHANGED <<press, videoMode, takes, outcome, early>>

SendReview ==
  /\ review # 0
  /\ sentTakes' = sentTakes \union {review}
  /\ review' = 0
  /\ UNCHANGED <<press, videoMode, composer, take, takes, refused, early>>

DiscardReview ==
  /\ review # 0
  /\ refused' = refused \union {review}
  /\ review' = 0
  /\ UNCHANGED <<press, videoMode, composer, take, takes, sentTakes, early>>

\* A message is edited instead: setRecordingMode(false), the refs stay.
Edit ==
  /\ recordingMode
  /\ recordingMode' = FALSE
  /\ take' = AllUnmounted(take)
  /\ refused' = refused \union {n \in Takes : take[n].at = "recording" /\ take[n].shown}
  /\ early' = early \union {n \in Takes : Unready(n)}
  /\ UNCHANGED <<press, videoMode, recordingRef, lockedRef, takes, outcome>>

\* Another conversation is opened: a new composer.  A review is dropped, and so
\* is a locked take that is just stopping.
Switch ==
  /\ takes > 0
  /\ press' = Up
  /\ videoMode' = FALSE
  /\ Reset
  /\ take' = [n \in Takes |-> [Unmount(take[n]) EXCEPT !.here = take[n].at = "none",
                                !.discard = @ \/ (take[n].at = "stopping" /\ lockedRef)]]
  /\ review' = 0
  /\ refused' = refused \union {n \in Takes : take[n].at = "recording" /\ take[n].shown}
  /\ early' = early \union {n \in Takes : Unready(n)}
  /\ UNCHANGED <<takes, sentTakes>>

RecorderNext ==
  \/ PointerDown \/ HoldTimer \/ LongHold \/ SlideUp \/ SlideLeft
  \/ ReleaseTap \/ ReleaseShort \/ ReleaseLong
  \/ \E n \in Takes :
       \/ Load(n) \/ Grant(n) \/ Deny(n) \/ Cap(n)
       \/ \E empty \in BOOLEAN : OnStop(n, empty)
       \/ PressStop(n) \/ PressCancelTake(n)
  \/ SendReview \/ DiscardReview \/ Edit \/ Switch

RecorderSpec == RecorderInit /\ [][RecorderNext]_recorderVars

-------------------------------------------------------------------------------
(* Properties.                                                             *)

Held(n) == press.take = n /\ press # Up

\* The microphone is on only while the button is held or the take is locked, with
\* the recorder on the screen, but for takes that were let go, slid away or left
\* before the microphone was granted; and no other take that the user gave up is
\* sent, whatever prompts, stops and other takes overlap.
RecordsWhileHeld ==
  \A n \in Takes \ early :
    /\ take[n].at = "recording" => take[n].shown /\ (Held(n) \/ lockedRef)
    /\ n \in refused => n \notin sentTakes
===============================================================================
