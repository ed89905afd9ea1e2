--------------------------- MODULE ScheduledMessages ---------------------------
(***************************************************************************)
(* "Send later" messages of chat-service: one author, one conversation.    *)
(*                                                                         *)
(* Every replica runs the scheduler loop: fetch the due items, then        *)
(* deliver them one after the other.  Nothing claims an item between the   *)
(* fetch and mark_scheduled_sent, so the author's cancellation, another    *)
(* replica and a crash can all fall in between.  A replica's step is one   *)
(* await of the loop.                                                      *)
(***************************************************************************)
EXTENDS Naturals, Sequences, FiniteSets

CONSTANTS
  Items, Replicas,
  BatchSize,                \* LIMIT of fetch_due_scheduled: 50
  MaxLoopFaults             \* bound on crashes and failed statements

ASSUME BatchAssumption == BatchSize \in Nat \ {0}
ASSUME LoopFaultsAssumption == MaxLoopFaults \in Nat
ASSUME ReplicasAssumption == IsFiniteSet(Replicas)

VARIABLES
  itemStatus,               \* scheduled_messages.status, "none" before the row
  due,                      \* items whose scheduled_at has passed
  standing,                 \* what the author may do in the conversation
  loopAt, round,             \* each replica: next step, items of its round
  copies,                   \* rows stored per item
  loopFaults

itemVars == <<itemStatus, due>>
scheduledVars == <<itemStatus, due, standing, loopAt, round, copies, loopFaults>>

\* "restricted" stands for all that assert_can_send refuses to a member: muted,
\* slow mode, the same body again, posting reserved to admins, a blocked word.
Standings == {"member", "restricted", "gone"}

ScheduledInit ==
  /\ itemStatus = [i \in Items |-> "none"]
  /\ due = {}
  /\ standing = "member"
  /\ loopAt = [r \in Replicas |-> "sleep"]
  /\ round = [r \in Replicas |-> << >>]
  /\ copies = [i \in Items |-> 0]
  /\ loopFaults = 0

-------------------------------------------------------------------------------
(* The author's requests, and time.                                        *)

\* POST .../scheduled: members only.
Create(i) ==
  /\ itemStatus[i] = "none"
  /\ standing # "gone"
  /\ itemStatus' = [itemStatus EXCEPT ![i] = "pending"]
  /\ UNCHANGED <<due, standing, loopAt, round, copies, loopFaults>>

FallDue(i) ==
  /\ itemStatus[i] # "none"
  /\ i \notin due
  /\ due' = due \union {i}
  /\ UNCHANGED <<itemStatus, standing, loopAt, round, copies, loopFaults>>

\* Slip: cancelled whatever its status.
CancelAlways(i) ==
  /\ itemStatus[i] # "none"
  /\ itemStatus' = [itemStatus EXCEPT ![i] = "cancelled"]
  /\ UNCHANGED <<due, standing, loopAt, round, copies, loopFaults>>

\* DELETE /scheduled/{id}: an UPDATE of a pending row only (else 404).
Cancel(i) ==
  /\ itemStatus[i] = "pending"
  /\ itemStatus' = [itemStatus EXCEPT ![i] = "cancelled"]
  /\ UNCHANGED <<due, standing, loopAt, round, copies, loopFaults>>

SetStanding(s) ==
  /\ standing' = s
  /\ UNCHANGED <<itemVars, loopAt, round, copies, loopFaults>>

-------------------------------------------------------------------------------
(* One round of the scheduler loop.                                        *)

Waiting == {i \in due : itemStatus[i] = "pending"}

RoundSize ==
  IF Cardinality(Waiting) < BatchSize THEN Cardinality(Waiting) ELSE BatchSize

\* The query has no ORDER BY: any pending due items, in any order.
Rounds ==
  {t \in [1 .. RoundSize -> Waiting] :
     \A j, k \in 1 .. RoundSize : t[j] = t[k] => j = k}

Fetch(r) ==
  /\ loopAt[r] = "sleep"
  /\ Waiting # {}
  /\ \E t \in Rounds : round' = [round EXCEPT ![r] = t]
  /\ loopAt' = [loopAt EXCEPT ![r] = "member"]
  /\ UNCHANGED <<itemVars, standing, copies, loopFaults>>

LoopGo(r, step) == loopAt' = [loopAt EXCEPT ![r] = step]

\* get_conversation_member: an author who left only gets the item marked.
CheckMember(r) ==
  /\ loopAt[r] = "member"
  /\ LoopGo(r, IF standing = "gone" THEN "mark" ELSE "store")
  /\ UNCHANGED <<itemVars, standing, round, copies, loopFaults>>

\* send_message with no client_msg_id: always a new row.  No assert_can_send.
Store(r) ==
  /\ loopAt[r] = "store"
  /\ copies' = [copies EXCEPT ![Head(round[r])] = @ + 1]
  /\ LoopGo(r, "announce")
  /\ UNCHANGED <<itemVars, standing, round, loopFaults>>

\* publish_message_event and the push.
Announce(r) ==
  /\ loopAt[r] = "announce"
  /\ LoopGo(r, "mark")
  /\ UNCHANGED <<itemVars, standing, round, copies, loopFaults>>

\* Slip: a failed item is tried again at once.
TriedAgain == "member"
AfterDelivery == "mark"

\* An exception while storing or publishing is logged, and the item marked.
DeliveryFails(r) ==
  /\ loopAt[r] \in {"store", "announce"}
  /\ LoopGo(r, AfterDelivery)
  /\ UNCHANGED <<itemVars, standing, round, copies, loopFaults>>

\* The item at hand is the round's last.
RoundOver(r) == Len(round[r]) = 1

\* Slip: the status is never written.
ForgetMark(r) ==
  /\ loopAt[r] = "mark"
  /\ round' = [round EXCEPT ![r] = Tail(@)]
  /\ LoopGo(r, IF RoundOver(r) THEN "sleep" ELSE "member")
  /\ UNCHANGED <<itemVars, standing, copies, loopFaults>>

\* mark_scheduled_sent: whatever the status is by now.
Mark(r) ==
  /\ loopAt[r] = "mark"
  /\ itemStatus' = [itemStatus EXCEPT ![Head(round[r])] = "sent"]
  /\ round' = [round EXCEPT ![r] = Tail(@)]
  /\ LoopGo(r, IF RoundOver(r) THEN "sleep" ELSE "member")
  /\ UNCHANGED <<due, standing, copies, loopFaults>>

-------------------------------------------------------------------------------
(* Faults: outside the try of _deliver_scheduled, so the round is given up. *)

GiveUp(r) ==
  /\ loopFaults < MaxLoopFaults
  /\ loopFaults' = loopFaults + 1
  /\ LoopGo(r, "sleep")
  /\ round' = [round EXCEPT ![r] = << >>]
  /\ UNCHANGED <<itemVars, standing, copies>>

QueryFails(r) == loopAt[r] \in {"member", "mark"} /\ GiveUp(r)

Crash(r) == loopAt[r] # "sleep" /\ GiveUp(r)

LoopStep(r) ==
  Fetch(r) \/ CheckMember(r) \/ Store(r) \/ Announce(r) \/ DeliveryFails(r)
           \/ Mark(r)

ScheduledNext ==
  \/ \E i \in Items : Create(i) \/ FallDue(i) \/ Cancel(i)
  \/ \E s \in Standings : SetStanding(s)
  \/ \E r \in Replicas : LoopStep(r) \/ QueryFails(r) \/ Crash(r)

ScheduledSpec == ScheduledInit /\ [][ScheduledNext]_scheduledVars

\* The loop sleeps 15 s and goes on; no await of it waits for another process.
ScheduledFairSpec == ScheduledSpec /\ \A r \in Replicas : WF_scheduledVars(LoopStep(r))

-------------------------------------------------------------------------------
(* Properties.                                                             *)

Held(r) == {round[r][k] : k \in DOMAIN round[r]}

\* Nothing claims an item, but a copy too many has a cause: one copy per replica
\* that had it in its round, and one more per round that a fault cut short.
CopiesExplained ==
  \A i \in Items : copies[i] <= Cardinality(Replicas) + loopFaults

\* A cancellation answered with ok lies only while a round is at work on the
\* item: if it still reads "cancelled" afterwards, nothing was sent, unless a
\* fault fell between storing and marking.
CancelledUnsent ==
  \A i \in Items :
    itemStatus[i] = "cancelled" /\ (\A r \in Replicas : i \notin Held(r)) /\ loopFaults = 0
      => copies[i] = 0

\* "Mark sent regardless so a poison message never loops forever": every due
\* item leaves the queue, whatever fails while delivering it.
DueLeavesQueue ==
  \A i \in Items : i \in due /\ itemStatus[i] = "pending" ~> itemStatus[i] # "pending"
===============================================================================
