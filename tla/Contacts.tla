-------------------------------- MODULE Contacts --------------------------------
(***************************************************************************)
(* Contact requests between two users: contact-service keeps them, and has *)
(* chat-service keep a conversation for each, locked for the recipient     *)
(* until they accept.                                                      *)
(*                                                                         *)
(* POST /requests stores the request, creates the conversation and then    *)
(* notes it in the request; an answer changes the request and then unlocks *)
(* or archives the conversation it names.  Each is a call of its own to    *)
(* the database or to chat-service, and requests interleave between them.  *)
(* A request and its conversation have the name of the POST that makes     *)
(* them.                                                                   *)
(***************************************************************************)
EXTENDS Naturals, FiniteSets

CONSTANTS
  Peers,                    \* the two users
  Posts,                    \* POSTs of requests
  Replies,                  \* answers under way at once
  NoAsk,
  MaxReplies, MaxFailures   \* bounds on answers, and on failures

ASSUME ContactsAssumption ==
  NoAsk \notin Posts /\ {MaxReplies, MaxFailures} \subseteq Nat

VARIABLES
  askAt, asker,             \* each POST: its next call, its user
  status,                   \* contact_requests: the status, or "none"
  noted,                    \* ... those with a conversation_id
  made, locked, archived,   \* chat-service: the conversations
  reply,                    \* each answer under way
  replies, failures,
  disturbed                 \* requests with a failed call, with overlapping
                            \* answers, or answered before they named a
                            \* conversation

chatVars == <<made, locked, archived>>
askVars == <<askAt, asker>>
contactVars == <<askVars, status, noted, chatVars, reply, replies, failures, disturbed>>

NoReply == [at |-> "idle", of |-> NoAsk, to |-> "none"]

ContactsInit ==
  /\ askAt = [q \in Posts |-> "new"]
  /\ asker \in [Posts -> Peers]
  /\ status = [q \in Posts |-> "none"]
  /\ noted = {} /\ made = {} /\ locked = {} /\ archived = {}
  /\ reply = [h \in Replies |-> NoReply]
  /\ replies = 0 /\ failures = 0
  /\ disturbed = {}

GoAsk(q, where) == askAt' = [askAt EXCEPT ![q] = where]

-------------------------------------------------------------------------------
(* send_contact_request.                                                   *)

\* Rows from the user of q, and from the other.
Mine(q) == {r \in Posts : asker[r] = asker[q] /\ status[r] # "none"}
Theirs(q) == {r \in Posts : asker[r] # asker[q] /\ status[r] # "none"}

\* ALREADY_PENDING and ALREADY_CONTACTS, from the first row of the user, in no
\* certain order, and from the accepted rows of the other.
MaySend(q, first) ==
  /\ first = NoAsk \/ status[first] \notin {"pending", "accepted"}
  /\ \A r \in Theirs(q) : status[r] # "accepted"

CheckAsk(q) ==
  /\ askAt[q] = "new"
  /\ \E first \in IF Mine(q) = {} THEN {NoAsk} ELSE Mine(q) :
       GoAsk(q, IF MaySend(q, first) THEN "insert" ELSE "over")
  /\ UNCHANGED <<asker, status, noted, chatVars, reply, replies, failures, disturbed>>

InsertAsk(q) ==
  /\ askAt[q] = "insert"
  /\ status' = [status EXCEPT ![q] = "pending"]
  /\ GoAsk(q, "create")
  /\ UNCHANGED <<asker, noted, chatVars, reply, replies, failures, disturbed>>

\* create_dm_conversation: one transaction of chat-service.
CreateDm(q) ==
  /\ askAt[q] = "create"
  /\ made' = made \union {q}
  /\ locked' = locked \union {q}
  /\ GoAsk(q, "note")
  /\ UNCHANGED <<asker, status, noted, archived, reply, replies, failures, disturbed>>

\* update_conversation_id.
NoteDm(q) ==
  /\ askAt[q] = "note"
  /\ noted' = noted \union {q}
  /\ GoAsk(q, "over")
  /\ UNCHANGED <<asker, status, chatVars, reply, replies, failures, disturbed>>

-------------------------------------------------------------------------------
(* accept_request, decline_request and cancel_request.                     *)

GoReply(h, where) == reply' = [reply EXCEPT ![h].at = where]

\* _update_status, up to its UPDATE.  The recipient accepts or declines, the
\* author withdraws, which is "declined" too.
ReadAsk(h, q, answer) ==
  /\ reply[h].at = "idle"
  /\ replies < MaxReplies
  /\ status[q] = "pending"
  /\ replies' = replies + 1
  /\ reply' = [reply EXCEPT ![h] = [at |-> "write", of |-> q, to |-> answer]]
  /\ UNCHANGED <<askVars, status, noted, chatVars, failures, disturbed>>

\* The UPDATE is by primary key, whatever the status is by now.
WriteStatus(h) ==
  LET q == reply[h].of IN
  /\ reply[h].at = "write"
  /\ status' = [status EXCEPT ![q] = reply[h].to]
  /\ disturbed' = IF status[q] # "pending" THEN disturbed \union {q} ELSE disturbed
  /\ GoReply(h, "refresh")
  /\ UNCHANGED <<askVars, noted, chatVars, replies, failures>>

\* refresh reads the row again: only a conversation it names is told of.
RefreshRow(h) ==
  LET q == reply[h].of IN
  /\ reply[h].at = "refresh"
  /\ reply' = [reply EXCEPT ![h] = IF q \in noted THEN [@ EXCEPT !.at = "tell"] ELSE NoReply]
  /\ disturbed' = IF askAt[q] \in {"create", "note"} THEN disturbed \union {q} ELSE disturbed
  /\ UNCHANGED <<askVars, status, noted, chatVars, replies, failures>>

\* Slip: a declined conversation is unlocked, too.
UnlockAny(q, answer) == locked' = locked \ {q} /\ UNCHANGED archived
\* unlock_conversation, or delete_dm_conversation, which archives.
TellChat(q, answer) ==
  IF answer = "accepted" THEN locked' = locked \ {q} /\ UNCHANGED archived
  ELSE archived' = archived \union {q} /\ UNCHANGED locked

TellDm(h) ==
  /\ reply[h].at = "tell"
  /\ TellChat(reply[h].of, reply[h].to)
  /\ reply' = [reply EXCEPT ![h] = NoReply]
  /\ UNCHANGED <<askVars, status, noted, made, replies, failures, disturbed>>

-------------------------------------------------------------------------------
(* Failures: a call to chat-service is refused or times out, done or not,  *)
(* and the request goes on; or the replica dies.                           *)

Fail(q) == failures < MaxFailures /\ failures' = failures + 1 /\ disturbed' = disturbed \union {q}

LoseDm(q) ==
  /\ askAt[q] = "create"
  /\ Fail(q)
  /\ \/ made' = made \union {q} /\ locked' = locked \union {q}
     \/ UNCHANGED <<made, locked>>
  /\ GoAsk(q, "over")
  /\ UNCHANGED <<asker, status, noted, archived, reply, replies>>

LoseTell(h) ==
  /\ reply[h].at = "tell"
  /\ Fail(reply[h].of)
  /\ reply' = [reply EXCEPT ![h] = NoReply]
  /\ UNCHANGED <<askVars, status, noted, chatVars, replies>>

CrashAsk(q) ==
  /\ askAt[q] \in {"insert", "create", "note"}
  /\ Fail(q)
  /\ GoAsk(q, "over")
  /\ UNCHANGED <<asker, status, noted, chatVars, reply, replies>>

CrashReply(h) ==
  /\ reply[h].at # "idle"
  /\ Fail(reply[h].of)
  /\ reply' = [reply EXCEPT ![h] = NoReply]
  /\ UNCHANGED <<askVars, status, noted, chatVars, replies>>

ContactsNext ==
  \/ \E q \in Posts :
       \/ CheckAsk(q) \/ InsertAsk(q) \/ CreateDm(q) \/ NoteDm(q)
       \/ LoseDm(q) \/ CrashAsk(q)
       \/ \E h \in Replies, answer \in {"accepted", "declined"} : ReadAsk(h, q, answer)
  \/ \E h \in Replies :
       \/ WriteStatus(h) \/ RefreshRow(h) \/ TellDm(h) \/ LoseTell(h) \/ CrashReply(h)

ContactsSpec == ContactsInit /\ [][ContactsNext]_contactVars

-------------------------------------------------------------------------------
(* Properties.                                                             *)

\* The two services agree on a request that nobody is at work on: its
\* conversation is locked while it is pending, open once it is accepted, and
\* archived once it is declined or withdrawn.  Excepted: a call failed, two
\* answers overlapped, or the answer came before the request named its
\* conversation, which then stays locked for good.
ServicesAgree ==
  \A q \in Posts \ disturbed :
    askAt[q] = "over" /\ status[q] # "none" /\ (\A h \in Replies : reply[h].of # q) =>
      /\ q \in noted
      /\ q \in locked <=> status[q] # "accepted"
      /\ q \in archived <=> status[q] = "declined"
===============================================================================
