------------------------------- MODULE ChatSend -------------------------------
(***************************************************************************)
(* Sending messages to one conversation of chat-service.                   *)
(*                                                                         *)
(* A handler is one POST /conversations/{id}/messages in flight.  Its      *)
(* awaits are where other handlers run, so every database statement is an  *)
(* action of its own; the statements from the duplicate lookup to the      *)
(* commit are one READ COMMITTED transaction.  next_message_seq updates    *)
(* the conversation's counter row, which stays locked until that           *)
(* transaction ends.                                                       *)
(*                                                                         *)
(* The message table is a function from sequence numbers (its primary key  *)
(* with the conversation) to client_msg_id; SenderOf gives each id its     *)
(* author, since ids are random and minted by the author's client.         *)
(***************************************************************************)
EXTENDS Naturals, Sequences

CONSTANTS
  Users, ClientIds, Handlers, Nodes,
  SenderOf,                 \* author of each client_msg_id
  NodeOf,                   \* the chat-service process a handler runs in
  NoHandler, NoMsg,
  AntiSpam,                 \* SpaceSettings.anti_spam_enabled
  Window                    \* bodies compared for duplicates: recent[-5:]

ASSUME SendersAssumption == SenderOf \in [ClientIds -> Users]
ASSUME NodesAssumption == NodeOf \in [Handlers -> Nodes]
ASSUME NullsAssumption == NoHandler \notin Handlers /\ NoMsg \notin ClientIds
ASSUME SettingsAssumption == AntiSpam \in BOOLEAN /\ Window \in Nat \ {0}

VARIABLES
  members, banned,          \* committed conversation_members and bans
  rows,                     \* committed messages: seq -> client_msg_id
  nextSeq,                  \* committed conversation_sequences.next_seq
  seqLock,                  \* the handler holding that row's lock
  recent,                   \* per process: bodies each user sent lately
  pc, req, mySeq,           \* each handler: next step, message, its seq
  announced,                \* how many times each message was published
  acks                      \* <<client_msg_id, seq>> of every 201 answered

memberVars == <<members, banned>>
storeVars == <<rows, nextSeq, seqLock>>
vars == <<members, banned, rows, nextSeq, seqLock, recent, pc, req, mySeq,
          announced, acks>>

Steps == {"idle", "moderate", "lookup", "bans", "sequence", "insert",
          "announce", "reply"}

TypeOK ==
  /\ members \subseteq Users
  /\ banned \subseteq Users
  /\ DOMAIN rows \subseteq Nat \ {0}
  /\ \A s \in DOMAIN rows : rows[s] \in ClientIds
  /\ nextSeq \in Nat \ {0}
  /\ seqLock \in Handlers \union {NoHandler}
  /\ recent \in [Nodes -> [Users -> Seq(ClientIds)]]
  /\ pc \in [Handlers -> Steps]
  /\ req \in [Handlers -> ClientIds \union {NoMsg}]
  /\ mySeq \in [Handlers -> Nat]
  /\ announced \in [ClientIds -> Nat]
  /\ acks \subseteq ClientIds \X Nat

Author(h) == SenderOf[req[h]]

Go(h, step) == pc' = [pc EXCEPT ![h] = step]

\* Answered, refused or failed: the handler's locals are gone.
Finish(gone) ==
  /\ pc' = [h \in Handlers |-> IF h \in gone THEN "idle" ELSE pc[h]]
  /\ req' = [h \in Handlers |-> IF h \in gone THEN NoMsg ELSE req[h]]
  /\ mySeq' = [h \in Handlers |-> IF h \in gone THEN 0 ELSE mySeq[h]]

Init ==
  /\ members = Users
  /\ banned = {}
  /\ rows = << >>
  /\ nextSeq = 1
  /\ seqLock = NoHandler
  /\ recent = [n \in Nodes |-> [u \in Users |-> << >>]]
  /\ pc = [h \in Handlers |-> "idle"]
  /\ req = [h \in Handlers |-> NoMsg]
  /\ mySeq = [h \in Handlers |-> 0]
  /\ announced = [c \in ClientIds |-> 0]
  /\ acks = {}

-------------------------------------------------------------------------------
(* The route: membership, then moderation, before any transaction.         *)

\* A request arrives, maybe a retry; the first query finds its author among
\* the members (otherwise the answer is 404) and not banned (otherwise the
\* moderation verdict is BANNED): both refusals change nothing.
Receive(h, c) ==
  /\ pc[h] = "idle"
  /\ SenderOf[c] \in members \ banned
  /\ req' = [req EXCEPT ![h] = c]
  /\ Go(h, "moderate")
  /\ UNCHANGED <<memberVars, storeVars, recent, mySeq, announced, acks>>

Recent(h) == recent[NodeOf[h]][Author(h)]

IsDuplicateBody(h) == \E i \in DOMAIN Recent(h) : Recent(h)[i] = req[h]

Remembered(h) ==
  LET grown == Append(Recent(h), req[h])
  IN  IF Len(grown) > Window THEN Tail(grown) ELSE grown

Remember(h) ==
  recent' = IF AntiSpam
              THEN [recent EXCEPT ![NodeOf[h]][Author(h)] = Remembered(h)]
              ELSE recent

\* The body passes: remembered, then the AI verdict and the store.
Admit(h) ==
  /\ pc[h] = "moderate"
  /\ ~ (AntiSpam /\ IsDuplicateBody(h))
  /\ Remember(h)
  /\ Go(h, "lookup")
  /\ UNCHANGED <<memberVars, storeVars, req, mySeq, announced, acks>>

\* 403 or 429 before the body is remembered: banned, muted, slow mode, more
\* than 20 a minute, or the same body again.  Clocks are left out: all but
\* the last may happen to any request.
RefuseEarly(h) ==
  /\ pc[h] = "moderate"
  /\ Finish({h})
  /\ UNCHANGED <<memberVars, storeVars, recent, announced, acks>>

\* 403 after the body is remembered: word lists, link floods, posting rights
\* of the space, the AI service's verdict.
RefuseLate(h) ==
  /\ pc[h] = "moderate"
  /\ ~ (AntiSpam /\ IsDuplicateBody(h))
  /\ Remember(h)
  /\ Finish({h})
  /\ UNCHANGED <<memberVars, storeVars, announced, acks>>

-------------------------------------------------------------------------------
(* The store: one transaction per call, one action per statement.          *)

\* A stored message found again is returned with is_new False: no announcement.
FoundStep == "reply"

\* SELECT by client_msg_id.
Found(h, s) ==
  /\ pc[h] = "lookup"
  /\ s \in DOMAIN rows
  /\ rows[s] = req[h]
  /\ mySeq' = [mySeq EXCEPT ![h] = s]
  /\ Go(h, FoundStep)
  /\ UNCHANGED <<memberVars, storeVars, recent, req, announced, acks>>

NotFound(h) ==
  /\ pc[h] = "lookup"
  /\ \A s \in DOMAIN rows : rows[s] # req[h]
  /\ Go(h, "bans")
  /\ UNCHANGED <<memberVars, storeVars, recent, req, mySeq, announced, acks>>

\* The conversation is loaded again inside the transaction.
BanCheck(h) ==
  /\ pc[h] = "bans"
  /\ \/ /\ Author(h) \in banned
        /\ Finish({h})
     \/ /\ Author(h) \notin banned
        /\ Go(h, "sequence")
        /\ UNCHANGED <<req, mySeq>>
  /\ UNCHANGED <<memberVars, storeVars, recent, announced, acks>>

\* Slip: a counter outside the transaction.
CounterAlreadyAdvanced == nextSeq + 1

\* The increment is part of the transaction: nobody sees it before the commit.
CounterWhileHeld == nextSeq

\* next_message_seq: waits for the row lock and takes the counter's value.
TakeSeq(h) ==
  /\ pc[h] = "sequence"
  /\ seqLock = NoHandler
  /\ seqLock' = h
  /\ mySeq' = [mySeq EXCEPT ![h] = nextSeq]
  /\ nextSeq' = CounterWhileHeld
  /\ Go(h, "insert")
  /\ UNCHANGED <<memberVars, rows, recent, req, announced, acks>>

\* Slip: no unique index on client_msg_id.
PrimaryKeyAdmits(h) == mySeq[h] \notin DOMAIN rows

\* Primary key (conversation_id, seq) and idx_messages_client_dedup.
IndexAdmits(h) ==
  /\ mySeq[h] \notin DOMAIN rows
  /\ \A s \in DOMAIN rows : rows[s] # req[h]

\* INSERT and COMMIT.
Commit(h) ==
  /\ pc[h] = "insert"
  /\ IndexAdmits(h)
  /\ rows' = [s \in DOMAIN rows \union {mySeq[h]} |->
                IF s = mySeq[h] THEN req[h] ELSE rows[s]]
  /\ nextSeq' = mySeq[h] + 1
  /\ seqLock' = NoHandler
  /\ Go(h, "announce")
  /\ UNCHANGED <<memberVars, recent, req, mySeq, announced, acks>>

\* Slip: the failed insert is answered like a successful one.
ConflictAnswered(h) ==
  /\ pc[h] = "insert"
  /\ ~ IndexAdmits(h)
  /\ seqLock' = NoHandler
  /\ Go(h, "reply")
  /\ UNCHANGED <<memberVars, rows, nextSeq, recent, req, mySeq, announced, acks>>

\* INSERT refused by an index: rolled back, counter included.  IntegrityError
\* is no ValueError, so the route answers 500.
Conflict(h) ==
  /\ pc[h] = "insert"
  /\ ~ IndexAdmits(h)
  /\ seqLock' = NoHandler
  /\ Finish({h})
  /\ UNCHANGED <<memberVars, rows, nextSeq, recent, announced, acks>>

\* publish_message_event and the push, for a new message only.
Announce(h) ==
  /\ pc[h] = "announce"
  /\ announced' = [announced EXCEPT ![req[h]] = @ + 1]
  /\ Go(h, "reply")
  /\ UNCHANGED <<memberVars, storeVars, recent, req, mySeq, acks>>

\* 201 with the stored message.
Reply(h) ==
  /\ pc[h] = "reply"
  /\ acks' = acks \union {<<req[h], mySeq[h]>>}
  /\ Finish({h})
  /\ UNCHANGED <<memberVars, storeVars, recent, announced>>

-------------------------------------------------------------------------------
(* Failures and the rest of the space.                                     *)

\* Slip: the lock outlives its transaction.
LockLeft(gone) == seqLock' = seqLock

Unlock(gone) == seqLock' = IF seqLock \in gone THEN NoHandler ELSE seqLock

\* A statement fails (connection lost, pool exhausted) or the thread root is not
\* found: rollback and an error.  A message already committed stays committed,
\* unannounced.
DbError(h) ==
  /\ pc[h] \in {"lookup", "bans", "sequence", "insert", "announce"}
  /\ Unlock({h})
  /\ Finish({h})
  /\ UNCHANGED <<memberVars, rows, nextSeq, recent, announced, acks>>

HandlersOf(n) == {h \in Handlers : NodeOf[h] = n}

\* A process dies: its handlers vanish, its transactions roll back, and the
\* moderation engine's memory is lost.
Crash(n) ==
  /\ Finish(HandlersOf(n))
  /\ Unlock(HandlersOf(n))
  /\ recent' = [recent EXCEPT ![n] = [u \in Users |-> << >>]]
  /\ UNCHANGED <<memberVars, rows, nextSeq, announced, acks>>

Ban(u) ==
  /\ banned' = banned \union {u}
  /\ members' = members \ {u}
  /\ UNCHANGED <<storeVars, recent, pc, req, mySeq, announced, acks>>

Unban(u) ==
  /\ banned' = banned \ {u}
  /\ UNCHANGED <<members, storeVars, recent, pc, req, mySeq, announced, acks>>

Leave(u) ==
  /\ members' = members \ {u}
  /\ UNCHANGED <<banned, storeVars, recent, pc, req, mySeq, announced, acks>>

\* add_members looks at no ban.
AddMember(u) ==
  /\ members' = members \union {u}
  /\ UNCHANGED <<banned, storeVars, recent, pc, req, mySeq, announced, acks>>

HandlerStep(h) ==
  \/ Admit(h) \/ RefuseEarly(h) \/ RefuseLate(h)
  \/ \E s \in DOMAIN rows : Found(h, s)
  \/ NotFound(h) \/ BanCheck(h) \/ TakeSeq(h) \/ Commit(h) \/ Conflict(h)
  \/ Announce(h) \/ Reply(h)

Next ==
  \/ \E h \in Handlers, c \in ClientIds : Receive(h, c)
  \/ \E h \in Handlers : HandlerStep(h) \/ DbError(h)
  \/ \E n \in Nodes : Crash(n)
  \/ \E u \in Users : Ban(u) \/ Unban(u) \/ Leave(u) \/ AddMember(u)

Spec == Init /\ [][Next]_vars

\* The event loop resumes every coroutine and Postgres serves lock waiters in
\* order, so a handler that keeps being able to go on does.
Fairness == \A h \in Handlers : SF_vars(HandlerStep(h))

FairSpec == Spec /\ Fairness

-------------------------------------------------------------------------------
(* Properties.                                                             *)
(* (Definitions marked "slip" above are wrong on purpose: each is a        *)
(* variant of the definition after it that breaks one of these.)           *)

\* A reader that has seen sequence number s has been able to see every smaller
\* one: numbers become visible in order and without holes, whatever rolls back.
\* The clients' after_seq catch-up (sync_state) relies on it.
SeqsContiguous == DOMAIN rows = 1 .. nextSeq - 1

\* However often a client retries, and however its retries overlap, a message
\* is stored at most once.
StoredOnce == \A s, t \in DOMAIN rows : rows[s] = rows[t] => s = t

\* Only a stored message is announced to the other members, and only once.
AnnouncedOnce ==
  \A c \in ClientIds :
    /\ announced[c] <= 1
    /\ announced[c] = 1 => \E s \in DOMAIN rows : rows[s] = c

\* Every 201 names the message as stored, so all answers to one message agree.
AcksMatchStore == \A a \in acks : a[2] \in DOMAIN rows /\ rows[a[2]] = a[1]

\* Who is where: the lock's holder is the handler about to insert, with the
\* counter's value; a handler about to announce or answer holds the row of its
\* message; one about to announce is the only one, and the first.
HandlersAgree ==
  /\ \A h \in Handlers :
       /\ pc[h] # "idle" => req[h] \in ClientIds
       /\ pc[h] = "insert" <=> seqLock = h
       /\ pc[h] = "insert" => mySeq[h] = nextSeq
       /\ pc[h] \in {"announce", "reply"} =>
            mySeq[h] \in DOMAIN rows /\ rows[mySeq[h]] = req[h]
       /\ pc[h] = "announce" => announced[req[h]] = 0
  /\ \A g, h \in Handlers :
       pc[g] = "announce" /\ pc[h] = "announce" /\ req[g] = req[h] => g = h

\* The inductive invariant: the four properties above hold because of
\* HandlersAgree, and each step needs all of them.
IInv ==
  /\ TypeOK
  /\ rows \in [1 .. nextSeq - 1 -> ClientIds]
  /\ StoredOnce
  /\ HandlersAgree
  /\ AnnouncedOnce
  /\ AcksMatchStore

\* The handlers together behave like the append-only log of Timeline.
Log == INSTANCE Timeline WITH log <- rows
ImplementsTimeline == Log!Spec

\* No request waits for ever, for the row lock in particular.
RequestsEnd == \A h \in Handlers : pc[h] # "idle" ~> pc[h] = "idle"
===============================================================================
