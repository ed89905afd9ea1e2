------------------------------- MODULE SenderKeys -------------------------------
(***************************************************************************)
(* Group messages under sender keys (v6 envelopes, security/senderKeys.ts). *)
(* Each member encrypts with a chain of its own, whose start it posts to   *)
(* the server for every other member.  A device keeps one record for its   *)
(* own chain and one for each peer's, in IndexedDB; each operation loads a *)
(* record, awaits the crypto, and saves the record after it.               *)
(*                                                                         *)
(* A chain is a symbol (its skId), and a message key is a chain with an    *)
(* iteration: a record yields the keys of its iteration and of all later   *)
(* ones.                                                                   *)
(***************************************************************************)
EXTENDS Naturals, FiniteSets

CONSTANTS
  Members, Slots, NoRecord,
  MaxSaid                   \* bound on the messages of the group

\* What IndexedDB and the server keep of a chain.
Records == [chain : [by : Members, k : Nat], iteration : Nat, senderId : Members]

ASSUME MembersAssumption ==
  IsFiniteSet(Members) /\ MaxSaid \in Nat /\ NoRecord \notin Records

VARIABLES
  own, peer,                \* each device's records: sk-own, and sk-peer of each
  posted,                   \* the server's sk:{conversation}:{sender}:{recipient}
  working,                  \* each device's operations under way
  said,                     \* the group's messages
  generated,                \* chains each member has generated
  heard,                    \* the messages each member has read
  overlapped                \* members who saved over a record they had not loaded

groupVars ==
  <<own, peer, posted, working, said, generated, heard, overlapped>>

Chain(u, k) == [by |-> u, k |-> k]

GroupInit ==
  /\ own = [u \in Members |-> NoRecord]
  /\ peer = [u \in Members |-> [v \in Members |-> NoRecord]]
  /\ posted = [u \in Members |-> [v \in Members |-> NoRecord]]
  /\ working = [u \in Members |-> [t \in Slots |-> [kind |-> "free"]]]
  /\ said = {}
  /\ generated = [u \in Members |-> 0]
  /\ heard = [u \in Members |-> {}]
  /\ overlapped = {}

Become(u, t, work) == working' = [working EXCEPT ![u][t] = work]
\* Devices share only the server's answers and what was said before: it is
\* enough that they take turns.
Free(u, t) ==
  /\ working[u][t].kind = "free"
  /\ \A v \in Members \ {u}, x \in Slots : working[v][x].kind = "free"

\* saveSenderKeyState takes a record for the device's own when the record's
\* senderId is the sender it is filed under.
IsOwn(u, sender, record) == record.senderId = sender

Save(u, sender, record) ==
  IF IsOwn(u, sender, record)
  THEN own' = [own EXCEPT ![u] = record] /\ UNCHANGED peer
  ELSE peer' = [peer EXCEPT ![u][sender] = record] /\ UNCHANGED own

Overlaps(u, loaded) ==
  overlapped' = IF own[u] = loaded THEN overlapped ELSE overlapped \union {u}

-------------------------------------------------------------------------------
(* Sending: the group's part of encryptForConversation.                    *)

Speaking(u) == {t \in Slots : working[u][t].kind = "send"}

StartSend(u, t) ==
  /\ Free(u, t)
  /\ Cardinality(said) + Cardinality(Speaking(u)) < MaxSaid
  /\ Become(u, t, [kind |-> "send", record |-> own[u]])
  /\ UNCHANGED <<own, peer, posted, said, generated, heard, overlapped>>

\* No own record was found: generateSenderKey saves a new one.
Generate(u, t) ==
  LET record == [chain |-> Chain(u, generated[u] + 1), iteration |-> 0, senderId |-> u]
  IN /\ working[u][t] = [kind |-> "send", record |-> NoRecord]
     /\ Become(u, t, [kind |-> "post", record |-> record])
     /\ Save(u, u, record)
     /\ generated' = [generated EXCEPT ![u] = @ + 1]
     /\ Overlaps(u, NoRecord)
     /\ UNCHANGED <<posted, said, heard>>

\* uploadSenderKeyDistribution reaches the members whose public key was
\* fetched and for whom the server stored it, perhaps none: an error is
\* swallowed, and nobody posts again.  Then the own record is loaded again.
Post(u, t, reached) ==
  /\ working[u][t].kind = "post"
  /\ posted' = [posted EXCEPT ![u] =
       [v \in Members |-> IF v \in reached THEN working[u][t].record ELSE @[v]]]
  /\ Become(u, t, [kind |-> "send", record |-> own[u]])
  /\ UNCHANGED <<own, peer, said, generated, heard, overlapped>>

\* Slip: the state that was loaded is saved, not the next one.
Unadvanced(record) == record

Advanced(record) == [record EXCEPT !.iteration = @ + 1]

FinishSend(u, t) ==
  LET record == working[u][t].record
  IN /\ working[u][t].kind = "send"
     /\ record # NoRecord
     /\ said' = said \union
          {[id |-> Cardinality(said) + 1, from |-> u,
            chain |-> record.chain, iteration |-> record.iteration]}
     /\ Save(u, u, Advanced(record))
     /\ Overlaps(u, record)
     /\ Become(u, t, [kind |-> "free"])
     /\ UNCHANGED <<posted, generated, heard>>

-------------------------------------------------------------------------------
(* Reading: the keys are fetched when the conversation is opened, and a    *)
(* message may be decrypted at any time and many times.                    *)

Fetch(u, t) ==
  /\ Free(u, t)
  /\ Become(u, t, [kind |-> "fetch",
                   answer |-> [v \in Members |-> IF v = u THEN NoRecord ELSE posted[v][u]]])
  /\ UNCHANGED <<own, peer, posted, said, generated, heard, overlapped>>

\* The distributions are stored as peer records one by one.
StorePeer(u, t, v) ==
  /\ working[u][t].kind = "fetch"
  /\ working[u][t].answer[v] # NoRecord
  /\ peer' = [peer EXCEPT ![u][v] = working[u][t].answer[v]]
  /\ working' = [working EXCEPT ![u][t].answer[v] = NoRecord]
  /\ UNCHANGED <<own, posted, said, generated, heard, overlapped>>

EndFetch(u, t) ==
  /\ working[u][t].kind = "fetch"
  /\ \A v \in Members : working[u][t].answer[v] = NoRecord
  /\ Become(u, t, [kind |-> "free"])
  /\ UNCHANGED <<own, peer, posted, said, generated, heard, overlapped>>

Unlocks(record, m) ==
  /\ record # NoRecord
  /\ record.chain = m.chain
  /\ record.iteration <= m.iteration

StartRead(u, t, m) ==
  /\ Free(u, t)
  /\ Unlocks(peer[u][m.from], m)
  /\ Become(u, t, [kind |-> "read", message |-> m, record |-> peer[u][m.from]])
  /\ UNCHANGED <<own, peer, posted, said, generated, heard, overlapped>>

\* decryptGroupV6, when the record loaded unlocks the message; when not, it
\* changes nothing.
FinishRead(u, t) ==
  LET work == working[u][t]
  IN /\ work.kind = "read"
     /\ Save(u, work.message.from,
             [work.record EXCEPT !.iteration = work.message.iteration + 1])
     /\ heard' = [heard EXCEPT ![u] = @ \union {work.message}]
     /\ Become(u, t, [kind |-> "free"])
     /\ UNCHANGED <<posted, said, generated, overlapped>>

GroupNext ==
  \E u \in Members, t \in Slots :
    \/ StartSend(u, t)
    \/ Generate(u, t)
    \/ \E reached \in SUBSET (Members \ {u}) : Post(u, t, reached)
    \/ FinishSend(u, t)
    \/ Fetch(u, t)
    \/ \E v \in Members : StorePeer(u, t, v)
    \/ EndFetch(u, t)
    \/ \E m \in said : StartRead(u, t, m)
    \/ FinishRead(u, t)

GroupSpec == GroupInit /\ [][GroupNext]_groupVars

-------------------------------------------------------------------------------
(* Properties.                                                             *)

\* What members say on their own chains.  One who has read a peer's message
\* speaks on the peer's chain from then on (AdvancesPerMessage).
OnOwnChain(m) == m.chain.by = m.from

\* Who has fetched a member's key can read each message of that member's own
\* chain, those it said before the key was fetched too, until it has read that
\* one or a later one.  Excepted: authors whose two sends at once saved over
\* each other.
ReadsAsSaid ==
  \A u \in Members : \A m \in said :
    /\ m.from # u /\ OnOwnChain(m) /\ m.from \notin overlapped
    /\ peer[u][m.from] # NoRecord
    /\ ~ \E x \in heard[u] : x.chain = m.chain /\ x.iteration >= m.iteration
    => Unlocks(peer[u][m.from], m)

SameKey(m, x) == m.chain = x.chain /\ m.iteration = x.iteration

\* An author says two messages with one key of its own chain only when two
\* sends at once saved over each other.
OwnKeyOnce ==
  \A m, x \in said :
    m # x /\ SameKey(m, x) /\ m.from = x.from /\ OnOwnChain(m) => m.from \in overlapped

\* A member's own chain goes on by a key per message, and its peers keep up.
ChainsAdvance == ReadsAsSaid /\ OwnKeyOnce

\* "Forward secrecy: chain key advances per message" (senderKeys.ts:5): no two
\* messages share a key.  It does not hold: decrypting a peer's message files
\* the peer's advanced record as the reader's own, the next send uses it and
\* is filed elsewhere, and so does every send after it.
AdvancesPerMessage == \A m, x \in said : SameKey(m, x) => m = x
===============================================================================
