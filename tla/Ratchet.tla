--------------------------------- MODULE Ratchet ---------------------------------
(***************************************************************************)
(* Direct messages under the Double Ratchet (v5 envelopes, security/e2ee.ts). *)
(* Two users, one device each, keep a ratchet state in IndexedDB.  Every   *)
(* encryption and decryption reads the state, awaits the crypto, and       *)
(* writes the state back; nothing serialises them, so a device may have    *)
(* several under way.  Messages reach the peer in any order, and any       *)
(* device may try to decrypt any message of the conversation at any time   *)
(* (a live frame, the history, a refresh).                                 *)
(*                                                                         *)
(* Keys are symbols: a Diffie-Hellman output is the set of its two public  *)
(* keys, a root or chain key is the sequence of outputs mixed into it, and *)
(* a message key is a chain key with a position.  Decryption succeeds      *)
(* when the receiver arrives at the sender's message key.                  *)
(***************************************************************************)
EXTENDS Naturals, Sequences, FiniteSets

CONSTANTS
  Users, Tasks, None,
  MaxSkip,                  \* _DR_MAX_SKIP: 1000
  MaxSent                   \* bound on the messages of the conversation

RatchetKeys == [owner : Users, n : Nat]
ChainKeys == Seq(SUBSET RatchetKeys)
MessageKeys == [chain : ChainKeys, n : Nat]
States ==
  [RK : ChainKeys, CKs : ChainKeys, CKr : ChainKeys,
   DHs : RatchetKeys, DHr : RatchetKeys \union {None},
   Ns : Nat, Nr : Nat, PN : Nat,
   MKSKIPPED : SUBSET [dh : RatchetKeys, key : MessageKeys]]

ASSUME UsersAssumption ==
  /\ \E u, v \in Users : u # v /\ Users = {u, v}
  /\ None \notin RatchetKeys \union States
ASSUME SkipAssumption == MaxSkip \in Nat /\ MaxSent \in Nat

VARIABLES
  ratchet,                  \* dr-state of each device, or None
  task,                     \* encryptions and decryptions under way
  sent,                     \* the conversation's messages
  opened,                   \* messages each device has decrypted
  made,                     \* ratchet keys each device has generated
  overwritten               \* devices that wrote over a state they had not read

dmVars == <<ratchet, task, sent, opened, made, overwritten>>

Peer(u) == CHOOSE v \in Users : v # u

IdentityKey(u) == [owner |-> u, n |-> 0]
RatchetKey(u, n) == [owner |-> u, n |-> n]
DH(mine, theirs) == {mine, theirs}

NoChain == << >>
MessageKey(chain, n) == [chain |-> chain, n |-> n]

Idle == [kind |-> "idle"]
Encryption(state, written) ==
  [kind |-> "encrypt", state |-> state, written |-> written]
Decryption(m, state) == [kind |-> "decrypt", message |-> m, state |-> state]

DmInit ==
  /\ ratchet = [u \in Users |-> None]
  /\ task = [u \in Users |-> [t \in Tasks |-> Idle]]
  /\ sent = {}
  /\ opened = [u \in Users |-> {}]
  /\ made = [u \in Users |-> 0]
  /\ overwritten = {}

-------------------------------------------------------------------------------
(* The ratchet itself.                                                     *)

\* A state nobody has sent or received with.
Blank(u, key) ==
  [RK |-> << DH(IdentityKey(u), IdentityKey(Peer(u))) >>,
   CKs |-> NoChain, CKr |-> NoChain, DHs |-> key, DHr |-> None,
   Ns |-> 0, Nr |-> 0, PN |-> 0, MKSKIPPED |-> {}]

\* The first message goes to the peer's identity key.
SendChain(s, u) ==
  LET target == IF s.DHr = None THEN IdentityKey(Peer(u)) ELSE s.DHr
      mixed == Append(s.RK, DH(s.DHs, target))
  IN IF s.CKs # NoChain THEN s
     ELSE [s EXCEPT !.RK = mixed, !.CKs = mixed, !.DHr = target]

\* Slip: the chain does not move on.
StaysPut(s) == s
AfterSending(s) == [s EXCEPT !.Ns = @ + 1]

\* Entries of MKSKIPPED, each at the place "key:n"; a later one replaces an
\* earlier one.
Skipped(dh, chain, from, to) ==
  {[dh |-> dh, key |-> MessageKey(chain, i)] : i \in from .. to - 1}
Put(new, old) ==
  new \union {x \in old : \A y \in new : x.dh # y.dh \/ x.key.n # y.key.n}

Lesser(i, j) == IF i < j THEN i ELSE j

\* Slip: what the old chain still owes is forgotten.
KeepNothing(s, pn) == s.MKSKIPPED
KeepOldChain(s, pn) ==
  IF s.CKr = NoChain THEN s.MKSKIPPED
  ELSE Put(Skipped(s.DHr, s.CKr, s.Nr, Lesser(pn, s.Nr + MaxSkip)), s.MKSKIPPED)

\* The sender's key is new: a receiving chain from it, and at once a sending
\* chain for the answer.
DHStep(s, m, u, fresh) ==
  LET mine == IF s.DHr = None THEN IdentityKey(u) ELSE s.DHs
      receiving == Append(s.RK, DH(mine, m.dh))
      sending == Append(receiving, DH(fresh, m.dh))
  IN [RK |-> sending, CKs |-> sending, CKr |-> receiving,
      DHs |-> fresh, DHr |-> m.dh, Ns |-> 0, Nr |-> 0, PN |-> s.Ns,
      MKSKIPPED |-> KeepOldChain(s, m.pn)]

Arrive(s, m, u, fresh) == IF m.dh = s.DHr THEN s ELSE DHStep(s, m, u, fresh)

IsSkipped(s, m) == \E x \in s.MKSKIPPED : x.dh = m.dh /\ x.key.n = m.n

\* decryptMessageDR, up to what it writes: whether the message opens, and the
\* state then stored.
Opens(s, m, u, fresh) ==
  LET r == Arrive(s, m, u, fresh)
  IN IF IsSkipped(s, m)
     THEN [dh |-> m.dh, key |-> m.key] \in s.MKSKIPPED
     ELSE /\ r.CKr # NoChain
          /\ m.n >= r.Nr
          /\ MessageKey(r.CKr, Lesser(m.n, r.Nr + MaxSkip)) = m.key

DropUsed(s, m) == {x \in s.MKSKIPPED : x.dh # m.dh \/ x.key.n # m.n}

AfterOpening(s, m, u, fresh) ==
  LET r == Arrive(s, m, u, fresh)
  IN IF IsSkipped(s, m) THEN [s EXCEPT !.MKSKIPPED = DropUsed(s, m)]
     ELSE [r EXCEPT !.Nr = m.n + 1,
                    !.MKSKIPPED = Put(Skipped(m.dh, r.CKr, r.Nr, m.n), r.MKSKIPPED)]

-------------------------------------------------------------------------------
(* encryptMessageDR.                                                       *)

Encrypting(u) == {t \in Tasks : task[u][t].kind = "encrypt"}

\* Operations of different devices touch nothing in common but what was sent
\* before: it is enough that they take turns.
Resting(u) == \A t \in Tasks : task[u][t] = Idle

StartEncrypt(u, t) ==
  /\ task[u][t] = Idle
  /\ Resting(Peer(u))
  /\ Cardinality(sent) + Cardinality(Encrypting(u)) < MaxSent
  /\ task' = [task EXCEPT ![u][t] = Encryption(ratchet[u], ratchet[u])]
  /\ UNCHANGED <<ratchet, sent, opened, made, overwritten>>

Overwrites(u, read) ==
  overwritten' = IF ratchet[u] = read THEN overwritten ELSE overwritten \union {u}

\* _getOrInitDRState found nothing: it stores a state of its own.
Initialise(u, t) ==
  LET fresh == RatchetKey(u, made[u] + 1)
  IN /\ task[u][t] = Encryption(None, None)
     /\ ratchet' = [ratchet EXCEPT ![u] = Blank(u, fresh)]
     /\ task' = [task EXCEPT ![u][t] = Encryption(Blank(u, fresh), Blank(u, fresh))]
     /\ made' = [made EXCEPT ![u] = @ + 1]
     /\ Overwrites(u, None)
     /\ UNCHANGED <<sent, opened>>

FinishEncrypt(u, t) ==
  /\ task[u][t].kind = "encrypt"
  /\ task[u][t].state # None
  /\ LET s == SendChain(task[u][t].state, u)
     IN /\ sent' = sent \union
             {[id |-> Cardinality(sent) + 1, from |-> u, dh |-> s.DHs,
               pn |-> s.PN, n |-> s.Ns, key |-> MessageKey(s.CKs, s.Ns)]}
        /\ ratchet' = [ratchet EXCEPT ![u] = AfterSending(s)]
  /\ Overwrites(u, task[u][t].written)
  /\ task' = [task EXCEPT ![u][t] = Idle]
  /\ UNCHANGED <<opened, made>>

-------------------------------------------------------------------------------
(* decryptMessageDR, of the peer's messages and of one's own.              *)

\* A state no device has stored: initialised on reading, kept when it opens.
Loaded(u, fresh) == IF ratchet[u] = None THEN Blank(u, fresh) ELSE ratchet[u]
Fresh(u) == RatchetKey(u, made[u] + 1)

\* A message that does not open changes nothing and leaves its placeholder.
StartDecrypt(u, t, m) ==
  /\ task[u][t] = Idle
  /\ Resting(Peer(u))
  /\ Opens(Loaded(u, Fresh(u)), m, u, Fresh(u))
  /\ task' = [task EXCEPT ![u][t] = Decryption(m, ratchet[u])]
  /\ UNCHANGED <<ratchet, sent, opened, made, overwritten>>

FinishDecrypt(u, t) ==
  /\ task[u][t].kind = "decrypt"
  /\ LET m == task[u][t].message
         read == task[u][t].state
         s == IF read = None THEN Blank(u, Fresh(u)) ELSE read
         next == AfterOpening(s, m, u, Fresh(u))
     IN /\ ratchet' = [ratchet EXCEPT ![u] = next]
        /\ opened' = [opened EXCEPT ![u] = @ \union {m}]
        /\ made' = IF next.DHs = Fresh(u) THEN [made EXCEPT ![u] = @ + 1] ELSE made
        /\ Overwrites(u, read)
  /\ task' = [task EXCEPT ![u][t] = Idle]
  /\ UNCHANGED sent

DmNext ==
  \E u \in Users, t \in Tasks :
    \/ StartEncrypt(u, t)
    \/ Initialise(u, t)
    \/ FinishEncrypt(u, t)
    \/ \E m \in sent : StartDecrypt(u, t, m)
    \/ FinishDecrypt(u, t)

DmSpec == DmInit /\ [][DmNext]_dmVars

-------------------------------------------------------------------------------
(* Properties.                                                             *)

\* Both wrote their first message before they had read the other's.
Crossed ==
  \A u \in Users : ratchet[u] # None /\ ratchet[u].DHr = IdentityKey(Peer(u))

\* More messages in one chain than the receiver is willing to skip.
TooLong(m) == \E x \in sent : x.from = m.from /\ x.dh = m.dh /\ x.n > MaxSkip

Readable(u, m) == Opens(Loaded(u, Fresh(u)), m, u, Fresh(u))

\* A message its receiver has not decrypted yet can be decrypted now,
\* whatever was read before it and however the two sides alternated: "out-of-
\* order messages decrypt correctly without reordering".  The code does not
\* manage it after the two first messages crossed, after a device wrote over
\* a state it had not read, or beyond _DR_MAX_SKIP; and in no other case.
AnyOrder ==
  \A u \in Users : \A m \in sent \ opened[u] :
    m.from # u => Readable(u, m) \/ Crossed \/ overwritten # {} \/ TooLong(m)

\* A message key encrypts one message, unless its author's device ran two
\* operations on one state.
OneMessagePerKey ==
  \A m, x \in sent : m # x /\ m.key = x.key => m.from = x.from /\ m.from \in overwritten

\* Once read, a message cannot be decrypted again from the state its reader
\* keeps, nor ever from its author's: the key is gone, from the chain and from
\* the store of skipped keys.
UsedKeysGone ==
  \A u \in Users : \A m \in sent :
    m.from = u \/ (m \in opened[u] /\ u \notin overwritten) => ~Readable(u, m)

\* A message key is used once: for one message, and not again after its reading.
KeysUsedOnce == OneMessagePerKey /\ UsedKeysGone
===============================================================================
