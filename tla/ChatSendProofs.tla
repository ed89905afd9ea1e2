---------------------------- MODULE ChatSendProofs ----------------------------
(***************************************************************************)
(* Proofs about ChatSend, for any number of handlers, processes, users     *)
(* and messages.                                                           *)
(***************************************************************************)
EXTENDS ChatSend, TLAPS

USE NullsAssumption, SettingsAssumption, NodesAssumption, SendersAssumption

LEMMA InitInv == Init => IInv
  BY DEF Init, IInv, TypeOK, Steps, StoredOnce, HandlersAgree, AnnouncedOnce,
         AcksMatchStore

\* Remembering a body keeps the moderation memory well typed.
LEMMA RememberType ==
  ASSUME TypeOK, NEW h \in Handlers, req[h] \in ClientIds, Remember(h)
  PROVE  recent' \in [Nodes -> [Users -> Seq(ClientIds)]]
  <1>1. Recent(h) \in Seq(ClientIds)
    BY DEF TypeOK, Recent, Author
  <1>2. Remembered(h) \in Seq(ClientIds)
    <2> DEFINE grown == Append(Recent(h), req[h])
    <2>1. grown \in Seq(ClientIds) /\ grown # << >>
      BY <1>1
    <2>2. Tail(grown) \in Seq(ClientIds)
      BY <2>1
    <2> QED
      BY <2>1, <2>2 DEF Remembered
  <1> QED
    BY <1>2 DEF TypeOK, Remember

\* A handler that ends, with whatever lock it held, disturbs nobody.
LEMMA FinishInv ==
  ASSUME IInv, NEW gone \in SUBSET Handlers, Finish(gone), Unlock(gone),
         recent' \in [Nodes -> [Users -> Seq(ClientIds)]],
         UNCHANGED <<memberVars, rows, nextSeq, announced, acks>>
  PROVE  IInv'
  <1>1. TypeOK'
    BY DEF IInv, TypeOK, Finish, Unlock, memberVars, Steps
  <1>2. HandlersAgree'
    BY DEF IInv, TypeOK, HandlersAgree, Finish, Unlock
  <1> QED
    BY <1>1, <1>2 DEF IInv, StoredOnce, AnnouncedOnce, AcksMatchStore

\* Ending without touching the lock is the same when the handlers that end do
\* not hold it.
LEMMA FinishUnlocked ==
  ASSUME IInv, NEW h \in Handlers, pc[h] # "insert", Finish({h}),
         recent' \in [Nodes -> [Users -> Seq(ClientIds)]],
         UNCHANGED <<memberVars, storeVars, announced, acks>>
  PROVE  IInv'
  <1>1. Unlock({h})
    BY DEF IInv, HandlersAgree, Unlock, storeVars
  <1> QED
    BY <1>1, FinishInv DEF storeVars

\* A step that only moves handlers between steps that hold nothing, and only
\* adds to the moderation memory, disturbs nothing.
LEMMA MoveInv ==
  ASSUME IInv, NEW h \in Handlers, NEW step \in {"lookup", "bans", "sequence"},
         pc[h] \in {"moderate", "lookup", "bans"}, Go(h, step),
         recent' \in [Nodes -> [Users -> Seq(ClientIds)]],
         UNCHANGED <<memberVars, storeVars, req, mySeq, announced, acks>>
  PROVE  IInv'
  <1>1. TypeOK'
    BY DEF IInv, TypeOK, Go, memberVars, storeVars, Steps
  <1>2. HandlersAgree'
    BY DEF IInv, TypeOK, HandlersAgree, Go, storeVars
  <1> QED
    BY <1>1, <1>2 DEF IInv, StoredOnce, AnnouncedOnce, AcksMatchStore, storeVars

LEMMA ReceiveInv ==
  ASSUME IInv, NEW h \in Handlers, NEW c \in ClientIds, Receive(h, c)
  PROVE  IInv'
  <1>1. TypeOK'
    BY DEF IInv, TypeOK, Receive, Go, memberVars, storeVars, Steps
  <1>2. HandlersAgree'
    BY DEF IInv, TypeOK, HandlersAgree, Receive, Go, storeVars
  <1> QED
    BY <1>1, <1>2
       DEF IInv, StoredOnce, AnnouncedOnce, AcksMatchStore, Receive, storeVars

LEMMA FoundInv ==
  ASSUME IInv, NEW h \in Handlers, NEW s \in DOMAIN rows, Found(h, s)
  PROVE  IInv'
  <1>1. TypeOK'
    BY DEF IInv, TypeOK, Found, FoundStep, Go, memberVars, storeVars, Steps
  <1>2. HandlersAgree'
    BY DEF IInv, TypeOK, HandlersAgree, Found, FoundStep, Go, storeVars
  <1> QED
    BY <1>1, <1>2
       DEF IInv, StoredOnce, AnnouncedOnce, AcksMatchStore, Found, storeVars

LEMMA TakeSeqInv ==
  ASSUME IInv, NEW h \in Handlers, TakeSeq(h)
  PROVE  IInv'
  <1>1. TypeOK'
    BY DEF IInv, TypeOK, TakeSeq, CounterWhileHeld, Go, memberVars, Steps
  <1>2. HandlersAgree'
    BY DEF IInv, TypeOK, HandlersAgree, TakeSeq, CounterWhileHeld, Go
  <1> QED
    BY <1>1, <1>2
       DEF IInv, StoredOnce, AnnouncedOnce, AcksMatchStore, TakeSeq,
           CounterWhileHeld

\* The commit appends: the row comes right after all the others.
LEMMA CommitAppends ==
  ASSUME IInv, NEW h \in Handlers, Commit(h)
  PROVE  /\ mySeq[h] = nextSeq /\ nextSeq' = nextSeq + 1
         /\ DOMAIN rows = 1 .. nextSeq - 1 /\ DOMAIN rows' = 1 .. nextSeq
         /\ rows'[nextSeq] = req[h] /\ req[h] \in ClientIds
         /\ \A s \in DOMAIN rows : rows'[s] = rows[s] /\ rows[s] # req[h]
         /\ rows' \in [1 .. nextSeq' - 1 -> ClientIds]
  <1>1. mySeq[h] = nextSeq /\ req[h] \in ClientIds /\ nextSeq \in Nat \ {0}
    BY DEF IInv, HandlersAgree, Commit, TypeOK
  <1>2. DOMAIN rows = 1 .. nextSeq - 1
    BY DEF IInv
  <1>3. (1 .. nextSeq - 1) \union {nextSeq} = 1 .. nextSeq
    BY <1>1
  <1>4. rows' = [s \in 1 .. nextSeq |-> IF s = nextSeq THEN req[h] ELSE rows[s]]
    BY <1>1, <1>2, <1>3 DEF Commit
  <1>5. \A s \in DOMAIN rows : rows[s] # req[h] /\ rows[s] \in ClientIds
    BY <1>2 DEF Commit, IndexAdmits, IInv
  <1>6. nextSeq' = nextSeq + 1 /\ nextSeq' - 1 = nextSeq
    BY <1>1 DEF Commit
  <1>7. \A s \in 1 .. nextSeq : s = nextSeq \/ s \in DOMAIN rows
    BY <1>1, <1>2
  <1>8. rows' \in [1 .. nextSeq' - 1 -> ClientIds]
    BY <1>1, <1>4, <1>5, <1>6, <1>7
  <1> QED
    BY <1>1, <1>2, <1>4, <1>5, <1>6, <1>8

LEMMA CommitInv ==
  ASSUME IInv, NEW h \in Handlers, Commit(h)
  PROVE  IInv'
  <1>a. /\ mySeq[h] = nextSeq /\ nextSeq \in Nat \ {0} /\ nextSeq' = nextSeq + 1
        /\ DOMAIN rows = 1 .. nextSeq - 1 /\ DOMAIN rows' = 1 .. nextSeq
        /\ rows'[nextSeq] = req[h] /\ req[h] \in ClientIds
        /\ \A s \in DOMAIN rows : rows'[s] = rows[s] /\ rows[s] # req[h]
        /\ rows' \in [1 .. nextSeq' - 1 -> ClientIds]
    BY CommitAppends DEF IInv, TypeOK
  <1>b. \A s \in DOMAIN rows' : s = nextSeq \/ s \in DOMAIN rows
    BY <1>a
  <1>c. nextSeq \in DOMAIN rows' /\ \A s \in DOMAIN rows : s \in DOMAIN rows'
    BY <1>a
  <1>1. TypeOK'
    <2>1. DOMAIN rows' \subseteq Nat \ {0} /\ \A s \in DOMAIN rows' : rows'[s] \in ClientIds
      BY <1>a
    <2> QED
      BY <1>a, <2>1, SMTT(20) DEF IInv, TypeOK, Commit, Go, memberVars, Steps
  <1>2. StoredOnce'
    BY <1>a, <1>b DEF IInv, StoredOnce
  <1>3. \A c \in ClientIds : (\E s \in DOMAIN rows : rows[s] = c)
                               => \E s \in DOMAIN rows' : rows'[s] = c
    BY <1>a, <1>c
  <1>4. AnnouncedOnce'
    BY <1>3 DEF IInv, AnnouncedOnce, Commit
  <1>5. AcksMatchStore'
    BY <1>a, <1>c DEF IInv, AcksMatchStore, Commit
  <1>6. announced[req[h]] = 0
    <2>1. announced[req[h]] \in Nat /\ announced[req[h]] <= 1
      BY <1>a DEF IInv, TypeOK, AnnouncedOnce
    <2>2. announced[req[h]] # 1
      BY <1>a DEF IInv, AnnouncedOnce
    <2> QED
      BY <2>1, <2>2
  <1>7. \A g \in Handlers : pc[g] \in {"announce", "reply"} => req[g] # req[h]
    BY <1>a DEF IInv, HandlersAgree
  <1>8. HandlersAgree'
    <2>1. ASSUME NEW g \in Handlers
          PROVE  /\ pc'[g] # "idle" => req'[g] \in ClientIds
                 /\ pc'[g] = "insert" <=> seqLock' = g
                 /\ pc'[g] = "insert" => mySeq'[g] = nextSeq'
                 /\ pc'[g] \in {"announce", "reply"} =>
                      mySeq'[g] \in DOMAIN rows' /\ rows'[mySeq'[g]] = req'[g]
                 /\ pc'[g] = "announce" => announced'[req'[g]] = 0
      <3>1. CASE g = h
        BY <3>1, <1>6, <1>a, <1>c DEF IInv, TypeOK, HandlersAgree, Commit, Go
      <3>2. CASE g # h
        <4>1. pc'[g] = pc[g] /\ pc[g] # "insert" /\ seqLock' # g
          BY <3>2 DEF IInv, TypeOK, HandlersAgree, Commit, Go
        <4>2. pc[g] \in {"announce", "reply"} =>
                mySeq[g] \in DOMAIN rows /\ rows[mySeq[g]] = req[g]
          BY DEF IInv, HandlersAgree
        <4> QED
          BY <1>a, <1>c, <4>1, <4>2 DEF IInv, HandlersAgree, Commit
      <3> QED
        BY <3>1, <3>2
    <2>2. \A g, k \in Handlers :
            pc'[g] = "announce" /\ pc'[k] = "announce" /\ req'[g] = req'[k] => g = k
      BY <1>7 DEF IInv, TypeOK, HandlersAgree, Commit, Go
    <2> QED
      BY <2>1, <2>2 DEF HandlersAgree
  <1> QED
    BY <1>1, <1>2, <1>4, <1>5, <1>8, <1>a DEF IInv

LEMMA AnnounceInv ==
  ASSUME IInv, NEW h \in Handlers, Announce(h)
  PROVE  IInv'
  <1>1. /\ req[h] \in ClientIds /\ announced[req[h]] = 0
        /\ mySeq[h] \in DOMAIN rows /\ rows[mySeq[h]] = req[h]
    BY DEF IInv, HandlersAgree, Announce
  <1>2. TypeOK'
    BY <1>1 DEF IInv, TypeOK, Announce, Go, memberVars, storeVars, Steps
  <1>3. AnnouncedOnce'
    BY <1>1 DEF IInv, TypeOK, AnnouncedOnce, Announce, storeVars
  <1>4. HandlersAgree'
    BY <1>1, SMTT(20) DEF IInv, TypeOK, HandlersAgree, Announce, Go, storeVars
  <1> QED
    BY <1>2, <1>3, <1>4 DEF IInv, StoredOnce, AcksMatchStore, Announce, storeVars

LEMMA ReplyInv ==
  ASSUME IInv, NEW h \in Handlers, Reply(h)
  PROVE  IInv'
  <1>1. /\ req[h] \in ClientIds /\ mySeq[h] \in Nat
        /\ mySeq[h] \in DOMAIN rows /\ rows[mySeq[h]] = req[h]
    BY DEF IInv, TypeOK, HandlersAgree, Reply
  <1>2. TypeOK'
    <2>1. acks' \subseteq ClientIds \X Nat
      BY <1>1 DEF IInv, TypeOK, Reply
    <2> QED
      BY <2>1 DEF IInv, TypeOK, Reply, Finish, memberVars, storeVars, Steps
  <1>3. HandlersAgree'
    BY DEF IInv, TypeOK, HandlersAgree, Reply, Finish, storeVars
  <1>4. AcksMatchStore'
    BY <1>1 DEF IInv, AcksMatchStore, Reply, storeVars
  <1> QED
    BY <1>2, <1>3, <1>4 DEF IInv, StoredOnce, AnnouncedOnce, Reply, storeVars

LEMMA NextInv == IInv /\ [Next]_vars => IInv'
  <1> SUFFICES ASSUME IInv, [Next]_vars PROVE IInv'
    OBVIOUS
  <1>1. ASSUME NEW h \in Handlers, NEW c \in ClientIds, Receive(h, c) PROVE IInv'
    BY <1>1, ReceiveInv
  <1>2. ASSUME NEW h \in Handlers, HandlerStep(h) PROVE IInv'
    <2>1. recent \in [Nodes -> [Users -> Seq(ClientIds)]] /\ TypeOK
      BY DEF IInv, TypeOK
    <2>2. pc[h] # "idle" => req[h] \in ClientIds
      BY DEF IInv, HandlersAgree
    <2>3. CASE Admit(h)
      BY <2>1, <2>2, <2>3, MoveInv, RememberType DEF Admit
    <2>4. CASE RefuseEarly(h)
      BY <2>1, <2>4, FinishUnlocked DEF RefuseEarly
    <2>5. CASE RefuseLate(h)
      BY <2>1, <2>2, <2>5, FinishUnlocked, RememberType DEF RefuseLate
    <2>6. CASE \E s \in DOMAIN rows : Found(h, s)
      BY <2>6, FoundInv
    <2>7. CASE NotFound(h)
      BY <2>1, <2>7, MoveInv DEF NotFound
    <2>8. CASE BanCheck(h)
      BY <2>1, <2>8, MoveInv, FinishUnlocked DEF BanCheck
    <2>9. CASE TakeSeq(h)
      BY <2>9, TakeSeqInv
    <2>10. CASE Commit(h)
      BY <2>10, CommitInv
    <2>11. CASE Conflict(h)
      <3>1. Unlock({h})
        BY <2>11 DEF IInv, HandlersAgree, Conflict, Unlock
      <3> QED
        BY <2>1, <2>11, <3>1, FinishInv DEF Conflict
    <2>12. CASE Announce(h)
      BY <2>12, AnnounceInv
    <2>13. CASE Reply(h)
      BY <2>13, ReplyInv
    <2> QED
      BY <1>2, <2>3, <2>4, <2>5, <2>6, <2>7, <2>8, <2>9, <2>10, <2>11, <2>12,
         <2>13 DEF HandlerStep
  <1>3. ASSUME NEW h \in Handlers, DbError(h) PROVE IInv'
    BY <1>3, FinishInv DEF DbError, IInv, TypeOK
  <1>4. ASSUME NEW n \in Nodes, Crash(n) PROVE IInv'
    <2>1. recent' \in [Nodes -> [Users -> Seq(ClientIds)]]
      BY <1>4 DEF IInv, TypeOK, Crash
    <2> QED
      BY <1>4, <2>1, FinishInv DEF Crash, HandlersOf
  <1>5. ASSUME NEW u \in Users, Ban(u) \/ Unban(u) \/ Leave(u) \/ AddMember(u)
        PROVE  IInv'
    <2>1. TypeOK'
      BY <1>5 DEF IInv, TypeOK, Ban, Unban, Leave, AddMember, storeVars
    <2>2. UNCHANGED <<rows, nextSeq, seqLock, pc, req, mySeq, announced, acks>>
      BY <1>5 DEF Ban, Unban, Leave, AddMember, storeVars
    <2> QED
      BY <2>1, <2>2
         DEF IInv, StoredOnce, AnnouncedOnce, AcksMatchStore, HandlersAgree
  <1>6. CASE UNCHANGED vars
    BY <1>6 DEF IInv, TypeOK, Steps, StoredOnce, AnnouncedOnce, AcksMatchStore,
                HandlersAgree, vars
  <1> QED
    BY <1>1, <1>2, <1>3, <1>4, <1>5, <1>6 DEF Next

\* IInv always holds: every handler is where the database thinks it is.
THEOREM Invariance == Spec => []IInv
  BY InitInv, NextInv, PTL DEF Spec

\* However sends, retries, rollbacks and crashes interleave, the committed
\* sequence numbers are 1 .. next_seq - 1: catch-up by sequence number is sound.
THEOREM NoGaps == Spec => []SeqsContiguous
  <1>1. IInv => SeqsContiguous
    BY DEF IInv, SeqsContiguous
  <1> QED
    BY <1>1, Invariance, PTL

\* A message is stored once, announced once and answered consistently.
THEOREM ExactlyOnce == Spec => [](StoredOnce /\ AnnouncedOnce /\ AcksMatchStore)
  <1>1. IInv => StoredOnce /\ AnnouncedOnce /\ AcksMatchStore
    BY DEF IInv
  <1> QED
    BY <1>1, Invariance, PTL

-------------------------------------------------------------------------------
(* Refinement: the handlers implement the append-only log.                 *)

LEMMA InitRefines == Init => Log!Init
  BY DEF Init, Log!Init

LEMMA CommitStores ==
  ASSUME IInv, NEW h \in Handlers, Commit(h)
  PROVE  Log!Store(req[h])
  <1>1. /\ nextSeq \in Nat \ {0} /\ req[h] \in ClientIds
        /\ DOMAIN rows = 1 .. nextSeq - 1 /\ DOMAIN rows' = 1 .. nextSeq
        /\ rows'[nextSeq] = req[h]
        /\ \A s \in DOMAIN rows : rows'[s] = rows[s] /\ rows[s] # req[h]
        /\ rows' \in [1 .. nextSeq -> ClientIds]
    BY CommitAppends DEF IInv, TypeOK
  <1>2. rows \in [1 .. nextSeq - 1 -> ClientIds] /\ nextSeq - 1 \in Nat
    BY <1>1 DEF IInv
  <1>3. rows \in Seq(ClientIds) /\ Len(rows) = nextSeq - 1
    BY <1>2
  <1>4. rows' \in Seq(ClientIds) /\ Len(rows') = nextSeq
    BY <1>1
  <1>5. Append(rows, req[h]) \in Seq(ClientIds)
        /\ Len(Append(rows, req[h])) = nextSeq
    BY <1>1, <1>3
  <1>6. \A s \in 1 .. nextSeq : rows'[s] = Append(rows, req[h])[s]
    BY <1>1, <1>3
  <1>7. rows' = Append(rows, req[h])
    BY <1>4, <1>5, <1>6
  <1> QED
    BY <1>1, <1>7 DEF Log!Store, Log!Stored, Commit

LEMMA AnnounceRefines ==
  ASSUME IInv, NEW h \in Handlers, Announce(h)
  PROVE  Log!Announce(req[h])
  <1>1. /\ announced[req[h]] = 0
        /\ mySeq[h] \in DOMAIN rows /\ rows[mySeq[h]] = req[h]
    BY DEF IInv, HandlersAgree, Announce
  <1> QED
    BY <1>1 DEF Announce, Log!Announce, Log!Stored, storeVars

LEMMA StepRefines == IInv /\ [Next]_vars => [Log!Next]_Log!vars
  <1> SUFFICES ASSUME IInv, [Next]_vars PROVE [Log!Next]_Log!vars
    OBVIOUS
  <1>1. ASSUME NEW h \in Handlers, Commit(h) PROVE Log!Next
    BY <1>1, CommitStores, CommitAppends DEF Log!Next
  <1>2. ASSUME NEW h \in Handlers, Announce(h) PROVE Log!Next
    <2>1. req[h] \in ClientIds
      BY <1>2 DEF IInv, HandlersAgree, Announce
    <2> QED
      BY <1>2, <2>1, AnnounceRefines DEF Log!Next
  <1>3. \/ \E h \in Handlers : Commit(h) \/ Announce(h)
        \/ UNCHANGED <<rows, announced>>
    <2>1. ASSUME NEW h \in Handlers, HandlerStep(h), ~ Commit(h), ~ Announce(h)
          PROVE  UNCHANGED <<rows, announced>>
      BY <2>1 DEF HandlerStep, Admit, RefuseEarly, RefuseLate, Found, NotFound,
                  BanCheck, TakeSeq, Conflict, Reply, storeVars
    <2>2. ASSUME NEW h \in Handlers, DbError(h) \/ \E c \in ClientIds : Receive(h, c)
          PROVE  UNCHANGED <<rows, announced>>
      BY <2>2 DEF DbError, Receive, storeVars
    <2>3. ASSUME NEW n \in Nodes, Crash(n) PROVE UNCHANGED <<rows, announced>>
      BY <2>3 DEF Crash
    <2>4. ASSUME NEW u \in Users, Ban(u) \/ Unban(u) \/ Leave(u) \/ AddMember(u)
          PROVE  UNCHANGED <<rows, announced>>
      BY <2>4 DEF Ban, Unban, Leave, AddMember, storeVars
    <2>5. CASE UNCHANGED vars
      BY <2>5 DEF vars
    <2> QED
      BY <2>1, <2>2, <2>3, <2>4, <2>5 DEF Next
  <1> QED
    BY <1>1, <1>2, <1>3 DEF Log!vars

\* Concurrent handlers with a row lock and a unique index behave like one
\* append-only log with at most one announcement per entry.
THEOREM Refinement == Spec => ImplementsTimeline
  BY InitRefines, StepRefines, Invariance, PTL DEF Spec, ImplementsTimeline, Log!Spec
===============================================================================
