----------------------------- MODULE ServicesProofs -----------------------------
(***************************************************************************)
(* Proofs about requests made of several calls to a database, for any      *)
(* number of users and of requests that interleave.                        *)
(***************************************************************************)
EXTENDS Services, FiniteSetTheorems, SequenceTheorems, TLAPS

-------------------------------------------------------------------------------
(* Members of a space.                                                     *)

AnyRole == Roles \union {"none"}
Requests == [op : {"none", "join", "leave", "invite", "ban", "unban", "role"},
             at : {"idle", "check", "write"},
             by : People \union {Nobody}, of : People \union {Nobody},
             role : AnyRole, heir : People \union {Nobody}]

MembersTypeOK ==
  /\ role \in [People -> AnyRole]
  /\ here \subseteq People /\ banned \subseteq People
  /\ change \in [Changes -> Requests]
  /\ unowned \in BOOLEAN

\* What a request is about.
WellFormed(q) ==
  q.at # "idle" =>
    /\ q.by \in People /\ q.of \in People
    /\ q.at = "check" => q.op = "role"
    /\ q.op = "join" => q.of = q.by

\* A request that has not gone stale may still rely on what it read.
StillTrue(q) ==
  /\ q.op = "join" => q.of \notin here /\ q.of \notin banned
  /\ q.op = "invite" => q.of \notin banned
  /\ q.op = "leave" => q.by \in here /\ q.heir \in Heirs(q.by)

MembersInv ==
  /\ MembersTypeOK
  /\ \A c \in Changes : WellFormed(change[c])
  /\ \A c \in Changes \ stale : change[c].at = "write" => StillTrue(change[c])
  /\ Owners = {} => unowned

LEMMA MembersInitInv == MembersInit => MembersInv
  <1> SUFFICES ASSUME MembersInit PROVE MembersInv
    OBVIOUS
  <1>1. \A c \in Changes : change[c] = NoChange
    BY DEF MembersInit
  <1>2. MembersTypeOK
    BY DEF MembersInit, MembersTypeOK, AnyRole, Roles, Requests, NoChange
  <1> QED
    BY <1>1, <1>2 DEF MembersInit, MembersInv, WellFormed, NoChange

\* A request that reads sees the space as it is.
LEMMA ReadInv ==
  ASSUME MembersInv, NEW c \in Changes, NEW q \in Requests, q.at # "idle",
         WellFormed(q), q.at = "write" => StillTrue(q), Read(c, q)
  PROVE  MembersInv'
  <1>1. MembersTypeOK'
    BY DEF MembersInv, MembersTypeOK, Read, spaceVars
  <1>3. UNCHANGED <<role, here, banned, stale, unowned>> /\ Owners' = Owners
    BY DEF Read, spaceVars, Owners
  <1>4. \A r \in Requests : WellFormed(r)' = WellFormed(r) /\ StillTrue(r)' = StillTrue(r)
    BY <1>3 DEF WellFormed, StillTrue, Heirs
  <1>5. \A d \in Changes : change'[d] \in Requests /\ change'[d] = IF d = c THEN q ELSE change[d]
    BY DEF Read, MembersInv, MembersTypeOK
  <1> QED
    BY <1>1, <1>3, <1>4, <1>5 DEF MembersInv

LEMMA ReadsInv ==
  ASSUME MembersInv, NEW c \in Changes, NEW u \in People, NEW v \in People,
         \/ ReadJoin(c, u) \/ ReadLeave(c, u) \/ ReadInvite(c, u, v)
         \/ \E op \in {"ban", "unban"} : ReadBan(c, op, u, v)
         \/ \E r \in Roles \ {"owner"} : ReadRole(c, u, v, r)
  PROVE  MembersInv'
  <1> USE MembersAssumption DEF Request, NoChange, AnyRole, Roles, Requests
  <1>1. CASE ReadJoin(c, u)
    BY <1>1, ReadInv DEF ReadJoin, WellFormed, StillTrue
  <1>2. CASE ReadLeave(c, u)
    <2>1. PICK heir \in Heirs(u) : Read(c, [Request("leave", u, u, "none") EXCEPT !.heir = heir])
      BY <1>2 DEF ReadLeave
    <2>2. heir \in People \union {Nobody}
      BY <2>1 DEF Heirs, MembersInv, MembersTypeOK
    <2>3. u \in here
      BY <1>2 DEF ReadLeave
    <2> QED
      BY <2>1, <2>2, <2>3, ReadInv DEF WellFormed, StillTrue
  <1>3. CASE ReadInvite(c, u, v)
    BY <1>3, ReadInv DEF ReadInvite, WellFormed, StillTrue
  <1>4. ASSUME NEW op \in {"ban", "unban"}, ReadBan(c, op, u, v)
        PROVE  MembersInv'
    BY <1>4, ReadInv DEF ReadBan, WellFormed, StillTrue
  <1>5. ASSUME NEW r \in Roles \ {"owner"}, ReadRole(c, u, v, r)
        PROVE  MembersInv'
    BY <1>5, ReadInv DEF ReadRole, WellFormed
  <1> QED
    BY <1>1, <1>2, <1>3, <1>4, <1>5

LEMMA CheckRoleInv ==
  ASSUME MembersInv, NEW c \in Changes, CheckRole(c)
  PROVE  MembersInv'
  <1>1. /\ change[c] \in Requests /\ change[c].at = "check" /\ change[c].op = "role"
        /\ WellFormed(change[c])
    BY DEF CheckRole, MembersInv, MembersTypeOK, WellFormed
  <1>2. PICK q \in Requests :
          /\ change' = [change EXCEPT ![c] = q]
          /\ WellFormed(q) /\ q.at # "check" /\ (q.at = "write" => q.op = "role")
    <2> DEFINE q == IF MayGive(change[c].by, change[c].of, change[c].role)
                    THEN [change[c] EXCEPT !.at = "write"] ELSE NoChange
    <2>1. change' = [change EXCEPT ![c] = q]
      BY DEF CheckRole
    <2>2. NoChange \in Requests /\ WellFormed(NoChange) /\ NoChange.at = "idle"
      BY DEF WellFormed, NoChange, Requests, AnyRole
    <2>3. [change[c] EXCEPT !.at = "write"] \in Requests
      BY <1>1 DEF Requests
    <2>4. WellFormed([change[c] EXCEPT !.at = "write"])
      BY <1>1 DEF WellFormed, Requests
    <2> QED
      BY <1>1, <2>1, <2>2, <2>3, <2>4 DEF Requests
  <1>3. UNCHANGED <<role, here, banned, unowned>> /\ Owners' = Owners /\ stale' = stale \ {c}
    BY DEF CheckRole, spaceVars, Owners
  <1>4. MembersTypeOK'
    BY <1>2, <1>3 DEF MembersInv, MembersTypeOK
  <1>5. \A r \in Requests : WellFormed(r)' = WellFormed(r) /\ StillTrue(r)' = StillTrue(r)
    BY <1>3 DEF WellFormed, StillTrue, Heirs
  <1>6. \A d \in Changes : change'[d] \in Requests /\ change'[d] = IF d = c THEN q ELSE change[d]
    BY <1>2 DEF MembersInv, MembersTypeOK
  <1>7. q.at = "write" => StillTrue(q)
    BY <1>2 DEF StillTrue
  <1> QED
    BY <1>2, <1>3, <1>4, <1>5, <1>6, <1>7 DEF MembersInv

\* A write makes every other request under way stale.
LEMMA WrittenInv ==
  ASSUME MembersInv, NEW c \in Changes, NEW deposes \in BOOLEAN, Written(c, deposes),
         role' \in [People -> AnyRole], here' \subseteq People, banned' \subseteq People,
         Owners' = {} => Owners = {} \/ deposes \/ c \in stale \/ here' = {}
  PROVE  MembersInv'
  <1>1. change' = [change EXCEPT ![c] = NoChange] /\ stale' = (stale \union Running) \ {c}
    BY DEF Written
  <1>2. NoChange \in Requests /\ NoChange.at = "idle"
    BY DEF NoChange, Requests, AnyRole
  <1>3. unowned' \in BOOLEAN
    BY DEF Written
  <1>4. MembersTypeOK'
    BY <1>1, <1>2, <1>3 DEF MembersInv, MembersTypeOK
  <1>5. \A d \in Changes : change'[d] = IF d = c THEN NoChange ELSE change[d]
    BY <1>1 DEF MembersInv, MembersTypeOK
  <1>6. \A d \in Changes : WellFormed(change[d])'
    BY <1>2, <1>5 DEF MembersInv, WellFormed
  <1>7. \A d \in Changes \ stale' : change'[d].at # "write"
    BY <1>1, <1>2, <1>5 DEF Running
  <1>8. Owners' = {} => unowned'
    BY DEF Written, MembersInv
  <1> QED
    BY <1>4, <1>6, <1>7, <1>8 DEF MembersInv

\* What a request that writes may assume.
LEMMA Writer ==
  ASSUME MembersInv, NEW c \in Changes, NEW op, Writing(c, op)
  PROVE  /\ change[c] \in Requests /\ change[c].op = op
         /\ change[c].by \in People /\ change[c].of \in People
         /\ op = "join" => change[c].of = change[c].by
         /\ c \in stale \/ StillTrue(change[c])
  BY DEF Writing, MembersInv, MembersTypeOK, WellFormed

LEMMA WriteInv ==
  ASSUME MembersInv, NEW c \in Changes,
         \/ WriteJoin(c) \/ WriteLeave(c) \/ WriteInvite(c)
         \/ WriteBan(c) \/ WriteUnban(c) \/ WriteRole(c)
  PROVE  MembersInv'
  <1> USE DEF Owners
  <1>t. /\ role \in [People -> AnyRole] /\ here \subseteq People /\ banned \subseteq People
        /\ {"owner", "member", "none"} \subseteq AnyRole
    BY DEF MembersInv, MembersTypeOK, AnyRole, Roles
  <1>1. CASE WriteJoin(c)
    <2>1. role' \in [People -> AnyRole] /\ here' \subseteq People /\ banned' \subseteq People
      BY <1>1, <1>t, Writer DEF WriteJoin
    <2>2. Owners' = {} => Owners = {} \/ c \in stale
      BY <1>1, <1>t, Writer DEF WriteJoin, StillTrue
    <2> QED
      BY <1>1, <2>1, <2>2, WrittenInv DEF WriteJoin
  <1>2. CASE WriteLeave(c)
    <2> DEFINE u == change[c].by
               heir == change[c].heir
    <2>1. role' \in [People -> AnyRole] /\ here' \subseteq People /\ banned' \subseteq People
      BY <1>2, <1>t DEF WriteLeave
    <2>2. ASSUME c \notin stale, here' # {}, Owners # {}
          PROVE  Owners' # {}
      <3>1. u \in here /\ heir \in Heirs(u)
        BY <1>2, <2>2, Writer DEF WriteLeave, StillTrue
      <3>2. here' = here \ {u}
        BY <1>2 DEF WriteLeave
      <3>3. CASE Owners = {u}
        <4>1. heir \in here \ {u}
          BY <2>2, <3>1, <3>2, <3>3 DEF Heirs
        <4> QED
          BY <1>2, <1>t, <3>2, <4>1 DEF WriteLeave
      <3>4. CASE Owners # {u}
        <4>1. PICK v \in Owners : v # u
          BY <2>2, <3>4
        <4> QED
          BY <1>2, <1>t, <3>2, <4>1 DEF WriteLeave
      <3> QED
        BY <3>3, <3>4
    <2> QED
      BY <1>2, <2>1, <2>2, WrittenInv DEF WriteLeave
  <1>3. CASE WriteInvite(c)
    <2>1. role' \in [People -> AnyRole] /\ here' \subseteq People /\ banned' \subseteq People
      BY <1>3, <1>t, Writer DEF WriteInvite, RoleBack
    <2>2. Owners \subseteq Owners'
      BY <1>3, <1>t, Writer DEF WriteInvite, RoleBack
    <2> QED
      BY <1>3, <2>1, <2>2, WrittenInv DEF WriteInvite
  <1>4. CASE WriteBan(c)
    <2> DEFINE v == change[c].of
    <2>1. role' \in [People -> AnyRole] /\ here' \subseteq People /\ banned' \subseteq People
      BY <1>4, <1>t, Writer DEF WriteBan, LeaveWhenBanned
    <2>2. RoleOf(v) # "owner" => Owners \subseteq Owners'
      BY <1>4, <1>t DEF WriteBan, LeaveWhenBanned, RoleOf
    <2>3. Written(c, RoleOf(v) = "owner")
      BY <1>4 DEF WriteBan
    <2>4. CASE RoleOf(v) = "owner"
      <3>1. Written(c, TRUE)
        BY <2>3, <2>4 DEF Written
      <3> QED
        BY <2>1, <3>1, WrittenInv
    <2>5. CASE RoleOf(v) # "owner"
      <3>1. Written(c, FALSE)
        BY <2>3, <2>5 DEF Written
      <3> QED
        BY <2>1, <2>2, <2>5, <3>1, WrittenInv
    <2> QED
      BY <2>4, <2>5
  <1>5. CASE WriteUnban(c)
    <2>1. role' \in [People -> AnyRole] /\ here' \subseteq People /\ banned' \subseteq People
      BY <1>5, <1>t DEF WriteUnban
    <2>2. Owners' = Owners
      BY <1>5 DEF WriteUnban
    <2> QED
      BY <1>5, <2>1, <2>2, WrittenInv DEF WriteUnban
  <1>6. CASE WriteRole(c)
    <2> DEFINE v == change[c].of
    <2>0. change[c].role \in AnyRole
      BY <1>6, Writer DEF WriteRole, Requests
    <2>1. role' \in [People -> AnyRole] /\ here' \subseteq People /\ banned' \subseteq People
      BY <1>6, <1>t, <2>0 DEF WriteRole
    <2>2. RoleOf(v) # "owner" => Owners \subseteq Owners'
      BY <1>6, <1>t DEF WriteRole, RoleOf
    <2>3. Written(c, RoleOf(v) = "owner")
      BY <1>6 DEF WriteRole
    <2>4. CASE RoleOf(v) = "owner"
      <3>1. Written(c, TRUE)
        BY <2>3, <2>4 DEF Written
      <3> QED
        BY <2>1, <3>1, WrittenInv
    <2>5. CASE RoleOf(v) # "owner"
      <3>1. Written(c, FALSE)
        BY <2>3, <2>5 DEF Written
      <3> QED
        BY <2>1, <2>2, <2>5, <3>1, WrittenInv
    <2> QED
      BY <2>4, <2>5
  <1> QED
    BY <1>1, <1>2, <1>3, <1>4, <1>5, <1>6

LEMMA MembersNextInv == MembersInv /\ [MembersNext]_memberVars => MembersInv'
  <1> SUFFICES ASSUME MembersInv, [MembersNext]_memberVars
               PROVE  MembersInv'
    OBVIOUS
  <1>1. CASE UNCHANGED memberVars
    BY <1>1
       DEF memberVars, spaceVars, MembersInv, MembersTypeOK, WellFormed, StillTrue, Heirs,
           Owners
  <1>2. CASE MembersNext
    BY <1>2, ReadsInv, CheckRoleInv, WriteInv DEF MembersNext
  <1> QED
    BY <1>1, <1>2

\* Every request under way that has not gone stale may rely on what it read.
THEOREM MembersInvariance == MembersSpec => []MembersInv
  BY MembersInitInv, MembersNextInv, PTL DEF MembersSpec

\* A space with members has an owner, for the reasons excepted.
THEOREM SpaceHasOwner == MembersSpec => []HasOwner
  <1>1. MembersInv => HasOwner
    BY DEF MembersInv, HasOwner
  <1> QED
    BY <1>1, MembersInvariance, PTL

\* Only a request that has read the space before the ban brings a banned user in.
THEOREM BansHold == MembersSpec => BannedStaysOut
  <1>1. ASSUME MembersInv, [MembersNext]_memberVars
        PROVE  [\A u \in People :
                  u \in banned' \intersect here' /\ u \notin banned \intersect here =>
                    \E c \in stale : change[c].of = u /\ change[c].op \in {"join", "invite"}]_memberVars
    <2> SUFFICES ASSUME MembersNext, NEW u \in People,
                        u \in banned', u \in here', u \notin banned \/ u \notin here
                 PROVE  \E c \in stale :
                          change[c].of = u /\ change[c].op \in {"join", "invite"}
      BY <1>1
    <2>1. PICK c \in Changes :
            \/ UNCHANGED <<here, banned>>
            \/ WriteJoin(c) \/ WriteLeave(c) \/ WriteInvite(c)
            \/ WriteBan(c) \/ WriteUnban(c) \/ WriteRole(c)
      BY DEF MembersNext, ReadJoin, ReadLeave, ReadInvite, ReadBan, ReadRole, CheckRole,
             Read, spaceVars
    <2>2. ~ (WriteLeave(c) \/ WriteBan(c) \/ WriteUnban(c) \/ WriteRole(c))
      BY DEF WriteLeave, WriteBan, LeaveWhenBanned, WriteUnban, WriteRole
    <2>3. CASE WriteJoin(c)
      BY <1>1, <2>3, Writer DEF WriteJoin, StillTrue
    <2>4. CASE WriteInvite(c)
      BY <1>1, <2>4, Writer DEF WriteInvite, StillTrue
    <2> QED
      BY <2>1, <2>2, <2>3, <2>4
  <1> QED
    BY <1>1, MembersInvariance, PTL DEF MembersSpec, BannedStaysOut

-------------------------------------------------------------------------------
(* Contact requests.                                                       *)

ContactsTypeOK ==
  /\ askAt \in [Posts -> {"new", "insert", "create", "note", "over"}]
  /\ status \in [Posts -> {"none", "pending", "accepted", "declined"}]
  /\ noted \subseteq Posts /\ locked \subseteq Posts /\ archived \subseteq Posts
  /\ disturbed \subseteq Posts
  /\ reply \in [Replies -> [at : {"idle", "write", "refresh", "tell"},
                            of : Posts \union {NoAsk},
                            to : {"none", "accepted", "declined"}]]
  /\ \A h \in Replies :
       \/ reply[h] = NoReply
       \/ reply[h].at # "idle" /\ reply[h].of \in Posts /\ reply[h].to # "none"

\* h has written its answer to q and has still to tell chat-service.
Answering(h, q) == reply[h].of = q /\ reply[h].at \in {"refresh", "tell"}

\* One answer at most is being told of, and it is the one the request holds; the
\* conversation is as it was made until then, and as the answer says afterwards.
Consistent(q) ==
  /\ askAt[q] \in {"new", "insert"} => status[q] = "none" /\ q \notin noted
  /\ askAt[q] \in {"create", "note"} => status[q] # "none" /\ q \notin noted
  /\ askAt[q] = "over" /\ status[q] # "none" => q \in noted
  /\ status[q] = "none" => (\A h \in Replies : reply[h].of # q) /\ q \notin archived
  /\ status[q] = "pending" => \A h \in Replies : ~ Answering(h, q)
  /\ status[q] = "pending" \/ (\E h \in Replies : Answering(h, q)) =>
       q \notin archived /\ (askAt[q] \in {"note", "over"} => q \in locked)
  /\ \A h \in Replies : Answering(h, q) =>
       /\ reply[h].to = status[q]
       /\ reply[h].at = "tell" => q \in noted
       /\ \A k \in Replies : Answering(k, q) => k = h
  /\ status[q] \in {"accepted", "declined"} /\ (\A h \in Replies : ~ Answering(h, q)) =>
       /\ askAt[q] = "over"
       /\ q \in locked <=> status[q] = "declined"
       /\ q \in archived <=> status[q] = "declined"

ContactsInv == ContactsTypeOK /\ \A q \in Posts \ disturbed : Consistent(q)

LEMMA ContactsInitInv == ContactsInit => ContactsInv
  BY ContactsAssumption
     DEF ContactsInit, ContactsInv, ContactsTypeOK, Consistent, Answering, NoReply

LEMMA AskInv ==
  ASSUME ContactsInv, NEW q \in Posts,
         CheckAsk(q) \/ InsertAsk(q) \/ CreateDm(q) \/ NoteDm(q)
  PROVE  ContactsInv'
  <1> USE DEF GoAsk, chatVars
  <1>1. ContactsTypeOK'
    BY DEF ContactsInv, ContactsTypeOK, CheckAsk, InsertAsk, CreateDm, NoteDm
  <1>2. ASSUME NEW p \in Posts \ disturbed
        PROVE  Consistent(p)'
    <2> USE DEF ContactsInv, ContactsTypeOK, Consistent, Answering
    <2>1. CASE CheckAsk(q)
      BY <2>1 DEF CheckAsk
    <2>2. CASE InsertAsk(q)
      <3>1. CASE p = q
        <4>1. \A k \in Replies : reply[k].of # q
          BY <2>2, <3>1 DEF InsertAsk
        <4>2. /\ askAt'[q] = "create" /\ status'[q] = "pending"
              /\ UNCHANGED <<noted, locked, archived, reply>>
          BY <2>2 DEF InsertAsk
        <4>3. q \notin noted /\ q \notin archived
          BY <2>2, <3>1 DEF InsertAsk
        <4>4. \A k \in Replies : ~ Answering(k, q)'
          BY <4>1, <4>2
        <4> QED
          BY <3>1, <4>1, <4>2, <4>3, <4>4
      <3>2. CASE p # q
        BY <2>2, <3>2 DEF InsertAsk
      <3> QED
        BY <3>1, <3>2
    <2>3. CASE CreateDm(q)
      BY <2>3 DEF CreateDm
    <2>4. CASE NoteDm(q)
      BY <2>4 DEF NoteDm
    <2> QED
      BY <2>1, <2>2, <2>3, <2>4
  <1>3. disturbed' = disturbed
    BY DEF CheckAsk, InsertAsk, CreateDm, NoteDm
  <1> QED
    BY <1>1, <1>2, <1>3 DEF ContactsInv

LEMMA ReplyInv ==
  ASSUME ContactsInv, NEW h \in Replies,
         \/ \E q \in Posts, answer \in {"accepted", "declined"} : ReadAsk(h, q, answer)
         \/ WriteStatus(h) \/ RefreshRow(h) \/ TellDm(h)
  PROVE  ContactsInv'
  <1> USE DEF GoReply, chatVars, askVars, ContactsInv, ContactsTypeOK
  <1>1. CASE \E q \in Posts, answer \in {"accepted", "declined"} : ReadAsk(h, q, answer)
    <2>1. PICK q \in Posts, answer \in {"accepted", "declined"} : ReadAsk(h, q, answer)
      BY <1>1
    <2> DEFINE asked == [at |-> "write", of |-> q, to |-> answer]
    <2>2. reply' = [reply EXCEPT ![h] = asked]
      BY <2>1 DEF ReadAsk
    <2>3. /\ reply[h].at = "idle" /\ status[q] = "pending"
          /\ UNCHANGED <<askAt, asker, status, noted, made, locked, archived, disturbed>>
      BY <2>1 DEF ReadAsk
    <2>4. ContactsTypeOK'
      <3>1. asked \in [at : {"idle", "write", "refresh", "tell"},
                         of : Posts \union {NoAsk},
                         to : {"none", "accepted", "declined"}]
        OBVIOUS
      <3> HIDE DEF asked
      <3>2. reply' \in [Replies -> [at : {"idle", "write", "refresh", "tell"},
                                    of : Posts \union {NoAsk},
                                    to : {"none", "accepted", "declined"}]]
        BY <2>2, <3>1
      <3>3. ASSUME NEW k \in Replies
            PROVE  \/ reply'[k] = NoReply
                   \/ reply'[k].at # "idle" /\ reply'[k].of \in Posts /\ reply'[k].to # "none"
        BY <2>2 DEF asked
      <3> QED
        BY <2>3, <3>2, <3>3
    <2>5. \A k \in Replies, p \in Posts : Answering(k, p)' <=> Answering(k, p)
      BY <2>2, <2>3 DEF Answering
    <2>6. \A k \in Replies : k # h => reply'[k] = reply[k]
      BY <2>2
    <2>7. reply'[h] = asked
      BY <2>2
    <2>8. ASSUME NEW p \in Posts \ disturbed PROVE Consistent(p)'
      <3>1. Consistent(p)
        OBVIOUS
      <3>2. status[p] = "none" => \A k \in Replies : reply'[k].of # p
        BY <2>3, <2>6, <2>7, <3>1 DEF Consistent
      <3>3. \A k \in Replies : Answering(k, p) => reply'[k] = reply[k]
        BY <2>3, <2>6 DEF Answering
      <3> QED
        BY <2>3, <2>5, <3>1, <3>2, <3>3 DEF Consistent
    <2> QED
      BY <2>3, <2>4, <2>8
  <1>2. CASE WriteStatus(h)
    <2>1. /\ reply[h].of \in Posts /\ reply[h].to \in {"accepted", "declined"}
          /\ reply[h].at = "write"
      BY <1>2 DEF WriteStatus, NoReply
    <2>2. ContactsTypeOK'
      BY <1>2, <2>1 DEF WriteStatus, NoReply
    <2>3. ASSUME NEW p \in Posts \ disturbed' PROVE Consistent(p)'
      BY <1>2, <2>1 DEF WriteStatus, Consistent, Answering
    <2> QED
      BY <2>2, <2>3
  <1>3. CASE RefreshRow(h)
    <2>1. reply[h].of \in Posts /\ reply[h].at = "refresh" /\ reply[h].to # "none"
      BY <1>3 DEF RefreshRow, NoReply
    <2>2. ContactsTypeOK'
      BY <1>3, <2>1, ContactsAssumption DEF RefreshRow, NoReply
    <2>3. ASSUME NEW p \in Posts \ disturbed' PROVE Consistent(p)'
      BY <1>3, <2>1, ContactsAssumption DEF RefreshRow, Consistent, Answering, NoReply
    <2> QED
      BY <2>2, <2>3
  <1>4. CASE TellDm(h)
    <2>1. /\ reply[h].of \in Posts /\ reply[h].at = "tell"
          /\ reply[h].to \in {"accepted", "declined"}
      BY <1>4 DEF TellDm, NoReply
    <2>2. ContactsTypeOK'
      BY <1>4, <2>1, ContactsAssumption DEF TellDm, TellChat, NoReply
    <2>3. ASSUME NEW p \in Posts \ disturbed PROVE Consistent(p)'
      BY <1>4, <2>1, ContactsAssumption DEF TellDm, TellChat, Consistent, Answering, NoReply
    <2> QED
      BY <1>4, <2>2, <2>3 DEF TellDm
  <1> QED
    BY <1>1, <1>2, <1>3, <1>4

\* Whatever fails, the request it belongs to counts as disturbed.
LEMMA FailureInv ==
  ASSUME ContactsInv,
         \/ \E q \in Posts : LoseDm(q) \/ CrashAsk(q)
         \/ \E h \in Replies : LoseTell(h) \/ CrashReply(h)
  PROVE  ContactsInv'
  <1> USE DEF GoAsk, chatVars, askVars, Fail, ContactsInv, ContactsTypeOK
  <1>1. ASSUME NEW q \in Posts, LoseDm(q) \/ CrashAsk(q)
        PROVE  ContactsInv'
    <2>1. ContactsTypeOK'
      BY <1>1 DEF LoseDm, CrashAsk
    <2>2. ASSUME NEW p \in Posts \ disturbed' PROVE Consistent(p)'
      BY <1>1 DEF LoseDm, CrashAsk, Consistent, Answering
    <2> QED
      BY <2>1, <2>2
  <1>2. ASSUME NEW h \in Replies, LoseTell(h) \/ CrashReply(h)
        PROVE  ContactsInv'
    <2>1. reply[h].of \in Posts
      BY <1>2 DEF LoseTell, CrashReply, NoReply
    <2>2. ContactsTypeOK'
      BY <1>2, <2>1, ContactsAssumption DEF LoseTell, CrashReply, NoReply
    <2>3. /\ reply' = [reply EXCEPT ![h] = NoReply]
          /\ disturbed' = disturbed \union {reply[h].of}
          /\ UNCHANGED <<askAt, asker, status, noted, made, locked, archived>>
      BY <1>2 DEF LoseTell, CrashReply
    <2>4. ASSUME NEW p \in Posts \ disturbed' PROVE Consistent(p)'
      <3>1. Consistent(p) /\ reply[h].of # p /\ reply'[h].of # p
        BY <2>3, ContactsAssumption DEF NoReply
      <3>2. \A k \in Replies : Answering(k, p)' <=> Answering(k, p)
        BY <2>3, <3>1 DEF Answering
      <3>3. \A k \in Replies : reply[k].of = p \/ reply'[k].of = p => reply'[k] = reply[k]
        BY <2>3, <3>1
      <3>4. \A k \in Replies : Answering(k, p) => reply'[k] = reply[k]
        BY <3>3 DEF Answering
      <3> QED
        BY <2>3, <3>1, <3>2, <3>3, <3>4 DEF Consistent
    <2> QED
      BY <2>2, <2>4
  <1> QED
    BY <1>1, <1>2

LEMMA ContactsNextInv == ContactsInv /\ [ContactsNext]_contactVars => ContactsInv'
  <1> SUFFICES ASSUME ContactsInv, [ContactsNext]_contactVars
               PROVE  ContactsInv'
    OBVIOUS
  <1>1. CASE UNCHANGED contactVars
    BY <1>1
       DEF contactVars, askVars, chatVars, ContactsInv, ContactsTypeOK, Consistent,
           Answering
  <1>2. CASE ContactsNext
    BY <1>2, AskInv, ReplyInv, FailureInv DEF ContactsNext
  <1> QED
    BY <1>1, <1>2

\* Each undisturbed request agrees with its conversation and the answers under way.
THEOREM ContactsInvariance == ContactsSpec => []ContactsInv
  BY ContactsInitInv, ContactsNextInv, PTL DEF ContactsSpec

\* contact-service and chat-service agree on every request that nobody is at work
\* on and nothing disturbed.
THEOREM ContactsAgree == ContactsSpec => []ServicesAgree
  <1>1. ContactsInv => ServicesAgree
    <2> SUFFICES ASSUME ContactsInv, NEW q \in Posts \ disturbed, askAt[q] = "over",
                        status[q] # "none", \A h \in Replies : reply[h].of # q
                 PROVE  /\ q \in noted
                        /\ q \in locked <=> status[q] # "accepted"
                        /\ q \in archived <=> status[q] = "declined"
      BY DEF ServicesAgree
    <2>1. \A h \in Replies : ~ Answering(h, q)
      BY DEF Answering
    <2> QED
      BY <2>1 DEF ContactsInv, ContactsTypeOK, Consistent
  <1> QED
    BY <1>1, ContactsInvariance, PTL

-------------------------------------------------------------------------------
(* Signing in with a QR code.                                              *)

Rows == [status : {"pending", "approved", "expired"},
         session : Scans \union {NoScan}, token : Scans \union {NoScan}]

QrTypeOK ==
  /\ qr \in Rows /\ late \in BOOLEAN
  /\ scanAt \in [Scans -> {"new", "read", "write", "drop", "refused", "prune", "done"}]
  /\ live \subseteq Scans
  /\ poll \in [Polls -> [at : {"idle", "read", "consume", "answer"}, row : Rows]]
  /\ tokenLost \in BOOLEAN

Through == {p \in Scans : scanAt[p] \in {"prune", "done"}}

\* A row that says approved is that of an approval which got through, and has its
\* token or none.
Sound(row) ==
  row.status = "approved" => row.session \in Through /\ row.token \in {NoScan, row.session}

Delivering(q) == poll[q].at = "answer" /\ poll[q].row.status = "approved"

Alone == \A p, q \in Through : p = q

\* The token of the one approval is in the row until somebody has read it, and
\* then in an answer or with the device.
TokenHeld ==
  /\ told # NoScan \/ (\E q \in Polls : Delivering(q)) => qr.token = NoScan
  /\ qr.status = "approved" /\ ~ tokenLost =>
       \/ qr.token # NoScan
       \/ kept = qr.session
       \/ \E q \in Polls : Delivering(q) /\ poll[q].row.token = qr.session

\* Only another approval that got through revokes a session.
StillLive(p) ==
  scanAt[p] \in {"read", "write", "prune", "done"} /\ Through \subseteq {p} => p \in live

Reads(q) ==
  /\ Sound(poll[q].row)
  /\ poll[q].at = "consume" =>
       poll[q].row.status = "approved" /\ poll[q].row.token # NoScan

QrInv ==
  /\ QrTypeOK
  /\ IsFiniteSet(Through)
  /\ told \in Through \union {NoScan} /\ kept \in Through \union {NoScan}
  /\ Sound(qr) /\ (qr.status = "approved" <=> Through # {})
  /\ \A q \in Polls : Reads(q)
  /\ \A p \in Scans : StillLive(p)
  /\ Alone => TokenHeld

LEMMA QrInitInv == QrInit => QrInv
  <1> SUFFICES ASSUME QrInit PROVE QrInv
    OBVIOUS
  <1>1. QrTypeOK
    BY DEF QrInit, QrTypeOK, Rows, Blank, NoPoll
  <1>2. Through = {}
    BY DEF QrInit, Through
  <1>3. IsFiniteSet(Through)
    BY <1>2, FS_EmptySet
  <1> QED
    BY <1>1, <1>2, <1>3
       DEF QrInit, QrInv, Sound, Reads, StillLive, TokenHeld, Delivering, Blank, NoPoll

LEMMA ScanInv ==
  ASSUME QrInv,
         \/ PassExpiry
         \/ \E p \in Scans : BeginScan(p) \/ ReadQr(p) \/ DropScan(p) \/ PruneOthers(p)
  PROVE  QrInv'
  <1> USE DEF scanVars, deviceVars, GoScan
  <1>1. CASE PassExpiry
    <2>1. /\ late' \in BOOLEAN
          /\ UNCHANGED <<qr, scanAt, live, poll, told, kept, tokenLost>>
      BY <1>1 DEF PassExpiry
    <2>2. Through' = Through
      BY <2>1 DEF Through
    <2> QED
      BY <2>1, <2>2 DEF QrInv, QrTypeOK, Sound, Reads, StillLive, Alone, TokenHeld, Delivering
  <1>2. ASSUME NEW p \in Scans,
               BeginScan(p) \/ ReadQr(p) \/ DropScan(p) \/ PruneOthers(p)
        PROVE  QrInv'
    <2> USE DEF QrInv, QrTypeOK
    <2>1. Through' = Through
      BY <1>2 DEF BeginScan, ReadQr, DropScan, PruneOthers, Through
    <2>2. UNCHANGED <<late, poll, told, kept, tokenLost>>
      BY <1>2 DEF BeginScan, ReadQr, DropScan, PruneOthers
    <2>3. /\ qr' \in Rows /\ qr'.session = qr.session /\ qr'.token = qr.token
          /\ qr'.status = "approved" <=> qr.status = "approved"
      BY <1>2 DEF BeginScan, ReadQr, DropScan, PruneOthers, Rows
    <2>4. QrTypeOK'
      BY <1>2, <2>2, <2>3 DEF BeginScan, ReadQr, DropScan, PruneOthers
    <2>5. \A r \in Scans : StillLive(r)'
      <3> SUFFICES ASSUME NEW r \in Scans PROVE StillLive(r)'
        OBVIOUS
      <3>1. CASE BeginScan(p)
        BY <3>1, <2>1 DEF BeginScan, StillLive
      <3>2. CASE ReadQr(p)
        BY <3>2, <2>1 DEF ReadQr, StillLive
      <3>3. CASE DropScan(p)
        BY <3>3, <2>1 DEF DropScan, StillLive
      <3>4. CASE PruneOthers(p)
        BY <3>4, <2>1 DEF PruneOthers, StillLive, Through
      <3> QED
        BY <1>2, <3>1, <3>2, <3>3, <3>4
    <2>6. (\A q \in Polls : Reads(q)') /\ Sound(qr)'
      BY <2>1, <2>2, <2>3 DEF Reads, Sound
    <2>7. (Alone => TokenHeld)'
      BY <2>1, <2>2, <2>3 DEF Alone, TokenHeld, Delivering
    <2> QED
      BY <2>1, <2>2, <2>3, <2>4, <2>5, <2>6, <2>7
  <1> QED
    BY <1>1, <1>2

\* A second approval is no longer alone, and before the first nobody had read any.
LEMMA WriteQrInv == ASSUME QrInv, NEW p \in Scans, WriteQr(p) PROVE QrInv'
  <1> USE DEF QrInv, QrTypeOK
  <1>1. /\ qr' = [status |-> "approved", session |-> p, token |-> p]
        /\ scanAt[p] = "write" /\ scanAt' = [scanAt EXCEPT ![p] = "prune"]
        /\ UNCHANGED <<late, live, poll, told, kept, tokenLost>>
    BY DEF WriteQr, deviceVars, GoScan
  <1>2. Through' = Through \union {p} /\ p \notin Through
    BY <1>1 DEF Through
  <1>3. IsFiniteSet(Through')
    BY <1>2, FS_AddElement
  <1>4. QrTypeOK'
    BY <1>1 DEF Rows
  <1>5. \A q \in Polls : Reads(q)'
    BY <1>1, <1>2 DEF Reads, Sound
  <1>6. \A r \in Scans : StillLive(r)'
    BY <1>1, <1>2 DEF StillLive
  <1>7. (Alone => TokenHeld)'
    <2> SUFFICES ASSUME Alone' PROVE TokenHeld'
      OBVIOUS
    <2>1. Through = {}
      BY <1>2 DEF Alone
    <2>2. told = NoScan /\ \A q \in Polls : ~ Delivering(q)
      BY <2>1 DEF Delivering, Reads, Sound
    <2> QED
      BY <1>1, <2>2, QrAssumption DEF TokenHeld, Delivering
  <1> QED
    BY <1>1, <1>2, <1>3, <1>4, <1>5, <1>6, <1>7 DEF Sound

LEMMA PollInv ==
  ASSUME QrInv, NEW q \in Polls,
         \/ SendPoll(q) \/ ReadPoll(q) \/ ConsumeToken(q) \/ AnswerPoll(q) \/ LosePoll(q)
  PROVE  QrInv'
  <1> USE DEF QrInv, QrTypeOK, scanVars, deviceVars
  <1>1. UNCHANGED <<late, scanAt, live>>
    BY DEF SendPoll, ReadPoll, ConsumeToken, AnswerPoll, LosePoll
  <1>2. Through' = Through
    BY <1>1 DEF Through
  <1>3. \A p \in Scans : StillLive(p)'
    BY <1>1, <1>2 DEF StillLive
  <1>4. \A row : Sound(row)' <=> Sound(row)
    BY <1>2 DEF Sound
  <1>5. Alone' <=> Alone
    BY <1>2 DEF Alone
  <1>6. CASE SendPoll(q)
    <2>0. [NoPoll EXCEPT !.at = "read"] = [at |-> "read", row |-> Blank]
      BY DEF NoPoll
    <2>1. poll' = [poll EXCEPT ![q] = [at |-> "read", row |-> Blank]]
          /\ poll[q].at = "idle" /\ UNCHANGED <<qr, told, kept, tokenLost>>
      BY <1>6, <2>0 DEF SendPoll
    <2>2. QrTypeOK'
      BY <1>1, <2>1 DEF Rows, Blank
    <2>3. \A r \in Polls : Reads(r)'
      BY <1>2, <2>1 DEF Reads, Sound, Blank
    <2>4. (Alone => TokenHeld)'
      BY <1>5, <2>1 DEF TokenHeld, Delivering
    <2> QED
      BY <1>1, <1>2, <1>3, <1>4, <2>1, <2>2, <2>3, <2>4
  <1>7. CASE ReadPoll(q)
    <2> DEFINE row == IF late THEN [qr EXCEPT !.status = "expired"] ELSE qr
               step == IF row.status = "approved" /\ row.token # NoScan
                       THEN "consume" ELSE "answer"
    <2>1. poll' = [poll EXCEPT ![q] = [at |-> step, row |-> row]]
          /\ poll[q].at = "read" /\ UNCHANGED <<qr, told, kept, tokenLost>>
      BY <1>7 DEF ReadPoll
    <2>2. row \in Rows /\ Sound(row) /\ (row.status = "approved" => row = qr)
      BY DEF Rows, Sound
    <2>3. step \in {"consume", "answer"}
          /\ (step = "consume" <=> row.status = "approved" /\ row.token # NoScan)
      OBVIOUS
    <2> HIDE DEF row, step
    <2>4. QrTypeOK'
      BY <1>1, <2>1, <2>2, <2>3
    <2>5. \A r \in Polls : Reads(r)'
      BY <1>4, <2>1, <2>2, <2>3 DEF Reads
    <2>6. (Alone => TokenHeld)'
      <3>1. \A r \in Polls : r # q => poll'[r] = poll[r]
        BY <2>1
      <3>2. poll'[q] = [at |-> step, row |-> row]
        BY <2>1
      <3>3. \A r \in Polls : Delivering(r) => r # q /\ poll'[r] = poll[r]
        BY <2>1, <3>1 DEF Delivering
      <3>4. Delivering(q)' => qr.token = NoScan
        BY <2>2, <2>3, <3>2 DEF Delivering
      <3>5. \A r \in Polls : r # q => (Delivering(r)' <=> Delivering(r))
        BY <3>1 DEF Delivering
      <3> QED
        BY <1>5, <2>1, <3>3, <3>4, <3>5 DEF TokenHeld
    <2> QED
      BY <1>1, <1>2, <1>3, <1>4, <2>1, <2>4, <2>5, <2>6
  <1>8. CASE ConsumeToken(q)
    <2>1. poll' = [poll EXCEPT ![q] = [poll[q] EXCEPT !.at = "answer"]]
          /\ poll[q].at = "consume" /\ qr' = [qr EXCEPT !.token = NoScan]
          /\ UNCHANGED <<told, kept, tokenLost>>
      BY <1>8 DEF ConsumeToken, AnswerRead
    <2>2. QrTypeOK'
      BY <1>1, <2>1 DEF Rows
    <2>3. Sound(qr)' /\ qr'.status = qr.status /\ qr'.session = qr.session
          /\ qr'.token = NoScan
      BY <1>4, <2>1 DEF Rows, Sound
    <2>4. \A r \in Polls : Reads(r)'
      BY <1>4, <2>1 DEF Reads
    <2>5. ASSUME Alone PROVE Delivering(q)' /\ poll'[q].row.token = qr'.session
      <3>1. Reads(q) /\ poll[q].row.session \in Through
        BY <2>1 DEF Reads, Sound
      <3>2. poll'[q].at = "answer" /\ poll'[q].row = poll[q].row
        BY <2>1
      <3>3. qr.session \in Through
        BY <3>1 DEF Sound
      <3> QED
        BY <2>1, <2>3, <2>5, <3>1, <3>2, <3>3 DEF Delivering, Reads, Sound, Alone
    <2>6. (Alone => TokenHeld)'
      BY <1>5, <2>3, <2>5 DEF TokenHeld
    <2> QED
      BY <1>1, <1>2, <1>3, <2>1, <2>2, <2>3, <2>4, <2>6
  <1>9. CASE AnswerPoll(q)
    <2> DEFINE row == poll[q].row
    <2>1. /\ poll[q].at = "answer" /\ poll' = [poll EXCEPT ![q] = NoPoll]
          /\ UNCHANGED <<qr, tokenLost>>
          /\ told' = IF row.status = "approved" THEN row.session ELSE told
          /\ kept' = IF row.status = "approved" /\ row.token # NoScan THEN row.token
                     ELSE kept
      BY <1>9 DEF AnswerPoll
    <2>2. QrTypeOK'
      BY <1>1, <2>1 DEF Rows, Blank, NoPoll
    <2>3. Reads(q) /\ Sound(row)
      BY DEF Reads
    <2>4. told' \in Through \union {NoScan} /\ kept' \in Through \union {NoScan}
      BY <2>1, <2>3 DEF Sound
    <2>5. \A r \in Polls : Reads(r)'
      BY <1>4, <2>1 DEF Reads, NoPoll, Blank, Sound
    <2>6. ASSUME Alone PROVE TokenHeld'
      <3>1. Sound(qr) /\ TokenHeld
        BY <2>6
      <3>2. told' # NoScan => told # NoScan \/ Delivering(q)
        BY <2>1 DEF Delivering
      <3>3. \A r \in Polls : Delivering(r)' => Delivering(r)
        BY <2>1 DEF Delivering, NoPoll
      <3>4. \A r \in Polls : Delivering(r) /\ r # q => Delivering(r)' /\ poll'[r] = poll[r]
        BY <2>1 DEF Delivering
      <3>5. qr.status = "approved" /\ kept = qr.session => kept' = qr.session
        BY <2>1, <2>3, <2>6, <3>1 DEF Sound, Alone
      <3>6. qr.status = "approved" /\ Delivering(q) /\ row.token = qr.session =>
              kept' = qr.session
        BY <2>1, <2>3, <3>1, QrAssumption DEF Sound, Delivering, Through
      <3> QED
        BY <2>1, <3>1, <3>2, <3>3, <3>4, <3>5, <3>6 DEF TokenHeld
    <2> QED
      BY <1>1, <1>2, <1>3, <1>4, <1>5, <2>1, <2>2, <2>4, <2>5, <2>6
  <1>10. CASE LosePoll(q)
    <2>1. /\ poll' = [poll EXCEPT ![q] = NoPoll]
          /\ UNCHANGED <<qr, told, kept>>
          /\ tokenLost' = (tokenLost \/ (poll[q].at = "answer" /\ poll[q].row.token # NoScan))
      BY <1>10 DEF LosePoll
    <2>2. tokenLost' \in BOOLEAN
          /\ (tokenLost \/ (poll[q].at = "answer" /\ poll[q].row.token # NoScan) => tokenLost')
      BY <2>1
    <2>3. QrTypeOK'
      BY <1>1, <2>1, <2>2 DEF Rows, Blank, NoPoll
    <2>4. \A r \in Polls : Reads(r)'
      BY <1>4, <2>1 DEF Reads, NoPoll, Blank, Sound
    <2>5. ASSUME Alone PROVE TokenHeld'
      <3>1. Sound(qr) /\ TokenHeld
        BY <2>5
      <3>2. \A r \in Polls : Delivering(r)' => Delivering(r)
        BY <2>1 DEF Delivering, NoPoll
      <3>3. \A r \in Polls : Delivering(r) /\ r # q => Delivering(r)' /\ poll'[r] = poll[r]
        BY <2>1 DEF Delivering
      <3>4. qr.status = "approved" /\ ~ tokenLost' =>
              ~ tokenLost /\ ~ (Delivering(q) /\ poll[q].row.token = qr.session)
        BY <2>2, <3>1, QrAssumption DEF Delivering, Sound, Through
      <3> QED
        BY <2>1, <3>1, <3>2, <3>3, <3>4 DEF TokenHeld
    <2> QED
      BY <1>1, <1>2, <1>3, <1>4, <1>5, <2>1, <2>3, <2>4, <2>5
  <1> QED
    BY <1>6, <1>7, <1>8, <1>9, <1>10

LEMMA QrNextInv == QrInv /\ [QrNext]_qrVars => QrInv'
  <1> SUFFICES ASSUME QrInv, [QrNext]_qrVars PROVE QrInv'
    OBVIOUS
  <1>1. CASE UNCHANGED qrVars
    <2>1. UNCHANGED <<qr, late, scanAt, live, poll, told, kept, tokenLost>>
      BY <1>1 DEF qrVars, scanVars, deviceVars
    <2>2. Through' = Through
      BY <2>1 DEF Through
    <2> QED
      BY <2>1, <2>2
         DEF QrInv, QrTypeOK, Sound, Reads, StillLive, Alone, TokenHeld, Delivering
  <1>2. CASE QrNext
    BY <1>2, ScanInv, WriteQrInv, PollInv DEF QrNext
  <1> QED
    BY <1>1, <1>2

\* The inductive invariant holds of every reachable state of a pairing.
THEOREM QrInvariance == QrSpec => []QrInv
  BY QrInitInv, QrNextInv, PTL DEF QrSpec

\* A device that has been told it is signed in has the refresh token of a session
\* nobody revoked, however polls, approvals and the expiry of the code overlap.
THEOREM PairedKeepsSession == QrSpec => []PairedStaysSignedIn
  <1>1. QrInv => PairedStaysSignedIn
    <2> SUFFICES ASSUME QrInv, told # NoScan, \A q \in Polls : poll[q].at = "idle",
                        ~ tokenLost, Cardinality(Through) <= 1
                 PROVE  kept = told /\ told \in live
      BY DEF PairedStaysSignedIn, Through
    <2>1. told \in Through /\ IsFiniteSet(Through)
      BY DEF QrInv
    <2>2. Cardinality(Through) = 0 \/ Cardinality(Through) = 1
      BY <2>1, FS_CardinalityType
    <2>3. Alone
      BY <2>1, <2>2, FS_EmptySet, FS_Singleton DEF Alone
    <2>4. Through \subseteq {told} /\ qr.status = "approved" /\ qr.session \in Through
      BY <2>1, <2>3 DEF QrInv, Sound, Alone
    <2>5. qr.token = NoScan
      BY <2>3 DEF QrInv, TokenHeld
    <2>6. kept = qr.session
      BY <2>3, <2>4, <2>5 DEF QrInv, TokenHeld, Delivering
    <2>7. told \in live
      BY <2>1, <2>4 DEF QrInv, StillLive, Through
    <2> QED
      BY <2>1, <2>3, <2>4, <2>6, <2>7 DEF Alone
  <1> QED
    BY <1>1, QrInvariance, PTL

-------------------------------------------------------------------------------
(* The browser's store of the messages it has still to send.               *)

StorageTypeOK ==
  /\ page \in [Pages -> {"closed", "loading", "read", "ready"}]
  /\ found \in [Pages -> SUBSET Notes] /\ memory \in [Pages -> SUBSET Notes]
  /\ foreign \in [Pages -> SUBSET Notes]
  /\ puts \in [Pages -> Seq(SUBSET Notes)]
  /\ local \subseteq Notes /\ idb \subseteq Notes /\ written \subseteq Notes
  /\ early \subseteq Pages

\* What the invariant is about: messages that must not be lost.
Owed == Unsent \ excused

\* The last write under way in a tab is of its queue, unless it used the queue
\* before it was loaded.
LastPut(t) ==
  /\ puts[t] # << >> => Usable(t)
  /\ t \notin early /\ puts[t] # << >> => puts[t][Len(puts[t])] = memory[t]

\* localStorage has every message; an open tab has it too, or must not save over
\* it; and so has IndexedDB, or the tab that has the message is still writing.
StorageInv ==
  /\ StorageTypeOK
  /\ \A t \in Pages : LastPut(t)
  /\ Owed \subseteq local
  /\ \A t \in Pages : Usable(t) => Owed \subseteq memory[t] \union foreign[t]
  /\ idb # {} =>
       \A m \in Owed \ idb : \E t \in Pages : m \in memory[t] /\ puts[t] # << >>

LEMMA AppendNonempty ==
  ASSUME NEW s \in Seq(SUBSET Notes), NEW x \in SUBSET Notes
  PROVE  Append(s, x) # << >>
  <1>1. Len(Append(s, x)) = Len(s) + 1 /\ Len(s) \in Nat
    OBVIOUS
  <1>2. Len(<< >>) = 0
    OBVIOUS
  <1> QED
    BY <1>1, <1>2

LEMMA LastOfTail ==
  ASSUME NEW S, NEW s \in Seq(S), s # << >>
  PROVE  /\ Tail(s) \in Seq(S)
         /\ Tail(s) = << >> => Head(s) = s[Len(s)]
         /\ Tail(s) # << >> => Tail(s)[Len(Tail(s))] = s[Len(s)]
  <1>1. /\ Tail(s) \in Seq(S) /\ Len(Tail(s)) = Len(s) - 1 /\ Len(s) \in Nat \ {0}
        /\ \A i \in 1 .. Len(Tail(s)) : Tail(s)[i] = s[i + 1]
    BY HeadTailProperties, EmptySeq
  <1>2. Tail(s) = << >> <=> Len(Tail(s)) = 0
    BY <1>1, EmptySeq
  <1>3. ASSUME Tail(s) = << >> PROVE Head(s) = s[Len(s)]
    BY <1>1, <1>2, <1>3
  <1>4. ASSUME Tail(s) # << >> PROVE Tail(s)[Len(Tail(s))] = s[Len(s)]
    BY <1>1, <1>2, <1>4
  <1> QED
    BY <1>1, <1>3, <1>4

LEMMA StorageInitInv == StorageInit => StorageInv
  BY DEF StorageInit, StorageInv, StorageTypeOK, LastPut, Owed, Unsent, Usable

LEMMA LoadInv ==
  ASSUME StorageInv, NEW t \in Pages, OpenPage(t) \/ ReadIdb(t) \/ LoadEarly(t)
  PROVE  StorageInv'
  <1> USE DEF StorageInv, StorageTypeOK, LastPut, Owed, Unsent, Usable
  <1>1. CASE OpenPage(t)
    BY <1>1 DEF OpenPage
  <1>2. CASE ReadIdb(t)
    BY <1>2 DEF ReadIdb
  <1>3. CASE LoadEarly(t)
    <2>1. puts[t] = << >>
      BY <1>3 DEF LoadEarly
    <2> QED
      BY <1>3, <2>1 DEF LoadEarly
  <1> QED
    BY <1>1, <1>2, <1>3

LEMMA HydrateInv == ASSUME StorageInv, NEW t \in Pages, HydrateQueue(t) PROVE StorageInv'
  <1> USE DEF StorageInv, StorageTypeOK, LastPut, Owed, Unsent, Usable
  <1> DEFINE queue == Taken(found[t])
  <1>1. /\ page[t] = "read"
        /\ page' = [page EXCEPT ![t] = "ready"]
        /\ memory' = [memory EXCEPT ![t] = queue]
        /\ local' = queue
        /\ puts' = IF found[t] = {} /\ local # {} THEN [puts EXCEPT ![t] = Append(@, local)]
                   ELSE puts
        /\ foreign' = [foreign EXCEPT ![t] = Unsent \ queue]
        /\ found' = [found EXCEPT ![t] = {}]
        /\ UNCHANGED <<early, idb, written, delivered>>
    BY DEF HydrateQueue
  <1>2. excused' = IF found[t] # {} THEN excused \union (Unsent \ queue) ELSE excused
    BY <1>1 DEF HydrateQueue
  <1>3. queue \subseteq Notes /\ (found[t] = {} => queue = local)
    BY DEF Taken
  <1> HIDE DEF queue
  <1>4. Owed' \subseteq queue /\ Owed' \subseteq Owed
    BY <1>1, <1>2, <1>3
  <1>5. StorageTypeOK'
    BY <1>1, <1>3
  <1>6. \A u \in Pages : LastPut(u)'
    BY <1>1, <1>3
  <1>7. \A u \in Pages : Usable(u)' => Owed' \subseteq memory'[u] \union foreign'[u]
    BY <1>1, <1>4
  <1>8. \A u \in Pages : puts[u] # << >> => puts'[u] # << >>
    BY <1>1, AppendNonempty
  <1>9. ASSUME idb # {}, NEW m \in Owed' \ idb
        PROVE  \E u \in Pages : m \in memory'[u] /\ puts'[u] # << >>
    <2>1. PICK u \in Pages : m \in memory[u] /\ puts[u] # << >>
      BY <1>4, <1>9
    <2>2. m \in memory'[u]
      BY <1>1, <1>4, <1>9, <2>1
    <2> QED
      BY <1>8, <2>1, <2>2
  <1> QED
    BY <1>1, <1>4, <1>5, <1>6, <1>7, <1>9

\* A tab that saves its queue has what it is about to save over, or the message is
\* excused.
LEMMA PersistInv ==
  ASSUME StorageInv, NEW t \in Pages, NEW queue \in SUBSET Notes, Persist(t, queue),
         written' \subseteq Notes, foreign' \in [Pages -> SUBSET Notes],
         \A u \in Pages : foreign[u] \subseteq foreign'[u],
         \A m \in Unsent' \intersect Unsent : m \in memory[t] => m \in queue,
         \A m \in Unsent' \ Unsent :
           m \in queue /\ \A u \in Pages \ {t} : Usable(u) => m \in foreign'[u]
  PROVE  StorageInv'
  <1> USE DEF StorageInv, StorageTypeOK, LastPut
  <1>1. /\ Usable(t)
        /\ memory' = [memory EXCEPT ![t] = queue]
        /\ puts' = [puts EXCEPT ![t] = Append(@, queue)]
        /\ UNCHANGED <<page, found, early, idb>>
    BY DEF Persist
  <1>2. \/ local' = queue /\ excused' = excused \union foreign[t]
        \/ local' = local /\ excused' = excused \union (queue \ local)
    BY DEF Persist
  <1>3. StorageTypeOK'
    BY <1>1, <1>2
  <1>4. \A u \in Pages : Usable(u)' <=> Usable(u)
    BY <1>1 DEF Usable
  <1>5. \A u \in Pages : LastPut(u)'
    BY <1>1, <1>4
  <1>6. Owed' \subseteq local'
    BY <1>1, <1>2 DEF Owed
  <1>7. ASSUME NEW u \in Pages, Usable(u) PROVE Owed' \subseteq memory'[u] \union foreign'[u]
    <2>1. CASE u = t
      BY <1>1, <1>2, <1>7, <2>1 DEF Owed
    <2>2. CASE u # t
      BY <1>1, <1>2, <1>7, <2>2 DEF Owed
    <2> QED
      BY <2>1, <2>2
  <1>8. ASSUME idb # {}, NEW m \in Owed' \ idb
        PROVE  \E u \in Pages : m \in memory'[u] /\ puts'[u] # << >>
    <2>1. puts'[t] # << >> /\ memory'[t] = queue
      BY <1>1, AppendNonempty
    <2>2. CASE m \in queue
      BY <2>1, <2>2
    <2>3. CASE m \notin queue
      <3>1. m \in Owed /\ m \notin memory[t]
        BY <1>2, <1>8, <2>3 DEF Owed
      <3>2. PICK u \in Pages : m \in memory[u] /\ puts[u] # << >>
        BY <1>8, <3>1
      <3> QED
        BY <1>1, <3>1, <3>2
    <2> QED
      BY <2>2, <2>3
  <1> QED
    BY <1>1, <1>3, <1>4, <1>5, <1>6, <1>7, <1>8

LEMMA QueueInv ==
  ASSUME StorageInv, NEW t \in Pages,
         Bump(t) \/ \E m \in Notes : Enqueue(t, m) \/ RemoveSent(t, m)
  PROVE  StorageInv'
  <1>0. memory[t] \in SUBSET Notes /\ foreign \in [Pages -> SUBSET Notes] /\ written \subseteq Notes
    BY DEF StorageInv, StorageTypeOK
  <1>1. CASE Bump(t)
    BY <1>0, <1>1, PersistInv DEF Bump, Unsent
  <1>2. ASSUME NEW m \in Notes, Enqueue(t, m) PROVE StorageInv'
    <2>1. /\ written' = written \union {m} /\ delivered' = delivered
          /\ Persist(t, memory[t] \union {m}) /\ memory[t] \union {m} \in SUBSET Notes
          /\ foreign' = [u \in Pages |-> IF u # t /\ Usable(u) THEN foreign[u] \union {m}
                                         ELSE foreign[u]]
      BY <1>0, <1>2 DEF Enqueue
    <2>2. Unsent' \subseteq Unsent \union {m}
      BY <2>1 DEF Unsent
    <2> QED
      BY <1>0, <2>1, <2>2, PersistInv
  <1>3. ASSUME NEW m \in Notes, RemoveSent(t, m) PROVE StorageInv'
    <2>1. /\ delivered' = delivered \union {m} /\ UNCHANGED <<written, foreign>>
          /\ Persist(t, memory[t] \ {m}) /\ memory[t] \ {m} \in SUBSET Notes
      BY <1>0, <1>3 DEF RemoveSent
    <2>2. Unsent' = Unsent \ {m}
      BY <2>1 DEF Unsent
    <2> QED
      BY <1>0, <2>1, <2>2, PersistInv
  <1> QED
    BY <1>1, <1>2, <1>3

LEMMA PutInv ==
  ASSUME StorageInv, NEW t \in Pages, PutDone(t) \/ PutFails(t) \/ ClosePage(t)
  PROVE  StorageInv'
  <1> USE DEF StorageInv, StorageTypeOK, LastPut
  <1>1. CASE PutDone(t)
    <2>1. /\ puts[t] # << >> /\ Head(puts[t]) \in SUBSET Notes
          /\ idb' = Head(puts[t])
          /\ puts' = [puts EXCEPT ![t] = Tail(@)]
          /\ UNCHANGED <<page, found, early, memory, foreign, local, written, delivered>>
      BY <1>1 DEF PutDone
    <2>2. excused' = excused \union foreign[t]
                    \union (IF t \in early THEN memory[t] \ idb' ELSE {})
      BY <1>1 DEF PutDone
    <2>3. StorageTypeOK'
      BY <2>1
    <2>4. \A u \in Pages : Usable(u)' <=> Usable(u)
      BY <2>1 DEF Usable
    <2>5. \A u \in Pages : LastPut(u)'
      BY <2>1, <2>4
    <2>6. Owed' \subseteq Owed
      BY <2>1, <2>2 DEF Owed, Unsent
    <2>7. ASSUME NEW m \in Owed' \ idb'
          PROVE  m \in memory'[t] /\ puts'[t] # << >>
      <3>1. m \in memory[t] /\ t \notin early
        BY <2>1, <2>2, <2>6, <2>7 DEF Owed
      <3>2. puts[t][Len(puts[t])] = memory[t] /\ Head(puts[t]) # memory[t]
        BY <2>1, <2>7, <3>1
      <3>3. Tail(puts[t]) # << >>
        BY <2>1, <3>2, LastOfTail
      <3> QED
        BY <2>1, <3>1, <3>3
    <2> QED
      BY <2>1, <2>3, <2>4, <2>5, <2>6, <2>7
  <1>2. CASE PutFails(t)
    <2>1. /\ puts[t] # << >>
          /\ puts' = [puts EXCEPT ![t] = Tail(@)]
          /\ excused' = IF idb # {} THEN excused \union (memory[t] \ idb) ELSE excused
          /\ UNCHANGED <<page, found, early, memory, foreign, local, idb, written, delivered>>
      BY <1>2 DEF PutFails
    <2>2. StorageTypeOK'
      BY <2>1
    <2>3. \A u \in Pages : Usable(u)' <=> Usable(u)
      BY <2>1 DEF Usable
    <2>4. \A u \in Pages : LastPut(u)'
      BY <2>1, <2>3
    <2>5. Owed' \subseteq Owed
      BY <2>1 DEF Owed, Unsent
    <2>6. ASSUME idb # {}, NEW m \in Owed' \ idb
          PROVE  \E u \in Pages : m \in memory[u] /\ puts'[u] # << >>
      <3>1. PICK u \in Pages : m \in memory[u] /\ puts[u] # << >>
        BY <2>5, <2>6
      <3>2. u # t
        BY <2>1, <2>6, <3>1 DEF Owed
      <3> QED
        BY <2>1, <3>1, <3>2
    <2> QED
      BY <2>1, <2>2, <2>3, <2>4, <2>5, <2>6
  <1>3. CASE ClosePage(t)
    <2>1. /\ page' = [page EXCEPT ![t] = "closed"]
          /\ memory' = [memory EXCEPT ![t] = {}] /\ found' = [found EXCEPT ![t] = {}]
          /\ early' = early \ {t}
          /\ puts' = [puts EXCEPT ![t] = << >>]
          /\ foreign' = [foreign EXCEPT ![t] = {}]
          /\ excused' = IF puts[t] # << >> /\ idb # {} THEN excused \union (memory[t] \ idb)
                        ELSE excused
          /\ UNCHANGED <<local, idb, written, delivered>>
      BY <1>3 DEF ClosePage
    <2>2. StorageTypeOK'
      BY <2>1
    <2>3. ~ Usable(t)' /\ \A u \in Pages \ {t} : Usable(u)' <=> Usable(u)
      BY <2>1 DEF Usable
    <2>4. \A u \in Pages : LastPut(u)'
      BY <2>1, <2>3
    <2>5. Owed' \subseteq Owed
      BY <2>1 DEF Owed, Unsent
    <2>6. \A u \in Pages : Usable(u)' => Owed' \subseteq memory'[u] \union foreign'[u]
      BY <2>1, <2>3, <2>5
    <2>7. ASSUME idb # {}, NEW m \in Owed' \ idb
          PROVE  \E u \in Pages : m \in memory'[u] /\ puts'[u] # << >>
      <3>1. PICK u \in Pages : m \in memory[u] /\ puts[u] # << >>
        BY <2>5, <2>7
      <3>2. u # t
        BY <2>1, <2>7, <3>1 DEF Owed
      <3> QED
        BY <2>1, <3>1, <3>2
    <2> QED
      BY <2>1, <2>2, <2>4, <2>5, <2>6, <2>7
  <1> QED
    BY <1>1, <1>2, <1>3

LEMMA StorageNextInv == StorageInv /\ [StorageNext]_storageVars => StorageInv'
  <1> SUFFICES ASSUME StorageInv, [StorageNext]_storageVars PROVE StorageInv'
    OBVIOUS
  <1>1. CASE UNCHANGED storageVars
    BY <1>1 DEF storageVars, tabVars, StorageInv, StorageTypeOK, LastPut, Owed, Unsent, Usable
  <1>2. CASE StorageNext
    BY <1>2, LoadInv, HydrateInv, QueueInv, PutInv DEF StorageNext
  <1> QED
    BY <1>1, <1>2

\* The inductive invariant holds of the store in every reachable state.
THEOREM StorageInvariance == StorageSpec => []StorageInv
  BY StorageInitInv, StorageNextInv, PTL DEF StorageSpec

\* A message that has not been sent is in an open tab or is found by the next page
\* load, whichever of the two stores a tab had reached when it was closed.
THEOREM QueueSurvivesReloads == StorageSpec => []KeptOverReloads
  <1>1. StorageInv => KeptOverReloads
    <2> DEFINE queues == UNION {memory[t] : t \in Pages}
    <2>1. \A m, t : t \in Pages /\ m \in memory[t] => m \in queues
      OBVIOUS
    <2> HIDE DEF queues
    <2>2. ASSUME StorageInv, NEW m \in Unsent, m \notin excused, m \notin Taken(idb)
          PROVE  m \in queues
      <3>1. CASE idb = {}
        BY <2>2, <3>1 DEF StorageInv, Taken, Owed
      <3>2. CASE idb # {}
        BY <2>1, <2>2, <3>2 DEF StorageInv, Taken, Owed
      <3> QED
        BY <3>1, <3>2
    <2>3. StorageInv => Unsent \subseteq queues \union Taken(idb) \union excused
      BY <2>2
    <2> QED
      BY <2>3 DEF KeptOverReloads, queues
  <1> QED
    BY <1>1, StorageInvariance, PTL

-------------------------------------------------------------------------------
(* Wrong passwords: types, and what an account is locked for.              *)

IpStates == [phase : {"normal", "grace", "locked"}, failures : Nat, until : Nat,
             tier : {"none", "primary", "retry"}]
AccountStates == [strikes : Nat, reset : BOOLEAN]
Attempts == [at : {"idle", "check", "verified", "account", "setIp", "setAccount"},
             ip : Ips \union {"none"}, right : BOOLEAN, saw : IpStates,
             next : IpStates \X AccountStates]

LoginTypeOK ==
  /\ now \in Nat
  /\ ipState \in [Ips -> IpStates] /\ account \in AccountStates
  /\ knownIps \subseteq Ips
  /\ try \in [Tries -> Attempts]
  /\ \A x \in OpenTries : try[x].ip \in Ips
  /\ counted \in [Ips -> Nat] /\ earned \in Nat /\ since \in Nat
  /\ straddled \in BOOLEAN

\* An attempt that has computed what it will write.
Computed(x) == try[x].at \in {"setIp", "setAccount"}

\* The strikes of an account are of wrong passwords since it was last cleared.
Earned(acct) == acct.strikes <= since /\ (acct.reset => since >= MaxStrikes)

StrikesInv ==
  /\ \A x \in Tries :
       Computed(x) /\ try[x].right => try[x].next = Unlocked \/ try[x].next[2].reset
  /\ ~straddled => Earned(account)
  /\ ~straddled => \A x \in Tries : Computed(x) => Earned(try[x].next[2])

LEMMA AdvanceType ==
  ASSUME NEW s \in IpStates
  PROVE  Advance(s) \in IpStates
  BY DEF Advance, Fresh, IpStates

LEMMA UnlockedType ==
  Fresh \in IpStates /\ Clean \in AccountStates /\ Unlocked \in IpStates \X AccountStates
  /\ Unlocked[1] = Fresh /\ Unlocked[2] = Clean /\ NoTry \in Attempts
  BY DEF Fresh, Clean, Unlocked, NoTry, IpStates, AccountStates, Attempts

\* A wrong password adds at most one strike.
LEMMA FailureAdds ==
  ASSUME now \in Nat, NEW s \in IpStates, NEW a \in AccountStates
  PROVE  LET f == AfterFailure(s, a)
         IN  /\ f \in IpStates \X AccountStates
             /\ f[2].strikes \in {a.strikes, a.strikes + 1}
             /\ f[2].reset => a.reset \/ f[2].strikes >= MaxStrikes
  <1> DEFINE t == Advance(s)
             locks == t.phase = "grace" \/ t.failures + 1 >= MaxAttempts
             strikes == a.strikes + IF locks THEN 1 ELSE 0
             nextIp == IF t.phase = "grace" THEN Locked("retry", RetryLockout)
                       ELSE IF locks THEN Locked("primary", FirstLockout)
                       ELSE [t EXCEPT !.failures = @ + 1]
             nextAccount == [strikes |-> strikes, reset |-> strikes >= MaxStrikes]
  <1>1. t \in IpStates
    BY AdvanceType
  <1>2. a.strikes \in Nat /\ strikes \in {a.strikes, a.strikes + 1} /\ strikes \in Nat
    BY DEF AccountStates
  <1>3. nextAccount \in AccountStates
    BY <1>2 DEF AccountStates
  <1>4. Locked("retry", RetryLockout) \in IpStates /\ Locked("primary", FirstLockout) \in IpStates
    BY LoginAssumption DEF Locked, IpStates
  <1>5. [t EXCEPT !.failures = @ + 1] \in IpStates
    BY <1>1 DEF IpStates
  <1>6. nextIp \in IpStates
    BY <1>4, <1>5
  <1>7. AfterFailure(s, a) = IF a.reset THEN <<t, a>> ELSE <<nextIp, nextAccount>>
    BY DEF AfterFailure
  <1>8. nextAccount.strikes = strikes /\ (nextAccount.reset => strikes >= MaxStrikes)
    OBVIOUS
  <1> HIDE DEF t, locks, strikes, nextIp, nextAccount
  <1>9. CASE a.reset
    BY <1>1, <1>2, <1>7, <1>9
  <1>10. CASE ~a.reset
    BY <1>2, <1>3, <1>6, <1>7, <1>8, <1>10
  <1> QED
    BY <1>9, <1>10

LEMMA SuccessKeeps ==
  ASSUME NEW s \in IpStates, NEW a \in AccountStates
  PROVE  LET f == AfterSuccess(s, a)
         IN  /\ f \in IpStates \X AccountStates
             /\ f = Unlocked \/ (f[2] = a /\ a.reset)
  BY UnlockedType DEF AfterSuccess

-------------------------------------------------------------------------------
(* Wrong passwords: the strikes among them.                                *)

\* Where a wrong password is in a round of MaxAttempts and one more, and
\* whether it is a strike.
Round(n) == n % (MaxAttempts + 1)
Strike(n) == IF Round(n) \in {MaxAttempts, 0} THEN 1 ELSE 0

LEMMA NextRemainder ==
  ASSUME NEW d \in Nat \ {0}, NEW n \in Nat
  PROVE  /\ n % d \in 0 .. d - 1
         /\ (n + 1) % d = IF n % d = d - 1 THEN 0 ELSE (n % d) + 1
  <1> DEFINE q == n \div d
             r == n % d
             p == (n + 1) \div d
             s == (n + 1) % d
  <1>1. q \in Nat /\ p \in Nat /\ r \in 0 .. d - 1 /\ s \in 0 .. d - 1
    OBVIOUS
  <1>2. n = d * q + r /\ n + 1 = d * p + s
    OBVIOUS
  <1> HIDE DEF q, r, p, s
  <1>3. ASSUME NEW a \in Nat, NEW b \in Nat, a < b
        PROVE  d * b >= d * a + d
    <2>1. b - a - 1 \in Nat /\ d * (b - a - 1) \in Nat
      BY <1>3
    <2>2. d * b = d * a + d + d * (b - a - 1)
      OBVIOUS
    <2> QED
      BY <2>1, <2>2
  <1>4. d * q \in Nat /\ d * p \in Nat
    BY <1>1
  <1>5. s = IF r = d - 1 THEN 0 ELSE r + 1
    <2>1. CASE p = q
      BY <1>1, <1>2, <2>1, <1>4
    <2>2. CASE q < p
      <3>1. d * p >= d * q + d
        BY <1>1, <1>3, <2>2
      <3> QED
        BY <1>1, <1>2, <1>4, <3>1
    <2>3. CASE p < q
      <3>1. d * q >= d * p + d
        BY <1>1, <1>3, <2>3
      <3> QED
        BY <1>1, <1>2, <1>4, <3>1
    <2> QED
      BY <1>1, <2>1, <2>2, <2>3
  <1> QED
    BY <1>1, <1>5 DEF r, s

LEMMA NextRound ==
  ASSUME NEW n \in Nat
  PROVE  /\ Round(n) \in 0 .. MaxAttempts
         /\ Round(n + 1) = IF Round(n) = MaxAttempts THEN 0 ELSE Round(n) + 1
         /\ Round(0) = 0
  <1> DEFINE d == MaxAttempts + 1
  <1>1. MaxAttempts \in Nat \ {0} /\ d \in Nat \ {0} /\ d - 1 = MaxAttempts
    BY LoginAssumption
  <1>2. 0 % d = 0
    BY <1>1
  <1>3. Round(n) = n % d /\ Round(n + 1) = (n + 1) % d /\ Round(0) = 0 % d
    BY DEF Round
  <1> HIDE DEF d
  <1> QED
    BY <1>1, <1>2, <1>3, NextRemainder

\* What Redis holds of an address after n wrong passwords that came one at a time.
Remembers(s, n) ==
  \/ s.phase = "normal" /\ s.failures = Round(n) /\ Round(n) # MaxAttempts
  \/ s.phase = "locked" /\ s.tier = "primary" /\ Round(n) = MaxAttempts
  \/ s.phase = "locked" /\ s.tier = "retry" /\ Round(n) = 0

LEMMA FailureCounts ==
  ASSUME now \in Nat, NEW s \in IpStates, NEW a \in AccountStates, NEW n \in Nat,
         ~a.reset, Advance(s).phase # "locked", Remembers(s, n)
  PROVE  LET f == AfterFailure(s, a)
         IN  Remembers(f[1], n + 1) /\ f[2].strikes = a.strikes + Strike(n + 1)
  <1> DEFINE t == Advance(s)
             locks == t.phase = "grace" \/ t.failures + 1 >= MaxAttempts
             strikes == a.strikes + IF locks THEN 1 ELSE 0
             nextIp == IF t.phase = "grace" THEN Locked("retry", RetryLockout)
                       ELSE IF locks THEN Locked("primary", FirstLockout)
                       ELSE [t EXCEPT !.failures = @ + 1]
             nextAccount == [strikes |-> strikes, reset |-> strikes >= MaxStrikes]
  <1>1. t \in IpStates
    BY AdvanceType
  <1>2. AfterFailure(s, a) = <<nextIp, nextAccount>>
    BY DEF AfterFailure
  <1>3. MaxAttempts \in Nat \ {0} /\ Round(n) \in 0 .. MaxAttempts
        /\ Round(n + 1) = IF Round(n) = MaxAttempts THEN 0 ELSE Round(n) + 1
    BY NextRound, LoginAssumption
  <1>4. AfterFailure(s, a)[1] = nextIp /\ AfterFailure(s, a)[2].strikes = strikes
    BY <1>2
  <1>5. /\ Locked("retry", RetryLockout).phase = "locked"
        /\ Locked("retry", RetryLockout).tier = "retry"
        /\ Locked("primary", FirstLockout).phase = "locked"
        /\ Locked("primary", FirstLockout).tier = "primary"
    BY DEF Locked
  <1>6. \/ t.phase = "grace" /\ Round(n) = MaxAttempts
        \/ t.phase = "normal" /\ t.failures = Round(n) /\ Round(n) # MaxAttempts
    BY <1>3 DEF Remembers, Advance, Fresh, IpStates
  <1>7. [t EXCEPT !.failures = @ + 1].phase = t.phase
        /\ [t EXCEPT !.failures = @ + 1].failures = t.failures + 1
    BY <1>1 DEF IpStates
  <1> HIDE DEF t, nextAccount
  <1>8. CASE t.phase = "grace"
    <2>1. nextIp = Locked("retry", RetryLockout) /\ Round(n + 1) = 0 /\ strikes = a.strikes + 1
      BY <1>3, <1>6, <1>8
    <2> HIDE DEF nextIp, strikes
    <2> QED
      BY <1>4, <1>5, <2>1 DEF Remembers, Strike
  <1>9. CASE t.phase # "grace" /\ t.failures + 1 >= MaxAttempts
    <2>1. nextIp = Locked("primary", FirstLockout) /\ strikes = a.strikes + 1
      BY <1>9
    <2>2. Round(n + 1) = MaxAttempts
      BY <1>3, <1>6, <1>9
    <2> HIDE DEF nextIp, strikes
    <2> QED
      BY <1>3, <1>4, <1>5, <2>1, <2>2 DEF Remembers, Strike
  <1>10. CASE t.phase # "grace" /\ ~(t.failures + 1 >= MaxAttempts)
    <2>1. nextIp = [t EXCEPT !.failures = @ + 1] /\ strikes = a.strikes
      BY <1>10 DEF AccountStates
    <2>2. Round(n + 1) = t.failures + 1 /\ Round(n + 1) # MaxAttempts /\ Round(n + 1) # 0
      BY <1>3, <1>6, <1>10
    <2>3. nextIp.phase = "normal" /\ nextIp.failures = Round(n + 1)
      BY <1>6, <1>7, <1>10, <2>1, <2>2
    <2>4. Strike(n + 1) = 0
      BY <2>2 DEF Strike
    <2>5. a.strikes \in Nat
      BY DEF AccountStates
    <2> HIDE DEF nextIp, strikes
    <2> QED
      BY <1>4, <2>1, <2>2, <2>3, <2>4, <2>5 DEF Remembers
  <1> QED
    BY <1>8, <1>9, <1>10

\* As long as requests come one at a time, one of them is under way, what Redis
\* holds of each address is what its wrong passwords made of it, and the strikes
\* of the account are those that were earned.
OneAtATime ==
  /\ \A x, y \in OpenTries : x = y
  /\ OpenTries # {} => resetAt = "idle"
  /\ resetAt \in {"idle", "clear", "set"}
  /\ resetAt = "clear" => resetIps = IF loginId = "email" THEN knownIps ELSE {}

LedgerKept ==
  /\ \A ip \in Ips : Remembers(ipState[ip], counted[ip])
  /\ \A ip \in Ips : counted[ip] # 0 => ip \in knownIps
  /\ account.strikes = earned

\* ... and what an attempt has read is still so.
TryKept(x) ==
  LET t == try[x]
      n == counted[t.ip]
  IN  /\ t.at \in {"check", "account"} => t.saw = ipState[t.ip]
      /\ t.at \in {"verified", "account"} =>
           ~account.reset /\ Advance(ipState[t.ip]).phase # "locked"
      /\ t.at = "setIp" /\ t.right => t.next = Unlocked
      /\ t.at = "setIp" /\ ~t.right =>
           /\ Remembers(t.next[1], n + 1)
           /\ t.next[2].strikes = account.strikes + Strike(n + 1)
      /\ t.at = "setAccount" /\ t.right => t.next = Unlocked
      /\ t.at = "setAccount" /\ ~t.right => t.next[2].strikes = account.strikes + Strike(n)

CountInv == OneAtATime /\ LedgerKept /\ \A x \in OpenTries : TryKept(x)

LoginInv == LoginTypeOK /\ StrikesInv /\ (~raced => CountInv)
-------------------------------------------------------------------------------
(* Wrong passwords: the invariant.                                         *)

LEMMA LoginInitInv == LoginInit => LoginInv
  <1> SUFFICES ASSUME LoginInit PROVE LoginInv
    OBVIOUS
  <1> USE UnlockedType
  <1>1. \A x \in Tries : try[x] = NoTry
    BY DEF LoginInit
  <1>2. OpenTries = {} /\ \A x \in Tries : ~ Computed(x)
    BY <1>1 DEF OpenTries, Computed, NoTry
  <1>3. \A ip \in Ips : counted[ip] = 0 /\ ipState[ip] = Fresh
    BY DEF LoginInit
  <1>5. LoginTypeOK
    <2>1. try \in [Tries -> Attempts]
      BY DEF LoginInit
    <2>2. ipState \in [Ips -> IpStates] /\ counted \in [Ips -> Nat] /\ account \in AccountStates
      BY DEF LoginInit
    <2> QED
      BY <1>2, <2>1, <2>2 DEF LoginInit, LoginTypeOK
  <1>6. StrikesInv
    BY <1>2 DEF LoginInit, StrikesInv, Earned, Clean
  <1>7. CountInv
    <2>1. \A ip \in Ips : Remembers(ipState[ip], counted[ip])
      <3>1. Fresh.phase = "normal" /\ Fresh.failures = 0 /\ Round(0) = 0 /\ MaxAttempts # 0
        BY NextRound, LoginAssumption DEF Fresh
      <3> QED
        BY <1>3, <3>1 DEF Remembers
    <2>2. account.strikes = earned
      BY DEF LoginInit, Clean
    <2>3. resetAt = "idle"
      BY DEF LoginInit
    <2> QED
      BY <1>2, <1>3, <2>1, <2>2, <2>3 DEF CountInv, OneAtATime, LedgerKept
  <1> QED
    BY <1>5, <1>6, <1>7 DEF LoginInv

\* An attempt that only reads.
LEMMA TryMoves ==
  ASSUME LoginTypeOK, NEW x \in Tries, NEW t \in Attempts, t.at # "idle" => t.ip \in Ips,
         try' = [try EXCEPT ![x] = t], UNCHANGED <<now, storeVars, counted, earned, resetIps>>,
         since' \in Nat, straddled' \in BOOLEAN
  PROVE  LoginTypeOK'
  <1>1. try' \in [Tries -> Attempts] /\ \A y \in Tries : try'[y] = IF y = x THEN t ELSE try[y]
    BY DEF LoginTypeOK
  <1>2. \A y \in OpenTries' : try'[y].ip \in Ips
    BY <1>1 DEF LoginTypeOK, OpenTries
  <1>3. UNCHANGED <<now, ipState, account, knownIps, counted, earned, resetIps>>
    BY DEF storeVars
  <1> QED
    BY <1>1, <1>2, <1>3 DEF LoginTypeOK

LEMMA AccountCleared ==
  ASSUME ClearAccount
  PROVE  \/ /\ account' = Clean /\ earned' = 0 /\ since' = 0
            /\ straddled' <=> \E x \in Tries : Computed(x)
            /\ straddled' \in BOOLEAN
         \/ UNCHANGED <<account, earned, since, straddled>>
  <1>1. CASE loginId = "email"
    BY <1>1 DEF ClearAccount, Clearing, Computed
  <1>2. CASE loginId # "email"
    BY <1>2 DEF ClearAccount
  <1> QED
    BY <1>1, <1>2

LEMMA LoginType ==
  ASSUME LoginTypeOK, [LoginNext]_loginVars
  PROVE  LoginTypeOK'
  <1> USE UnlockedType
  <1>1. CASE UNCHANGED loginVars
    BY <1>1 DEF LoginTypeOK, loginVars, storeVars, resetVars, ledgerVars, OpenTries
  <1>2. CASE TickLogin
    BY <1>2 DEF LoginTypeOK, TickLogin, storeVars, resetVars, ledgerVars, OpenTries
  <1>3. ASSUME NEW x \in Tries, NEW ip \in Ips, NEW right \in BOOLEAN, BeginTry(x, ip, right)
        PROVE  LoginTypeOK'
    <2> DEFINE t == [NoTry EXCEPT !.at = "check", !.ip = ip, !.right = right, !.saw = ipState[ip]]
    <2>1. ipState[ip] \in IpStates
      BY DEF LoginTypeOK
    <2>2. t \in Attempts /\ t.ip = ip
      BY <2>1 DEF Attempts
    <2>3. /\ try' = [try EXCEPT ![x] = t]
          /\ UNCHANGED <<now, storeVars, counted, earned, resetIps>>
          /\ since' \in Nat /\ straddled' \in BOOLEAN
      BY <1>3 DEF BeginTry, LoginTypeOK, resetVars, ledgerVars
    <2> HIDE DEF t
    <2> QED
      BY <2>2, <2>3, TryMoves
  <1>4. ASSUME NEW x \in Tries, CheckTry(x)
        PROVE  LoginTypeOK'
    <2> DEFINE t == IF Allowed(try[x].saw, account) THEN [try[x] EXCEPT !.at = "verified"]
                    ELSE NoTry
    <2>1. try[x] \in Attempts /\ (try[x].at # "idle" => try[x].ip \in Ips)
      BY DEF LoginTypeOK, OpenTries
    <2>2. t \in Attempts /\ (t.at # "idle" => t.ip \in Ips)
      <3>1. [try[x] EXCEPT !.at = "verified"] \in Attempts
            /\ [try[x] EXCEPT !.at = "verified"].ip = try[x].ip
        BY <2>1 DEF Attempts
      <3> QED
        BY <1>4, <2>1, <3>1 DEF CheckTry, NoTry
    <2>3. /\ try' = [try EXCEPT ![x] = t]
          /\ UNCHANGED <<now, storeVars, counted, earned, resetIps>>
          /\ since' \in Nat /\ straddled' \in BOOLEAN
      BY <1>4 DEF CheckTry, LoginTypeOK, resetVars, ledgerVars
    <2> HIDE DEF t
    <2> QED
      BY <2>2, <2>3, TryMoves
  <1>5. ASSUME NEW x \in Tries, RecordIp(x)
        PROVE  LoginTypeOK'
    <2> DEFINE t == [try[x] EXCEPT !.at = "account", !.saw = ipState[try[x].ip]]
    <2>1. try[x] \in Attempts /\ try[x].ip \in Ips /\ ipState[try[x].ip] \in IpStates
      BY <1>5 DEF LoginTypeOK, OpenTries, RecordIp
    <2>2. t \in Attempts /\ t.ip = try[x].ip
      BY <2>1 DEF Attempts
    <2>3. /\ try' = [try EXCEPT ![x] = t]
          /\ UNCHANGED <<now, storeVars, counted, earned, resetIps>>
          /\ since' \in Nat /\ straddled' \in BOOLEAN
      BY <1>5 DEF RecordIp, LoginTypeOK, resetVars, ledgerVars
    <2> HIDE DEF t
    <2> QED
      BY <2>1, <2>2, <2>3, TryMoves
  <1>6. ASSUME NEW x \in Tries, RecordAccount(x)
        PROVE  LoginTypeOK'
    <2> DEFINE p == IF try[x].right THEN AfterSuccess(try[x].saw, account)
                    ELSE AfterFailure(try[x].saw, account)
               t == [try[x] EXCEPT !.at = "setIp", !.next = p]
    <2>1. try[x] \in Attempts /\ try[x].ip \in Ips /\ try[x].saw \in IpStates
      BY <1>6 DEF LoginTypeOK, OpenTries, RecordAccount, Attempts
    <2>2. p \in IpStates \X AccountStates
      BY <2>1, FailureAdds, SuccessKeeps DEF LoginTypeOK
    <2>3. t \in Attempts /\ t.ip = try[x].ip
      BY <2>1, <2>2 DEF Attempts
    <2>4. try' = [try EXCEPT ![x] = t] /\ UNCHANGED <<now, storeVars, counted, earned, resetIps>>
      BY <1>6 DEF RecordAccount, LoginTypeOK, resetVars, ledgerVars
    <2>5. since' \in Nat /\ straddled' \in BOOLEAN
      BY <1>6 DEF RecordAccount, LoginTypeOK
    <2> HIDE DEF t
    <2> QED
      BY <2>1, <2>3, <2>4, <2>5, TryMoves
  <1>7. ASSUME NEW x \in Tries, SetIp(x)
        PROVE  LoginTypeOK'
    <2> DEFINE ip == try[x].ip
    <2>1. /\ try[x] \in Attempts /\ ip \in Ips /\ try[x].next[1] \in IpStates
          /\ counted \in [Ips -> Nat]
      BY <1>7 DEF LoginTypeOK, OpenTries, SetIp, Attempts
    <2>2. /\ ipState' = [ipState EXCEPT ![ip] = try[x].next[1]]
          /\ knownIps' = knownIps \union {ip}
          /\ try' = [try EXCEPT ![x].at = "setAccount"]
          /\ counted' = [counted EXCEPT ![ip] =
                           IF ~try[x].right THEN @ + 1
                           ELSE IF try[x].next = Unlocked THEN 0 ELSE @]
          /\ UNCHANGED <<now, account, resetIps, earned, since, straddled>>
      BY <1>7 DEF SetIp, resetVars
    <2>3. [try[x] EXCEPT !.at = "setAccount"] \in Attempts
          /\ [try[x] EXCEPT !.at = "setAccount"].ip = ip
      BY <2>1 DEF Attempts
    <2>4. try' \in [Tries -> Attempts] /\ \A y \in OpenTries' : try'[y].ip \in Ips
      BY <2>1, <2>2, <2>3 DEF LoginTypeOK, OpenTries
    <2>5. counted' \in [Ips -> Nat]
      BY <2>1, <2>2
    <2> QED
      BY <2>1, <2>2, <2>4, <2>5 DEF LoginTypeOK
  <1>8. ASSUME NEW x \in Tries, SetAccount(x)
        PROVE  LoginTypeOK'
    <2>1. /\ account' = try[x].next[2] /\ try' = [try EXCEPT ![x] = NoTry]
          /\ UNCHANGED <<now, ipState, knownIps, resetIps, counted>>
      BY <1>8 DEF SetAccount, resetVars
    <2>4. since' \in Nat /\ straddled' \in BOOLEAN /\ earned' \in Nat
      <3>1. \/ since' = 0 /\ straddled' \in BOOLEAN /\ earned' = 0
            \/ UNCHANGED <<since, straddled>> /\ earned' \in {earned, earned + 1}
        BY <1>8 DEF SetAccount, Clearing
      <3> QED
        BY <3>1 DEF LoginTypeOK
    <2>2. account' \in AccountStates
      BY <2>1 DEF LoginTypeOK, Attempts
    <2>3. try' \in [Tries -> Attempts] /\ \A y \in OpenTries' : try'[y].ip \in Ips
      BY <2>1 DEF LoginTypeOK, OpenTries, NoTry
    <2> QED
      BY <2>1, <2>2, <2>3, <2>4 DEF LoginTypeOK
  <1>9. CASE BeginReset
    BY <1>9 DEF LoginTypeOK, BeginReset, storeVars, OpenTries
  <1>10. CASE ClearEmail
    <2>1. /\ account' \in AccountStates /\ since' \in Nat /\ straddled' \in BOOLEAN
          /\ earned' \in Nat
      BY <1>10, AccountCleared DEF ClearEmail, LoginTypeOK
    <2>2. /\ ipState' = [ip \in Ips |-> IF ip \in resetIps THEN Fresh ELSE ipState[ip]]
          /\ knownIps' \in {{}, knownIps}
          /\ counted' = [ip \in Ips |-> IF ip \in resetIps THEN 0 ELSE counted[ip]]
          /\ UNCHANGED <<now, try, resetIps>>
      BY <1>10 DEF ClearEmail
    <2>3. ipState' \in [Ips -> IpStates] /\ counted' \in [Ips -> Nat]
      BY <2>2 DEF LoginTypeOK
    <2>4. OpenTries' = OpenTries
      BY <2>2 DEF OpenTries
    <2> QED
      BY <2>1, <2>2, <2>3, <2>4 DEF LoginTypeOK
  <1>11. CASE SetCleared
    <2>1. /\ account' \in AccountStates /\ since' \in Nat /\ straddled' \in BOOLEAN
          /\ earned' \in Nat
      BY <1>11, AccountCleared DEF SetCleared, LoginTypeOK
    <2> QED
      BY <1>11, <2>1 DEF LoginTypeOK, SetCleared, OpenTries
  <1>12. ASSUME NEW x \in Tries, BreakTry(x)
         PROVE  LoginTypeOK'
    <2>1. try' = [try EXCEPT ![x] = NoTry] /\ NoTry.at = "idle"
      BY <1>12 DEF BreakTry, NoTry
    <2>2. /\ UNCHANGED <<now, storeVars, counted, earned, resetIps>>
          /\ since' \in Nat /\ straddled' \in BOOLEAN
      BY <1>12 DEF BreakTry, LoginTypeOK, resetVars, ledgerVars
    <2> QED
      BY <2>1, <2>2, TryMoves
  <1>13. CASE BreakReset
    BY <1>13 DEF LoginTypeOK, BreakReset, storeVars, ledgerVars, OpenTries
  <1> QED
    BY <1>1, <1>2, <1>3, <1>4, <1>5, <1>6, <1>7, <1>8, <1>9, <1>10, <1>11, <1>12, <1>13
    DEF LoginNext

\* One attempt changes, and nothing is cleared: what it will write is earned if
\* what the account has is.
LEMMA TryEarns ==
  ASSUME LoginTypeOK, LoginTypeOK', StrikesInv, NEW x \in Tries, NEW t,
         try' = [try EXCEPT ![x] = t], UNCHANGED straddled, since' >= since,
         account' = account \/ (Computed(x) /\ account' = try[x].next[2]),
         t.at \in {"setIp", "setAccount"} =>
           \/ t.next[2].strikes <= since' /\ (t.next[2].reset => since' >= MaxStrikes)
           \/ straddled,
         t.at \in {"setIp", "setAccount"} /\ t.right => t.next = Unlocked \/ t.next[2].reset
  PROVE  StrikesInv'
  <1>1. \A y \in Tries : try'[y] = IF y = x THEN t ELSE try[y]
    BY DEF LoginTypeOK
  <1>2. since \in Nat /\ since' \in Nat /\ MaxStrikes \in Nat
    BY LoginAssumption DEF LoginTypeOK
  <1>3. \A y \in Tries : try[y].next[2].strikes \in Nat
    BY DEF LoginTypeOK, Attempts, AccountStates
  <1>4. account.strikes \in Nat
    BY DEF LoginTypeOK, AccountStates
  <1>5. \A y \in Tries :
          Computed(y)' /\ try'[y].right => try'[y].next = Unlocked \/ try'[y].next[2].reset
    BY <1>1 DEF StrikesInv, Computed
  <1>6. ASSUME ~ straddled
        PROVE  /\ account'.strikes <= since' /\ (account'.reset => since' >= MaxStrikes)
               /\ \A y \in Tries : Computed(y)' =>
                    /\ try'[y].next[2].strikes <= since'
                    /\ try'[y].next[2].reset => since' >= MaxStrikes
    <2>1. /\ account.strikes <= since' /\ (account.reset => since' >= MaxStrikes)
          /\ \A y \in Tries : Computed(y) =>
               /\ try[y].next[2].strikes <= since'
               /\ try[y].next[2].reset => since' >= MaxStrikes
      BY <1>2, <1>3, <1>4, <1>6 DEF StrikesInv, Earned
    <2> QED
      BY <1>1, <1>6, <2>1 DEF Computed
  <1> QED
    BY <1>5, <1>6 DEF StrikesInv, Earned

\* The account is cleared.
LEMMA ClearedEarns ==
  ASSUME StrikesInv, LoginTypeOK, account' = Clean, since' = 0,
         \A y \in Tries : Computed(y)' => Computed(y) /\ try'[y] = try[y] /\ straddled'
  PROVE  StrikesInv'
  <1>1. account'.strikes = 0 /\ ~ account'.reset
    BY DEF Clean
  <1>2. \A y \in Tries :
          Computed(y)' /\ try'[y].right => try'[y].next = Unlocked \/ try'[y].next[2].reset
    BY DEF StrikesInv
  <1> QED
    BY <1>1, <1>2 DEF StrikesInv, Earned

LEMMA StrikesStep ==
  ASSUME LoginTypeOK, LoginTypeOK', StrikesInv, [LoginNext]_loginVars
  PROVE  StrikesInv'
  <1> USE UnlockedType
  <1>1. CASE UNCHANGED <<try, account, since, straddled>>
    BY <1>1 DEF StrikesInv, Earned, Computed
  <1>2. ASSUME NEW x \in Tries, NEW ip \in Ips, NEW right \in BOOLEAN, BeginTry(x, ip, right)
        PROVE  StrikesInv'
    <2> DEFINE t == [NoTry EXCEPT !.at = "check", !.ip = ip, !.right = right, !.saw = ipState[ip]]
    <2>1. try' = [try EXCEPT ![x] = t] /\ UNCHANGED <<straddled, since, account>>
      BY <1>2 DEF BeginTry, storeVars
    <2>2. t.at = "check" /\ since' >= since
      BY <2>1 DEF NoTry, LoginTypeOK
    <2> HIDE DEF t
    <2> QED
      BY <2>1, <2>2, TryEarns
  <1>3. ASSUME NEW x \in Tries, CheckTry(x)
        PROVE  StrikesInv'
    <2> DEFINE t == IF Allowed(try[x].saw, account) THEN [try[x] EXCEPT !.at = "verified"]
                    ELSE NoTry
    <2>1. try' = [try EXCEPT ![x] = t] /\ UNCHANGED <<straddled, since, account>>
      BY <1>3 DEF CheckTry, storeVars, ledgerVars, LoginTypeOK
    <2>2. t.at \in {"verified", "idle"} /\ since' >= since
      BY <2>1 DEF NoTry, LoginTypeOK, Attempts
    <2> HIDE DEF t
    <2> QED
      BY <2>1, <2>2, TryEarns
  <1>4. ASSUME NEW x \in Tries, RecordIp(x)
        PROVE  StrikesInv'
    <2> DEFINE t == [try[x] EXCEPT !.at = "account", !.saw = ipState[try[x].ip]]
    <2>1. try' = [try EXCEPT ![x] = t] /\ UNCHANGED <<straddled, since, account>>
      BY <1>4 DEF RecordIp, storeVars, ledgerVars, LoginTypeOK
    <2>2. t.at = "account" /\ since' >= since
      BY <2>1 DEF LoginTypeOK, Attempts
    <2> HIDE DEF t
    <2> QED
      BY <2>1, <2>2, TryEarns
  <1>5. ASSUME NEW x \in Tries, RecordAccount(x)
        PROVE  StrikesInv'
    <2> DEFINE p == IF try[x].right THEN AfterSuccess(try[x].saw, account)
                    ELSE AfterFailure(try[x].saw, account)
               t == [try[x] EXCEPT !.at = "setIp", !.next = p]
    <2>1. /\ try' = [try EXCEPT ![x] = t] /\ UNCHANGED <<straddled, account>>
          /\ since' = IF try[x].right THEN since ELSE since + 1
      BY <1>5 DEF RecordAccount, storeVars, LoginTypeOK
    <2>2. /\ try[x] \in Attempts /\ try[x].saw \in IpStates /\ since \in Nat
          /\ account \in AccountStates /\ account.strikes \in Nat /\ MaxStrikes \in Nat
      BY LoginAssumption DEF LoginTypeOK, Attempts, AccountStates
    <2>3. t.next = p /\ t.right = try[x].right /\ since' >= since
      BY <2>1, <2>2 DEF Attempts
    <2>4. try[x].right => p = Unlocked \/ (p[2] = account /\ account.reset)
      BY <2>2, SuccessKeeps
    <2>5. ~ straddled => account.strikes <= since /\ (account.reset => since >= MaxStrikes)
      BY DEF StrikesInv, Earned
    <2>6. straddled \/ (p[2].strikes <= since' /\ (p[2].reset => since' >= MaxStrikes))
      <3>1. CASE try[x].right
        <4>1. Clean.strikes = 0 /\ ~ Clean.reset
          BY DEF Clean
        <4> QED
          BY <2>1, <2>2, <2>4, <2>5, <3>1, <4>1
      <3>2. CASE ~ try[x].right
        <4>1. /\ p[2].strikes \in {account.strikes, account.strikes + 1}
              /\ p[2].reset => account.reset \/ p[2].strikes >= MaxStrikes
          BY <2>2, <3>2, FailureAdds DEF LoginTypeOK
        <4> HIDE DEF p
        <4> QED
          BY <2>1, <2>2, <2>5, <3>2, <4>1
      <3> QED
        BY <3>1, <3>2
    <2> HIDE DEF t, p
    <2> QED
      BY <2>1, <2>3, <2>4, <2>6, TryEarns
  <1>6. ASSUME NEW x \in Tries, SetIp(x)
        PROVE  StrikesInv'
    <2> DEFINE t == [try[x] EXCEPT !.at = "setAccount"]
    <2>1. try' = [try EXCEPT ![x] = t] /\ UNCHANGED <<straddled, since, account>> /\ Computed(x)
      BY <1>6 DEF SetIp, LoginTypeOK, Computed
    <2>2. t.next = try[x].next /\ t.right = try[x].right /\ since' >= since
      BY <2>1 DEF LoginTypeOK, Attempts
    <2>3. /\ ~ straddled => t.next[2].strikes <= since' /\ (t.next[2].reset => since' >= MaxStrikes)
          /\ t.right => t.next = Unlocked \/ t.next[2].reset
      BY <2>1, <2>2 DEF StrikesInv, Earned
    <2> HIDE DEF t
    <2> QED
      BY <2>1, <2>2, <2>3, TryEarns
  <1>7. ASSUME NEW x \in Tries, SetAccount(x)
        PROVE  StrikesInv'
    <2>1. /\ Computed(x) /\ account' = try[x].next[2] /\ try' = [try EXCEPT ![x] = NoTry]
          /\ IF try[x].right /\ ~ account'.reset THEN Clearing(Tries \ {x})
             ELSE UNCHANGED <<since, straddled>>
      BY <1>7 DEF SetAccount, Computed
    <2>2. NoTry.at = "idle"
      BY DEF NoTry
    <2>3. CASE try[x].right /\ ~ account'.reset
      <3>1. account' = Clean
        BY <2>1, <2>3 DEF StrikesInv
      <3>2. \A y \in Tries : try'[y] = IF y = x THEN NoTry ELSE try[y]
        BY <2>1 DEF LoginTypeOK
      <3>3. \A y \in Tries : Computed(y)' => y # x /\ Computed(y) /\ try'[y] = try[y]
        BY <2>2, <3>2 DEF Computed
      <3>4. since' = 0 /\ (straddled' <=> \E y \in Tries \ {x} : Computed(y))
        BY <2>1, <2>3 DEF Clearing, Computed
      <3> QED
        BY <3>1, <3>3, <3>4, ClearedEarns
    <2>4. CASE ~ (try[x].right /\ ~ account'.reset)
      <3>1. UNCHANGED <<since, straddled>> /\ since' >= since
        BY <2>1, <2>4 DEF LoginTypeOK
      <3> QED
        BY <2>1, <2>2, <3>1, TryEarns
    <2> QED
      BY <2>3, <2>4
  <1>8. ASSUME ClearAccount, UNCHANGED try
        PROVE  StrikesInv'
    <2>1. \A y \in Tries : Computed(y)' => Computed(y) /\ try'[y] = try[y]
      BY <1>8 DEF Computed
    <2>2. CASE UNCHANGED <<account, earned, since, straddled>>
      BY <1>1, <1>8, <2>2
    <2>3. CASE account' = Clean /\ since' = 0 /\ (straddled' <=> \E y \in Tries : Computed(y))
      BY <2>1, <2>3, ClearedEarns
    <2> QED
      BY <1>8, <2>2, <2>3, AccountCleared
  <1>9. CASE TickLogin \/ BeginReset \/ BreakReset
    BY <1>1, <1>9 DEF TickLogin, BeginReset, BreakReset, storeVars, ledgerVars
  <1>10. CASE ClearEmail \/ SetCleared
    BY <1>8, <1>10 DEF ClearEmail, SetCleared
  <1>11. CASE UNCHANGED loginVars
    BY <1>1, <1>11 DEF loginVars, storeVars, ledgerVars
  <1>12. ASSUME NEW x \in Tries, BreakTry(x)
         PROVE  StrikesInv'
    <2>1. /\ try' = [try EXCEPT ![x] = NoTry] /\ NoTry.at = "idle"
          /\ UNCHANGED <<straddled, since, account>>
      BY <1>12 DEF BreakTry, storeVars, ledgerVars, NoTry
    <2>2. since' >= since
      BY <2>1 DEF LoginTypeOK
    <2> QED
      BY <2>1, <2>2, TryEarns
  <1> QED
    BY <1>2, <1>3, <1>4, <1>5, <1>6, <1>7, <1>9, <1>10, <1>11, <1>12 DEF LoginNext

LEMMA AdvancePhase ==
  ASSUME NEW s \in IpStates
  PROVE  Advance(s).phase # "locked" <=> s.phase # "locked" \/ now >= s.until
  BY DEF Advance, Fresh, IpStates

\* An attempt, the only request under way, goes on.
LEMMA AloneGoesOn ==
  ASSUME LoginTypeOK, NEW x \in Tries, NEW t, try' = [try EXCEPT ![x] = t],
         OpenTries \subseteq {x}, resetAt = "idle", UNCHANGED resetAt,
         LedgerKept', t.at # "idle" => TryKept(x)'
  PROVE  CountInv'
  <1>1. \A y \in Tries : try'[y] = IF y = x THEN t ELSE try[y]
    BY DEF LoginTypeOK
  <1>2. OpenTries' \subseteq {x} /\ (x \in OpenTries' => t.at # "idle")
    BY <1>1 DEF OpenTries
  <1>3. OneAtATime'
    BY <1>2 DEF OneAtATime
  <1>4. \A y \in OpenTries' : TryKept(y)'
    BY <1>2
  <1> QED
    BY <1>3, <1>4 DEF CountInv

\* ... without a change to what Redis holds.
LEMMA AloneReads ==
  ASSUME LoginTypeOK, CountInv, NEW x \in Tries, NEW t,
         try' = [try EXCEPT ![x] = t], OpenTries \subseteq {x}, resetAt = "idle",
         UNCHANGED <<storeVars, resetAt, counted, earned>>,
         t.at # "idle" => TryKept(x)'
  PROVE  CountInv'
  <1>1. UNCHANGED <<ipState, account, knownIps>>
    BY DEF storeVars
  <1>2. LedgerKept'
    BY <1>1 DEF CountInv, LedgerKept
  <1> QED
    BY <1>2, AloneGoesOn

LEMMA BeginCounts ==
  ASSUME LoginTypeOK, CountInv, ~ raced', NEW x \in Tries, NEW ip \in Ips, NEW right \in BOOLEAN,
         BeginTry(x, ip, right)
  PROVE  CountInv'
  <1> DEFINE t == [NoTry EXCEPT !.at = "check", !.ip = ip, !.right = right, !.saw = ipState[ip]]
  <1>1. t.at = "check" /\ t.ip = ip /\ t.saw = ipState[ip]
    BY DEF NoTry
  <1>2. /\ try' = [try EXCEPT ![x] = t] /\ OpenTries = {} /\ resetAt = "idle"
        /\ UNCHANGED <<storeVars, resetAt, counted, earned, ipState>>
    BY DEF BeginTry, storeVars, resetVars, ledgerVars
  <1>3. try'[x] = t
    BY <1>2 DEF LoginTypeOK
  <1> HIDE DEF t
  <1>4. TryKept(x)'
    BY <1>1, <1>2, <1>3 DEF TryKept
  <1> QED
    BY <1>1, <1>2, <1>4, AloneReads

\* The request that an attempt makes is the only one under way.
LEMMA OnlyOne ==
  ASSUME CountInv, NEW x \in Tries, try[x].at # "idle"
  PROVE  OpenTries = {x} /\ resetAt = "idle" /\ TryKept(x)
  BY DEF CountInv, OneAtATime, OpenTries

LEMMA CheckCounts ==
  ASSUME LoginTypeOK, CountInv, NEW x \in Tries, CheckTry(x)
  PROVE  CountInv'
  <1> DEFINE t == IF Allowed(try[x].saw, account) THEN [try[x] EXCEPT !.at = "verified"]
                  ELSE NoTry
  <1>1. /\ try[x].at = "check" /\ try' = [try EXCEPT ![x] = t] /\ now' = now
        /\ UNCHANGED <<storeVars, resetAt, counted, earned, ipState, account>>
    BY DEF CheckTry, storeVars, resetVars, ledgerVars, LoginTypeOK
  <1>2. OpenTries = {x} /\ resetAt = "idle" /\ TryKept(x)
    BY <1>1, OnlyOne
  <1>3. \/ t.at = "idle"
        \/ t.at = "verified" /\ t.ip = try[x].ip /\ Allowed(try[x].saw, account)
    BY DEF NoTry, LoginTypeOK, Attempts
  <1>4. try'[x] = t
    BY <1>1 DEF LoginTypeOK
  <1>5. try[x].saw = ipState[try[x].ip]
    BY <1>1, <1>2 DEF TryKept
  <1> HIDE DEF t
  <1>6. t.at = "verified" => TryKept(x)'
    <2> SUFFICES ASSUME t.at = "verified" PROVE TryKept(x)'
      OBVIOUS
    <2>1. t.ip = try[x].ip /\ ~ account.reset /\ Advance(ipState[t.ip]).phase # "locked"
      BY <1>3, <1>5 DEF Allowed
    <2>2. \A s : Advance(s)'.phase = Advance(s).phase
      BY <1>1 DEF Advance
    <2> QED
      BY <1>1, <1>4, <2>1, <2>2 DEF TryKept
  <1> QED
    BY <1>1, <1>2, <1>3, <1>6, AloneReads

LEMMA RecordIpCounts ==
  ASSUME LoginTypeOK, CountInv, NEW x \in Tries, RecordIp(x)
  PROVE  CountInv'
  <1> DEFINE t == [try[x] EXCEPT !.at = "account", !.saw = ipState[try[x].ip]]
  <1>1. /\ try[x].at = "verified" /\ try' = [try EXCEPT ![x] = t] /\ now' = now
        /\ UNCHANGED <<storeVars, resetAt, counted, earned, ipState, account>>
    BY DEF RecordIp, storeVars, resetVars, ledgerVars, LoginTypeOK
  <1>2. OpenTries = {x} /\ resetAt = "idle" /\ TryKept(x)
    BY <1>1, OnlyOne
  <1>3. t.at = "account" /\ t.ip = try[x].ip /\ t.saw = ipState[t.ip]
    BY DEF LoginTypeOK, Attempts
  <1>4. try'[x] = t
    BY <1>1 DEF LoginTypeOK
  <1> HIDE DEF t
  <1>5. ~ account.reset /\ Advance(ipState[t.ip]).phase # "locked"
    BY <1>1, <1>2, <1>3 DEF TryKept
  <1>6. \A s : Advance(s)'.phase = Advance(s).phase
    BY <1>1 DEF Advance
  <1>7. TryKept(x)'
    BY <1>1, <1>3, <1>4, <1>5, <1>6 DEF TryKept
  <1> QED
    BY <1>1, <1>2, <1>3, <1>7, AloneReads

LEMMA RecordAccountCounts ==
  ASSUME LoginTypeOK, CountInv, NEW x \in Tries, RecordAccount(x)
  PROVE  CountInv'
  <1> DEFINE p == IF try[x].right THEN AfterSuccess(try[x].saw, account)
                  ELSE AfterFailure(try[x].saw, account)
             t == [try[x] EXCEPT !.at = "setIp", !.next = p]
             n == counted[try[x].ip]
  <1>1. try[x].at = "account" /\ try' = [try EXCEPT ![x] = t]
    BY DEF RecordAccount, LoginTypeOK
  <1>2. UNCHANGED <<storeVars, resetAt, counted, earned, ipState, account>>
    BY DEF RecordAccount, storeVars, resetVars, ledgerVars
  <1>3. OpenTries = {x} /\ resetAt = "idle" /\ TryKept(x)
    BY <1>1, OnlyOne
  <1>4. t.at = "setIp" /\ t.ip = try[x].ip /\ t.right = try[x].right /\ t.next = p
    BY DEF LoginTypeOK, Attempts
  <1>5. try'[x] = t
    BY <1>1 DEF LoginTypeOK
  <1>6. /\ try[x].saw = ipState[try[x].ip] /\ ~ account.reset
        /\ Advance(try[x].saw).phase # "locked"
    BY <1>1, <1>3 DEF TryKept
  <1>7. /\ try[x].ip \in Ips /\ try[x].saw \in IpStates /\ account \in AccountStates /\ now \in Nat
        /\ n \in Nat
    BY <1>1 DEF LoginTypeOK, OpenTries, Attempts
  <1>8. try[x].right => p = Unlocked
    BY <1>6 DEF AfterSuccess
  <1>9. ~ try[x].right => Remembers(p[1], n + 1) /\ p[2].strikes = account.strikes + Strike(n + 1)
    <2>1. Remembers(try[x].saw, n)
      BY <1>6, <1>7 DEF CountInv, LedgerKept
    <2> QED
      BY <1>6, <1>7, <2>1, FailureCounts
  <1> HIDE DEF t, p
  <1>10. TryKept(x)'
    BY <1>2, <1>4, <1>5, <1>8, <1>9 DEF TryKept
  <1> QED
    BY <1>1, <1>2, <1>3, <1>4, <1>10, AloneReads

LEMMA SetIpCounts ==
  ASSUME LoginTypeOK, CountInv, NEW x \in Tries, SetIp(x)
  PROVE  CountInv'
  <1> DEFINE t == [try[x] EXCEPT !.at = "setAccount"]
             ip == try[x].ip
  <1>1. /\ try[x].at = "setIp" /\ try' = [try EXCEPT ![x] = t]
        /\ ipState' = [ipState EXCEPT ![ip] = try[x].next[1]]
        /\ knownIps' = knownIps \union {ip}
        /\ counted' = [counted EXCEPT ![ip] =
                         IF ~try[x].right THEN @ + 1
                         ELSE IF try[x].next = Unlocked THEN 0 ELSE @]
        /\ UNCHANGED <<account, resetAt, earned>>
    BY DEF SetIp, resetVars, LoginTypeOK
  <1>2. OpenTries = {x} /\ resetAt = "idle" /\ TryKept(x)
    BY <1>1, OnlyOne
  <1>3. t.at = "setAccount" /\ t.ip = ip /\ t.next = try[x].next /\ t.right = try[x].right
    BY DEF LoginTypeOK, Attempts
  <1>4. try'[x] = t
    BY <1>1 DEF LoginTypeOK
  <1>5. /\ ip \in Ips /\ ipState \in [Ips -> IpStates]
        /\ counted \in [Ips -> Nat] /\ counted[ip] \in Nat
    BY <1>2 DEF LoginTypeOK, OpenTries
  <1>6. /\ \A i \in Ips : Remembers(ipState[i], counted[i]) /\ (counted[i] # 0 => i \in knownIps)
        /\ account.strikes = earned
    BY DEF CountInv, LedgerKept
  <1>7. /\ ipState'[ip] = try[x].next[1] /\ \A i \in Ips \ {ip} : ipState'[i] = ipState[i]
        /\ \A i \in Ips \ {ip} : counted'[i] = counted[i]
    BY <1>1, <1>5
  <1>8. /\ Remembers(try[x].next[1], counted'[ip])
        /\ try[x].right => try[x].next = Unlocked
        /\ ~try[x].right => try[x].next[2].strikes = account.strikes + Strike(counted'[ip])
    <2>1. CASE try[x].right
      <3>1. try[x].next = Unlocked /\ try[x].next[1] = Fresh
        BY <1>1, <1>2, <2>1, UnlockedType DEF TryKept
      <3>2. counted'[ip] = 0
        BY <1>1, <1>5, <2>1, <3>1
      <3>3. Remembers(Fresh, 0)
        BY NextRound, LoginAssumption DEF Remembers, Fresh
      <3> QED
        BY <2>1, <3>1, <3>2, <3>3
    <2>2. CASE ~ try[x].right
      <3>1. counted'[ip] = counted[ip] + 1
        BY <1>1, <1>5, <2>2
      <3>2. /\ Remembers(try[x].next[1], counted[ip] + 1)
            /\ try[x].next[2].strikes = account.strikes + Strike(counted[ip] + 1)
        BY <1>1, <1>2, <2>2 DEF TryKept
      <3> QED
        BY <2>2, <3>1, <3>2
    <2> QED
      BY <2>1, <2>2
  <1> HIDE DEF t
  <1>9. LedgerKept'
    <2>1. \A i \in Ips : /\ Remembers(ipState'[i], counted'[i])
                         /\ counted'[i] # 0 => i \in knownIps'
      BY <1>1, <1>5, <1>6, <1>7, <1>8
    <2> QED
      BY <1>1, <1>6, <2>1 DEF LedgerKept
  <1>10. TryKept(x)'
    BY <1>1, <1>3, <1>4, <1>8 DEF TryKept
  <1> QED
    BY <1>1, <1>2, <1>9, <1>10, AloneGoesOn

LEMMA SetAccountCounts ==
  ASSUME LoginTypeOK, CountInv, NEW x \in Tries, SetAccount(x)
  PROVE  CountInv'
  <1>1. /\ try[x].at = "setAccount" /\ try' = [try EXCEPT ![x] = NoTry]
        /\ account' = try[x].next[2]
        /\ UNCHANGED <<resetAt, ipState, knownIps, counted>>
    BY DEF SetAccount, resetVars
  <1>2. OpenTries = {x} /\ resetAt = "idle" /\ TryKept(x)
    BY <1>1, OnlyOne
  <1>3. /\ account.strikes = earned /\ earned \in Nat
        /\ IsStrike(counted[try[x].ip]) <=> Strike(counted[try[x].ip]) = 1
        /\ ~IsStrike(counted[try[x].ip]) <=> Strike(counted[try[x].ip]) = 0
    BY DEF CountInv, LedgerKept, LoginTypeOK, IsStrike, Strike, Round
  <1>4. account'.strikes = earned'
    <2>1. CASE try[x].right
      <3>1. account' = Clean
        BY <1>1, <1>2, <2>1, UnlockedType DEF TryKept
      <3>2. ~ account'.reset /\ account'.strikes = 0
        BY <3>1 DEF Clean
      <3> QED
        BY <2>1, <3>2 DEF SetAccount, Clearing
    <2>2. CASE ~ try[x].right
      <3>1. account'.strikes = account.strikes + Strike(counted[try[x].ip])
        BY <1>1, <1>2, <2>2 DEF TryKept
      <3>2. earned' = IF IsStrike(counted[try[x].ip]) THEN earned + 1 ELSE earned
        BY <2>2 DEF SetAccount
      <3> QED
        BY <1>3, <3>1, <3>2
    <2> QED
      BY <2>1, <2>2
  <1>5. LedgerKept'
    BY <1>1, <1>4 DEF CountInv, LedgerKept
  <1>6. NoTry.at = "idle"
    BY DEF NoTry
  <1> QED
    BY <1>1, <1>2, <1>5, <1>6, AloneGoesOn

\* A request that breaks off leaves what Redis holds as it is.
LEMMA BreakCounts ==
  ASSUME LoginTypeOK, CountInv, NEW x \in Tries, BreakTry(x)
  PROVE  CountInv'
  <1>1. /\ try[x].at # "idle" /\ try' = [try EXCEPT ![x] = NoTry] /\ NoTry.at = "idle"
        /\ UNCHANGED <<storeVars, resetAt, counted, earned>>
    BY DEF BreakTry, resetVars, ledgerVars, NoTry
  <1>2. OpenTries = {x} /\ resetAt = "idle"
    BY <1>1, OnlyOne
  <1> QED
    BY <1>1, <1>2, AloneReads

LEMMA ResetCounts ==
  ASSUME LoginTypeOK, CountInv, ~ raced',
         BeginReset \/ ClearEmail \/ SetCleared \/ BreakReset
  PROVE  CountInv'
  <1>1. ASSUME ClearAccount PROVE account'.strikes = earned'
    <2>1. Clean.strikes = 0
      BY DEF Clean
    <2> QED
      BY <1>1, <2>1, AccountCleared DEF CountInv, LedgerKept
  <1>2. CASE BeginReset
    <2>1. /\ OpenTries = {} /\ resetAt' = "clear"
          /\ resetIps' = IF loginId' = "email" THEN knownIps' ELSE {}
          /\ UNCHANGED <<ipState, account, knownIps, try, counted, earned>>
      BY <1>2 DEF BeginReset, storeVars
    <2>2. OpenTries' = {}
      BY <2>1 DEF OpenTries
    <2> QED
      BY <2>1, <2>2 DEF CountInv, OneAtATime, LedgerKept
  <1>3. CASE ClearEmail
    <2>1. /\ resetAt = "clear" /\ resetAt' = "set" /\ try' = try
          /\ ipState' = [ip \in Ips |-> IF ip \in resetIps THEN Fresh ELSE ipState[ip]]
          /\ counted' = [ip \in Ips |-> IF ip \in resetIps THEN 0 ELSE counted[ip]]
          /\ knownIps' = IF loginId = "email" THEN {} ELSE knownIps
          /\ account'.strikes = earned'
      BY <1>1, <1>3 DEF ClearEmail
    <2>2. OpenTries' = {} /\ resetIps = IF loginId = "email" THEN knownIps ELSE {}
      BY <2>1 DEF CountInv, OneAtATime, OpenTries
    <2>3. Remembers(Fresh, 0)
      BY NextRound, LoginAssumption DEF Remembers, Fresh
    <2>4. \A ip \in Ips : Remembers(ipState'[ip], counted'[ip]) /\ (counted'[ip] # 0 => ip \in knownIps')
      BY <2>1, <2>2, <2>3 DEF CountInv, LedgerKept
    <2>5. LedgerKept'
      BY <2>1, <2>4 DEF LedgerKept
    <2> QED
      BY <2>1, <2>2, <2>5 DEF CountInv, OneAtATime
  <1>4. CASE SetCleared
    <2>1. /\ resetAt = "set" /\ resetAt' = "idle" /\ account'.strikes = earned'
          /\ UNCHANGED <<ipState, knownIps, try, counted>>
      BY <1>1, <1>4 DEF SetCleared
    <2>2. OpenTries' = {}
      BY <2>1 DEF CountInv, OneAtATime, OpenTries
    <2> QED
      BY <2>1, <2>2 DEF CountInv, OneAtATime, LedgerKept
  <1>5. CASE BreakReset
    <2>1. /\ resetAt # "idle" /\ resetAt' = "idle"
          /\ UNCHANGED <<ipState, account, knownIps, try, counted, earned>>
      BY <1>5 DEF BreakReset, storeVars, ledgerVars
    <2>2. OpenTries' = {}
      BY <2>1 DEF CountInv, OneAtATime, OpenTries
    <2> QED
      BY <2>1, <2>2 DEF CountInv, OneAtATime, LedgerKept
  <1> QED
    BY <1>2, <1>3, <1>4, <1>5

LEMMA CountStep ==
  ASSUME LoginTypeOK, LoginTypeOK', ~ raced => CountInv, ~ raced', [LoginNext]_loginVars
  PROVE  CountInv'
  <1>1. ASSUME CountInv, now \in Nat, now' \in Nat, now' >= now,
               UNCHANGED <<loginId, ipState, account, knownIps, try, resetAt, resetIps, counted, earned>>
        PROVE  CountInv'
    <2>1. OpenTries' = OpenTries
      BY <1>1 DEF OpenTries
    <2>2. \A s \in IpStates : Advance(s).phase # "locked" => Advance(s)'.phase # "locked"
      BY <1>1 DEF Advance, Fresh, IpStates
    <2>3. ASSUME NEW y \in OpenTries PROVE TryKept(y)'
      <3>1. TryKept(y) /\ ipState[try[y].ip] \in IpStates
        BY <1>1, <2>3 DEF CountInv, LoginTypeOK, OpenTries
      <3>2. Advance(ipState[try[y].ip]).phase # "locked" =>
              Advance(ipState[try[y].ip])'.phase # "locked"
        BY <1>1, <2>2, <3>1 DEF Advance
      <3> QED
        BY <1>1, <3>1, <3>2 DEF TryKept
    <2> QED
      BY <1>1, <2>1, <2>3 DEF CountInv, OneAtATime, LedgerKept
  <1>2. CASE UNCHANGED loginVars
    BY <1>1, <1>2 DEF loginVars, storeVars, resetVars, ledgerVars, LoginTypeOK
  <1>3. CASE TickLogin
    BY <1>1, <1>3 DEF TickLogin, storeVars, resetVars, ledgerVars, LoginTypeOK
  <1>4. ASSUME NEW x \in Tries, NEW ip \in Ips, NEW right \in BOOLEAN, BeginTry(x, ip, right)
        PROVE  CountInv'
    <2>1. ~ raced
      BY <1>4 DEF BeginTry
    <2> QED
      BY <1>4, <2>1, BeginCounts
  <1>5. ASSUME NEW x \in Tries,
               CheckTry(x) \/ RecordIp(x) \/ RecordAccount(x) \/ SetIp(x) \/ SetAccount(x)
        PROVE  CountInv'
    <2>1. ~ raced
      BY <1>5 DEF CheckTry, RecordIp, RecordAccount, SetIp, SetAccount, ledgerVars
    <2> QED
      BY <1>5, <2>1, CheckCounts, RecordIpCounts, RecordAccountCounts, SetIpCounts, SetAccountCounts
  <1>6. CASE BeginReset \/ ClearEmail \/ SetCleared \/ BreakReset
    <2>1. ~ raced
      BY <1>6 DEF BeginReset, ClearEmail, SetCleared, BreakReset, ledgerVars
    <2> QED
      BY <1>6, <2>1, ResetCounts
  <1>7. ASSUME NEW x \in Tries, BreakTry(x)
        PROVE  CountInv'
    <2>1. ~ raced
      BY <1>7 DEF BreakTry, ledgerVars
    <2> QED
      BY <1>7, <2>1, BreakCounts
  <1> QED
    BY <1>2, <1>3, <1>4, <1>5, <1>6, <1>7 DEF LoginNext

\* The strikes of an account, while requests come one at a time, are what its wrong
\* passwords since it was last cleared are worth; and however requests overlap, it is
\* locked for good only after as many wrong ones as that takes.
THEOREM StrikesHold == LoginSpec => []StrikesEarned
  <1>1. LoginInv => StrikesEarned
    <2>1. LoginInv => StrikesCounted
      BY DEF LoginInv, CountInv, LedgerKept, StrikesCounted
    <2>2. LoginInv => LockedForReason
      BY DEF LoginInv, StrikesInv, Earned, LockedForReason
    <2> QED
      BY <2>1, <2>2 DEF StrikesEarned
  <1>2. LoginInv /\ [LoginNext]_loginVars => LoginInv'
    BY LoginType, StrikesStep, CountStep DEF LoginInv
  <1> QED
    BY <1>1, <1>2, LoginInitInv, PTL DEF LoginSpec

-------------------------------------------------------------------------------
(* All of them together.                                                    *)

LEMMA ServicesParts ==
  ServicesSpec => QrSpec /\ LoginSpec /\ MembersSpec /\ ContactsSpec /\ StorageSpec
  <1>1. ServicesInit => QrInit /\ LoginInit /\ MembersInit /\ ContactsInit /\ StorageInit
    BY DEF ServicesInit
  <1>2. ASSUME [ServicesNext]_servicesVars
        PROVE  /\ [QrNext]_qrVars /\ [LoginNext]_loginVars /\ [MembersNext]_memberVars
               /\ [ContactsNext]_contactVars /\ [StorageNext]_storageVars
    <2> USE DEF authVars
    <2>1. CASE UNCHANGED servicesVars
      BY <2>1 DEF servicesVars
    <2>2. CASE QrRequest
      BY <2>2 DEF QrRequest
    <2>3. CASE LoginRequest
      BY <2>3 DEF LoginRequest
    <2>4. CASE MemberRequest
      BY <2>4 DEF MemberRequest
    <2>5. CASE ContactRequest
      BY <2>5 DEF ContactRequest
    <2>6. CASE QueueStep
      BY <2>6 DEF QueueStep
    <2> QED
      BY <1>2, <2>1, <2>2, <2>3, <2>4, <2>5, <2>6 DEF ServicesNext
  <1> QED
    BY <1>1, <1>2, PTL DEF ServicesSpec, QrSpec, LoginSpec, MembersSpec, ContactsSpec, StorageSpec

\* What is proved of each kind of request holds of the services as they are run.
THEOREM ServicesHold ==
  ServicesSpec =>
    /\ [](PairedStaysSignedIn /\ StrikesEarned /\ HasOwner /\ ServicesAgree /\ KeptOverReloads)
    /\ BannedStaysOut
  BY ServicesParts, PairedKeepsSession, StrikesHold, SpaceHasOwner, BansHold, ContactsAgree,
     QueueSurvivesReloads, PTL

===============================================================================
