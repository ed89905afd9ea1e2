-------------------------------- MODULE Members --------------------------------
(***************************************************************************)
(* Who is in a space and in which role: joining, leaving, invitations,     *)
(* roles and bans.                                                         *)
(*                                                                         *)
(* A request reads the space, once in its route and again in the store for *)
(* a role, decides, and writes in a later statement: requests of several   *)
(* replicas interleave between.  What one transaction writes becomes       *)
(* visible at once; it changes at most one row that others change too, and *)
(* rows are locked while it is changed.                                    *)
(***************************************************************************)
EXTENDS Naturals, FiniteSets

CONSTANTS
  People, Changes,          \* users; requests under way at once
  Nobody,
  MaxChanges                \* bound on requests

ASSUME MembersAssumption ==
  Nobody \notin People /\ MaxChanges \in Nat

VARIABLES
  role,                     \* conversation_members: the role, or "none"
  here,                     \* those whose row has no left_at
  banned,
  change,                   \* each request
  changes,
  stale,                    \* requests whose space has changed since they read it
  unowned                   \* why the space may have no owner

spaceVars == <<role, here, banned>>
memberVars == <<spaceVars, change, changes, stale, unowned>>

Roles == {"owner", "admin", "moderator", "member"}
Rank == [none |-> 0, member |-> 1, moderator |-> 2, admin |-> 3, owner |-> 4]
NoChange == [op |-> "none", at |-> "idle", by |-> Nobody, of |-> Nobody,
             role |-> "none", heir |-> Nobody]

RoleOf(u) == IF u \in here THEN role[u] ELSE "none"
Owners == {u \in here : role[u] = "owner"}

\* A space with an owner, or with several: one who left and was asked back is
\* an owner again.
MembersInit ==
  /\ role \in [People -> {"owner", "member", "none"}]
  /\ here = {u \in People : role[u] # "none"}
  /\ Owners # {}
  /\ banned = {}
  /\ change = [c \in Changes |-> NoChange]
  /\ changes = 0
  /\ stale = {}
  /\ unowned = FALSE

Running == {c \in Changes : change[c].at # "idle"}

\* c reads the space and has still to write.
Read(c, request) ==
  /\ change[c].at = "idle"
  /\ changes < MaxChanges
  /\ changes' = changes + 1
  /\ change' = [change EXCEPT ![c] = request]
  /\ UNCHANGED <<spaceVars, stale, unowned>>

\* What c writes, others under way have not read.  May it leave the space
\* without an owner?
Written(c, deposes) ==
  /\ change' = [change EXCEPT ![c] = NoChange]
  /\ stale' = (stale \union Running) \ {c}
  /\ unowned' = (Owners' = {} /\ (unowned \/ deposes \/ c \in stale \/ here' = {}))
  /\ UNCHANGED changes

Request(op, u, v, r) == [NoChange EXCEPT !.op = op, !.at = "write", !.by = u, !.of = v, !.role = r]

-------------------------------------------------------------------------------
(* What the requests read and check.                                       *)

ReadJoin(c, u) ==
  /\ u \notin banned /\ u \notin here
  /\ Read(c, Request("join", u, u, "member"))

\* Slip: any owner leaves without an heir.
NoHeir(u) == {Nobody}
\* The only owner hands over to the first of the other members, in the order
\* of a SELECT without ORDER BY.
Heirs(u) == IF Owners = {u} /\ here # {u} THEN here \ {u} ELSE {Nobody}

ReadLeave(c, u) ==
  /\ u \in here
  /\ \E heir \in Heirs(u) : Read(c, [Request("leave", u, u, "none") EXCEPT !.heir = heir])

\* can_manage_members.
ReadInvite(c, u, v) ==
  /\ Rank[RoleOf(u)] >= Rank["admin"]
  /\ v \notin banned /\ v \notin here
  /\ Read(c, Request("invite", u, v, "member"))

\* can_moderate.
ReadBan(c, op, u, v) ==
  /\ Rank[RoleOf(u)] >= Rank["moderator"]
  /\ Read(c, Request(op, u, v, "none"))

\* set_role: the route's check, and then that of set_member_role.
ReadRole(c, u, v, r) ==
  /\ Rank[RoleOf(u)] >= Rank["admin"]
  /\ Read(c, [Request("role", u, v, r) EXCEPT !.at = "check"])

MayGive(u, v, r) ==
  /\ u \in here /\ v \in here
  /\ u # v => Rank[RoleOf(u)] > Rank[RoleOf(v)] /\ Rank[r] < Rank[RoleOf(u)]

CheckRole(c) ==
  LET q == change[c] IN
  /\ q.at = "check"
  /\ change' = [change EXCEPT ![c] =
                  IF MayGive(q.by, q.of, q.role) THEN [q EXCEPT !.at = "write"] ELSE NoChange]
  /\ stale' = stale \ {c}
  /\ UNCHANGED <<spaceVars, changes, unowned>>

-------------------------------------------------------------------------------
(* What they write.                                                        *)

Writing(c, op) == change[c].at = "write" /\ change[c].op = op

\* The upsert of join_public.
WriteJoin(c) ==
  /\ Writing(c, "join")
  /\ role' = [role EXCEPT ![change[c].by] = "member"]
  /\ here' = here \union {change[c].by}
  /\ UNCHANGED banned
  /\ Written(c, FALSE)

WriteLeave(c) ==
  /\ Writing(c, "leave")
  /\ role' = [u \in People |-> IF u = change[c].heir THEN "owner" ELSE role[u]]
  /\ here' = here \ {change[c].by}
  /\ UNCHANGED banned
  /\ Written(c, FALSE)

\* add_members: who has been here before comes back with their old role.
RoleBack(v) == IF role[v] = "none" THEN "member" ELSE role[v]

WriteInvite(c) ==
  LET v == change[c].of IN
  /\ Writing(c, "invite")
  /\ role' = [role EXCEPT ![v] = RoleBack(v)]
  /\ here' = here \union {v}
  /\ UNCHANGED banned
  /\ Written(c, FALSE)

\* Slip: the ban is noted and the member stays.
StayWhenBanned(v) == here
LeaveWhenBanned(v) == here \ {v}

\* ban_user, of the owner too.
WriteBan(c) ==
  LET v == change[c].of IN
  /\ Writing(c, "ban")
  /\ banned' = banned \union {v}
  /\ here' = LeaveWhenBanned(v)
  /\ UNCHANGED role
  /\ Written(c, RoleOf(v) = "owner")

WriteUnban(c) ==
  /\ Writing(c, "unban")
  /\ banned' = banned \ {change[c].of}
  /\ UNCHANGED <<role, here>>
  /\ Written(c, FALSE)

\* The UPDATE of set_member_role, whatever the roles are by now.
WriteRole(c) ==
  LET v == change[c].of IN
  /\ Writing(c, "role")
  /\ role' = [role EXCEPT ![v] = change[c].role]
  /\ UNCHANGED <<here, banned>>
  /\ Written(c, RoleOf(v) = "owner")

MembersNext ==
  \E c \in Changes :
    \/ \E u \in People :
         \/ ReadJoin(c, u) \/ ReadLeave(c, u)
         \/ \E v \in People :
              \/ ReadInvite(c, u, v)
              \/ \E op \in {"ban", "unban"} : ReadBan(c, op, u, v)
              \/ \E r \in Roles \ {"owner"} : ReadRole(c, u, v, r)
    \/ CheckRole(c)
    \/ WriteJoin(c) \/ WriteLeave(c) \/ WriteInvite(c)
    \/ WriteBan(c) \/ WriteUnban(c) \/ WriteRole(c)

MembersSpec == MembersInit /\ [][MembersNext]_memberVars

-------------------------------------------------------------------------------
(* Properties.                                                             *)

\* A space with members has an owner: the last one who leaves hands it over.
\* Excepted: an owner who is banned or takes another role, a space that
\* everyone had left, and two requests that overlap, as two owners who leave
\* at once, each of whom sees the other stay.
HasOwner == here # {} => unowned \/ Owners # {}

\* Who is banned is out, unless an invitation or a join that had read the space
\* before the ban is written after it.
BannedStaysOut ==
  [][\A u \in People :
       u \in banned' \intersect here' /\ u \notin banned \intersect here =>
         \E c \in stale : change[c].of = u /\ change[c].op \in {"join", "invite"}]_memberVars
===============================================================================
