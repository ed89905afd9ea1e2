------------------------------- MODULE Sessions -------------------------------
(***************************************************************************)
(* The session table of auth-service for one user, written by logins, QR   *)
(* pairings, token refreshes and revocations.                              *)
(*                                                                         *)
(* auth-service runs as several replicas and PostgresSessionStore gives    *)
(* every call a transaction of its own, so a request is the sequence of    *)
(* its calls and requests interleave between them.  A login and a pairing  *)
(* create exactly one session each: the session is named by its request.   *)
(* Which refresh token a session holds is the matter of TokenRefresh.      *)
(***************************************************************************)
EXTENDS Naturals, Sequences, FiniteSets, SequencesExt

CONSTANTS
  Requests,                 \* logins and pairings, and the session of each
  Codes,                    \* QR codes
  Cap,                      \* settings.max_active_sessions: 5
  MaxRefreshes,             \* bound on refreshes under way at once
  MaxFaults                 \* bound on requests cut short by a crash

ASSUME CapAssumption == Cap \in Nat \ {0}
ASSUME RefreshesAssumption == MaxRefreshes \in Nat
ASSUME FaultsAssumption == MaxFaults \in Nat

VARIABLES
  byAge,                    \* the active sessions, least recently used first
  revoked,                  \* the revoked sessions
  rotating,                 \* sessions a refresh has read and not yet written
  code,                     \* status of each QR code: "late" is pending, past
                            \* its expires_at
  linked,                   \* the session an approved code names
  at, asked,                \* each request: its next call, what it asks for
  todo,                     \* each request: sessions it has still to revoke
  faults

codeVars == <<code, linked>>
vars == <<byAge, revoked, rotating, code, linked, at, asked, todo, faults>>

NoSession == "no session"
Login == [kind |-> "login"]
Pairing(c, a) == [kind |-> "pair", code |-> c, by |-> a]

Active == ToSet(byAge)

\* Sessions whose access token a device may hold.  A bearer token is checked by
\* its signature alone: it outlives the revocation of its session.
Holders ==
  {p \in Requests : at[p] = "done" /\ asked[p] = Login}
    \union {linked[c] : c \in {d \in Codes : code[d] = "approved"}}

Init ==
  /\ byAge = << >>
  /\ revoked = {}
  /\ rotating = {}
  /\ code = [c \in Codes |-> "none"]
  /\ linked = [c \in Codes |-> NoSession]
  /\ at = [p \in Requests |-> "new"]
  /\ asked = [p \in Requests |-> Login]
  /\ todo = [p \in Requests |-> << >>]
  /\ faults = 0

Go(p, step) == at' = [at EXCEPT ![p] = step]

\* The active sessions but those of S, in the order they have.
Without(S) ==
  LET kept == {i \in DOMAIN byAge : byAge[i] \notin S}
      place == [i \in kept |-> Cardinality({j \in kept : j <= i})]
  IN  [k \in 1 .. Cardinality(kept) |-> byAge[CHOOSE i \in kept : place[i] = k]]

Revoke(S) == byAge' = Without(S) /\ revoked' = revoked \union S

\* create_session: a row of its own refresh family, used last of all.
CreateSession(p) == byAge' = Append(byAge, p)

-------------------------------------------------------------------------------
(* issue_tokens_for_user: POST /login, and the other ways to sign in.      *)

BeginLogin(p) ==
  /\ at[p] = "new"
  /\ CreateSession(p)
  /\ asked' = [asked EXCEPT ![p] = Login]
  /\ Go(p, "list")
  /\ UNCHANGED <<revoked, rotating, codeVars, todo, faults>>

\* What a listing leaves to do, one revoke_session after the other.
Prune(p, t) ==
  /\ todo' = [todo EXCEPT ![p] = t]
  /\ Go(p, IF t = << >> THEN "done" ELSE "revoke")

Surplus == IF Len(byAge) > Cap THEN SubSeq(byAge, 1, Len(byAge) - Cap) ELSE << >>

ListForLogin(p) ==
  /\ at[p] = "list"
  /\ asked[p] = Login
  /\ Prune(p, Surplus)
  /\ UNCHANGED <<byAge, revoked, rotating, codeVars, asked, faults>>

RevokeNext(p) ==
  /\ at[p] = "revoke"
  /\ Revoke({Head(todo[p])})
  /\ Prune(p, Tail(todo[p]))
  /\ UNCHANGED <<rotating, codeVars, asked, faults>>

-------------------------------------------------------------------------------
(* QR pairing.                                                             *)

StartQr(c) ==
  /\ code[c] = "none"
  /\ code' = [code EXCEPT ![c] = "pending"]
  /\ UNCHANGED <<byAge, revoked, rotating, linked, at, asked, todo, faults>>

Lapse(c) ==
  /\ code[c] = "pending"
  /\ code' = [code EXCEPT ![c] = "late"]
  /\ UNCHANGED <<byAge, revoked, rotating, linked, at, asked, todo, faults>>

\* qr_approve: the session is created before the code is looked at.
BeginPairing(p, c, a) ==
  /\ at[p] = "new"
  /\ code[c] # "none"
  /\ a \in Holders
  /\ CreateSession(p)
  /\ asked' = [asked EXCEPT ![p] = Pairing(c, a)]
  /\ Go(p, "read")
  /\ UNCHANGED <<revoked, rotating, codeVars, todo, faults>>

\* approve_qr, up to its UPDATE.
ReadCode(p) ==
  LET c == asked[p].code IN
  /\ at[p] = "read"
  /\ Go(p, IF code[c] = "pending" THEN "write" ELSE "drop")
  /\ code' = [code EXCEPT ![c] = IF @ = "late" THEN "expired" ELSE @]
  /\ UNCHANGED <<byAge, revoked, rotating, linked, asked, todo, faults>>

\* The UPDATE is by primary key: it does not ask again whether the code is
\* still pending.
WriteCode(p) ==
  LET c == asked[p].code IN
  /\ at[p] = "write"
  /\ code' = [code EXCEPT ![c] = "approved"]
  /\ linked' = [linked EXCEPT ![c] = p]
  /\ Go(p, "list")
  /\ UNCHANGED <<byAge, revoked, rotating, asked, todo, faults>>

\* Slip: the refused session stays.
DropNothing(p) ==
  /\ at[p] = "drop"
  /\ Go(p, "refused")
  /\ UNCHANGED <<byAge, revoked, rotating, codeVars, asked, todo, faults>>

\* "Pairing failed: don't leave the freshly minted session dangling."
DropSession(p) ==
  /\ at[p] = "drop"
  /\ Revoke({p})
  /\ Go(p, "refused")
  /\ UNCHANGED <<rotating, codeVars, asked, todo, faults>>

\* Slip: the sessions of other pairings of the code are spared.
OtherLogins(p) == {s \in Active \ {p, asked[p].by} : asked[s] = Login}

\* All but the approving session and the new one.
Unkept(p) == Active \ {p, asked[p].by}

\* The listing has no ORDER BY: the loop takes them in any order.
ListForPairing(p) ==
  /\ at[p] = "list"
  /\ asked[p] # Login
  /\ \E t \in SetToSeqs(Unkept(p)) : Prune(p, t)
  /\ UNCHANGED <<byAge, revoked, rotating, codeVars, asked, faults>>

-------------------------------------------------------------------------------
(* Refreshes and revocations.                                              *)

\* rotate_refresh, its SELECT of a session that is not revoked.
ReadRotation(s) ==
  /\ s \in Holders \intersect Active
  /\ Cardinality(rotating) < MaxRefreshes
  /\ rotating' = rotating \union {s}
  /\ UNCHANGED <<byAge, revoked, codeVars, at, asked, todo, faults>>

\* Slip: the whole row is written back as it was read.
WriteWholeRow(s) ==
  /\ s \in rotating
  /\ byAge' = Append(Without({s}), s)
  /\ revoked' = revoked \ {s}
  /\ rotating' = rotating \ {s}
  /\ UNCHANGED <<codeVars, at, asked, todo, faults>>

\* rotate_refresh, its UPDATE: of the hash and last_used_at only.
WriteRotation(s) ==
  /\ s \in rotating
  /\ byAge' = IF s \in Active THEN Append(Without({s}), s) ELSE byAge
  /\ rotating' = rotating \ {s}
  /\ UNCHANGED <<revoked, codeVars, at, asked, todo, faults>>

\* POST /logout, and DELETE /sessions/{s} by any device of the user.
Logout(a) ==
  /\ a \in Holders
  /\ Revoke({a})
  /\ UNCHANGED <<rotating, codeVars, at, asked, todo, faults>>

RevokeSession(s) ==
  /\ Holders # {}
  /\ s \in Active
  /\ Revoke({s})
  /\ UNCHANGED <<rotating, codeVars, at, asked, todo, faults>>

\* POST /sessions/revoke-others: one UPDATE.
RevokeOthers(a) ==
  /\ a \in Holders
  /\ Revoke(Active \ {a})
  /\ UNCHANGED <<rotating, codeVars, at, asked, todo, faults>>

Open == {p \in Requests : at[p] \notin {"new", "done", "refused", "dead"}}

\* The replica dies, or the database does, between two calls of a request.
Crash(p) ==
  /\ p \in Open
  /\ faults < MaxFaults
  /\ faults' = faults + 1
  /\ Go(p, "dead")
  /\ UNCHANGED <<byAge, revoked, rotating, codeVars, asked, todo>>

Next ==
  \/ \E p \in Requests :
       \/ BeginLogin(p) \/ ListForLogin(p) \/ RevokeNext(p)
       \/ \E c \in Codes, a \in Requests : BeginPairing(p, c, a)
       \/ ReadCode(p) \/ WriteCode(p) \/ DropSession(p) \/ ListForPairing(p)
       \/ ReadRotation(p) \/ WriteRotation(p)
       \/ Logout(p) \/ RevokeSession(p) \/ RevokeOthers(p)
       \/ Crash(p)
  \/ \E c \in Codes : StartQr(c) \/ Lapse(c)

Spec == Init /\ [][Next]_vars

-------------------------------------------------------------------------------
(* Properties.                                                             *)

\* "Older sessions beyond this count are revoked on a new login": however
\* logins, pairings and refreshes interleave, the sessions beyond the cap (or
\* beyond the two a pairing leaves) belong to requests still at work or cut
\* short by a crash.
SessionCap ==
  LET limit == IF Cap < 2 THEN 2 ELSE Cap
  IN  Len(byAge) <= limit + Cardinality(Open) + faults

\* A code links one device: when the requests that approved it are over, no
\* session made for the code is active but the one it names, even when two
\* approvals of the same code both got through.
OneSessionPerCode ==
  faults = 0 =>
    \A c \in Codes :
      LET made == {p \in Requests : asked[p] # Login /\ asked[p].code = c}
      IN  made \intersect Open = {} => made \intersect Active \subseteq {linked[c]}

\* A revocation is final: a refresh that had read the session before it was
\* revoked does not bring it back.
RevokedForGood == [][revoked \subseteq revoked']_vars
===============================================================================
