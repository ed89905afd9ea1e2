----------------------------- MODULE TokenRefresh -----------------------------
(***************************************************************************)
(* Refreshing the access token: the tabs of one browser, which share the   *)
(* refresh cookie and the cached session, and auth-service, which rotates  *)
(* the refresh token of their session (one row of Sessions).               *)
(*                                                                         *)
(* A tab's calls through apiFetch share one refresh at a time, but tabs do *)
(* not, nor does the refresh of bootstrapSecurity: two entries of Tabs may *)
(* be two tabs or a page load and a 401 of one tab.                        *)
(***************************************************************************)
EXTENDS Naturals, FiniteSets

CONSTANTS
  Tabs,
  MaxTokens,                \* bound on rotations
  MaxFaults                 \* bound on calls that end in no answer

ASSUME RefreshBoundsAssumption == MaxTokens \in Nat /\ MaxFaults \in Nat

VARIABLES
  hash,                     \* the row: the refresh token it accepts
  revoked,                  \* the row: revoked
  cookie,                   \* the browser: the refresh cookie
  signedIn,                 \* the browser: a session is cached
  at,                       \* each refresh call: its next step
  sent, fresh,              \* each call: the token presented, the one minted
  overlapped,               \* history: two refreshes were in flight at once
  issued, faults

rowVars == <<hash, revoked>>
browserVars == <<cookie, signedIn>>
callVars == <<sent, fresh>>
history == <<overlapped, issued, faults>>
refreshVars == <<hash, revoked, cookie, signedIn, at, sent, fresh, overlapped, issued,
          faults>>

RefreshInit ==
  /\ hash = 0
  /\ revoked = FALSE
  /\ cookie = 0
  /\ signedIn = TRUE
  /\ at = [t \in Tabs |-> "idle"]
  /\ sent = [t \in Tabs |-> 0]
  /\ fresh = [t \in Tabs |-> 0]
  /\ overlapped = FALSE
  /\ issued = 0
  /\ faults = 0

Go(t, step) == at' = [at EXCEPT ![t] = step]

-------------------------------------------------------------------------------
(* The browser: refreshAccessToken.                                        *)

\* On page load and on a 401 of any other call.
SendRefresh(t) ==
  /\ at[t] = "idle"
  /\ sent' = [sent EXCEPT ![t] = cookie]
  /\ overlapped' = (overlapped \/ \E u \in Tabs : at[u] # "idle")
  /\ Go(t, "find")
  /\ UNCHANGED <<rowVars, browserVars, fresh, issued, faults>>

\* Slip: the answer's cookie is not kept.
KeepOldCookie(t) ==
  /\ at[t] = "ok"
  /\ signedIn' = TRUE
  /\ Go(t, "idle")
  /\ UNCHANGED <<rowVars, cookie, callVars, history>>

\* The answer sets the cookie; storeSession.
ReceiveOk(t) ==
  /\ at[t] = "ok"
  /\ cookie' = fresh[t]
  /\ signedIn' = TRUE
  /\ Go(t, "idle")
  /\ UNCHANGED <<rowVars, callVars, history>>

\* Slip: a 401 is taken for a transient error.
ShrugOff(t) ==
  /\ at[t] = "unauthorized"
  /\ Go(t, "idle")
  /\ UNCHANGED <<rowVars, browserVars, callVars, history>>

\* clearSession; the cookie stays, only the server could remove it.
ReceiveUnauthorized(t) ==
  /\ at[t] = "unauthorized"
  /\ signedIn' = FALSE
  /\ Go(t, "idle")
  /\ UNCHANGED <<rowVars, cookie, callVars, history>>

\* The request, its answer or the server at work on it is lost: the cached
\* session is kept.
NoAnswer(t) ==
  /\ at[t] # "idle"
  /\ faults < MaxFaults
  /\ faults' = faults + 1
  /\ Go(t, "idle")
  /\ UNCHANGED <<rowVars, browserVars, callVars, overlapped, issued>>

-------------------------------------------------------------------------------
(* auth-service: refresh_tokens and refresh_session.                       *)

\* find_revoked_by_refresh, find_by_refresh_hash: INVALID_REFRESH, or for a
\* revoked session REFRESH_REUSE.  The latter revokes the session's family, which
\* is that session alone.
FindNoSession(t) ==
  /\ at[t] = "find"
  /\ hash # sent[t] \/ revoked
  /\ Go(t, "unauthorized")
  /\ UNCHANGED <<rowVars, browserVars, callVars, history>>

\* new_refresh_token.
FindSession(t) ==
  /\ at[t] = "find"
  /\ hash = sent[t] /\ ~revoked
  /\ issued < MaxTokens
  /\ issued' = issued + 1
  /\ fresh' = [fresh EXCEPT ![t] = issued + 1]
  /\ Go(t, "rotate")
  /\ UNCHANGED <<rowVars, browserVars, sent, overlapped, faults>>

\* rotate_refresh, its SELECT: a session revoked by now is not rotated, and the
\* handler goes on all the same.
ReadRow(t) ==
  /\ at[t] = "rotate"
  /\ Go(t, IF revoked THEN "lookup" ELSE "write")
  /\ UNCHANGED <<rowVars, browserVars, callVars, history>>

\* Its UPDATE, by primary key: whoever writes last has the valid token.
WriteRow(t) ==
  /\ at[t] = "write"
  /\ hash' = fresh[t]
  /\ Go(t, "lookup")
  /\ UNCHANGED <<revoked, browserVars, callVars, history>>

\* find_by_refresh_hash of the new token: else SESSION_LOST, because
\* another call rotated since, or the session was revoked.
LookUp(t) ==
  /\ at[t] = "lookup"
  /\ Go(t, IF hash = fresh[t] /\ ~revoked THEN "ok" ELSE "unauthorized")
  /\ UNCHANGED <<rowVars, browserVars, callVars, history>>

\* From another device, or by a login beyond the cap.
RevokeSession ==
  /\ ~revoked
  /\ revoked' = TRUE
  /\ UNCHANGED <<hash, browserVars, at, callVars, history>>

ServerStep(t) ==
  FindNoSession(t) \/ FindSession(t) \/ ReadRow(t) \/ WriteRow(t) \/ LookUp(t)

RefreshNext ==
  \/ \E t \in Tabs :
       \/ SendRefresh(t) \/ ReceiveOk(t) \/ ReceiveUnauthorized(t) \/ NoAnswer(t)
       \/ ServerStep(t)
  \/ RevokeSession

RefreshSpec == RefreshInit /\ [][RefreshNext]_refreshVars

\* An access token lasts 15 minutes, after which the next call is a 401 and a
\* refresh; a request that is not lost is served and answered.
RefreshFairSpec ==
  RefreshSpec /\ \A t \in Tabs :
    /\ WF_refreshVars(SendRefresh(t))
    /\ WF_refreshVars(ServerStep(t))
    /\ WF_refreshVars(ReceiveOk(t))
    /\ WF_refreshVars(ReceiveUnauthorized(t))

-------------------------------------------------------------------------------
(* Properties.                                                             *)

\* As long as refreshes did not overlap and each was answered, rotation keeps
\* cookie and row together: the browser stays signed in until its session is
\* revoked, whichever tab refreshes.  A lost answer costs the session, though "a
\* transient error must NOT log the user out" (auth.ts): the row takes no old cookie.
StaysSignedIn == ~overlapped /\ faults = 0 /\ ~revoked => signedIn

\* A browser whose session is revoked is signed out for good: answers already
\* under way may sign it in once more, no later refresh does.
RevokedSignsOut == revoked ~> []~signedIn
===============================================================================
