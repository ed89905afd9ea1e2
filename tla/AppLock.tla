-------------------------------- MODULE AppLock --------------------------------
(***************************************************************************)
(* The PIN screen of one user's devices.  Four places say whether the PIN  *)
(* was entered: the session's row, the claims of the access cookie, which  *)
(* the gateway reads, the screen shown, and pinVerifiedAtRef of the page.  *)
(* Requests of one device overlap, and a lock reaches the other devices as *)
(* a frame.                                                                *)
(*                                                                         *)
(* A device is a session and its page.  Wrong PINs, challenges of another  *)
(* replica and failed calls to the database all end a request in an error. *)
(* A 401 is answered by a refresh, and a refresh may come at any time.  A  *)
(* sign-in elsewhere locks as the button does (issue_tokens_for_user).     *)
(***************************************************************************)
EXTENDS Naturals

CONSTANTS
  Devices,
  Requests,                 \* requests under way at once, of all devices
  NoDevice,
  MaxEvents                 \* bound on what users, clocks and failures do

ASSUME AppLockAssumption == NoDevice \notin Devices /\ MaxEvents \in Nat

VARIABLES
  pinStatus,                \* the user's: "PENDING_PIN", "ACTIVE" or "deleted"
  pinVerified,              \* sessions whose pin_verified_at is 10 minutes old at most
  claim,                    \* each access cookie: "setup" (PENDING_PIN), "locked",
                            \* "open" (pin_verified), or "none"
  lockState,                \* each screen
  verifiedRef,              \* pages with pinVerifiedAtRef > 0
  lockFrame,                \* devices a session.lock frame is on its way to
  request,                  \* each request: what it asks for, of which device, its
                            \* next step, the claim it carries, whether the user
                            \* or the row changed since it was read
  excused,                  \* devices where the four may disagree, see ScreenAgrees
  events                    \* what users, clocks and failures have done

rows == <<pinStatus, pinVerified>>
pageVars == <<lockState, verifiedRef>>
lockVars == <<rows, claim, pageVars, lockFrame, request, excused, events>>

NoRequest == [op |-> "none", of |-> NoDevice, at |-> "idle", claim |-> "none", crossed |-> FALSE]
Running(d) == {c \in Requests : request[c].of = d}
Busy(d, ops) == \E c \in Running(d) : request[c].op \in ops

\* The devices have signed in; their pages are loaded.
LockInit ==
  /\ pinStatus \in {"PENDING_PIN", "ACTIVE"}
  /\ pinVerified = {}
  /\ claim = [d \in Devices |-> IF pinStatus = "ACTIVE" THEN "locked" ELSE "setup"]
  /\ lockState = [d \in Devices |-> "active"]
  /\ verifiedRef = {}
  /\ lockFrame = {}
  /\ request = [c \in Requests |-> NoRequest]
  /\ excused = {}
  /\ events = 0

\* Answers and steps of the server need no leave.
Free == UNCHANGED events
Happens == events < MaxEvents /\ events' = events + 1

Ask(c, d, op, step) ==
  /\ request[c] = NoRequest
  /\ claim[d] # "none"
  /\ request' = [request EXCEPT ![c] = [op |-> op, of |-> d, at |-> step, claim |-> claim[d],
                                  crossed |-> FALSE]]
  /\ UNCHANGED <<rows, claim, pageVars, lockFrame, excused>>

Waits(c, op, step) == request[c].op = op /\ request[c].at = step
GoTo(c, step) == request' = [request EXCEPT ![c].at = step]
EndRequest(c) == request' = [request EXCEPT ![c] = NoRequest]
Show(d, state) == lockState' = [lockState EXCEPT ![d] = state]

\* A refresh reads the user, then the session's row, in two transactions: the first
\* PIN set crosses those that found none, a change of the row those that have read it.
Crossing(cs) ==
  [c \in Requests |-> IF c \in cs THEN [request[c] EXCEPT !.crossed = TRUE] ELSE request[c]]
FoundNoPin ==
  {c \in Requests : /\ Waits(c, "refresh", "row") \/ Waits(c, "refresh", "answer")
                    /\ request[c].claim = "setup"}
HaveRow(ds) == {c \in Requests : request[c].of \in ds /\ Waits(c, "refresh", "answer")}

-------------------------------------------------------------------------------
(* The PIN is asked for.                                                   *)

\* On loading the page and on navigating to a protected one.
CheckStatus(c, d) ==
  /\ Free
  /\ lockState[d] = "active" /\ d \notin verifiedRef
  /\ ~Busy(d, {"status"})
  /\ Ask(c, d, "status", "answer")

\* pin_status answers what the cookie it was sent with says.
StatusAnswer(c) ==
  LET d == request[c].of IN
  /\ Free
  /\ Waits(c, "status", "answer")
  /\ CASE request[c].claim = "setup" -> Show(d, "pin_setup") /\ UNCHANGED <<verifiedRef, excused>>
       [] request[c].claim = "locked" -> Show(d, "pin_required") /\ UNCHANGED <<verifiedRef, excused>>
       [] OTHER ->
            /\ verifiedRef' = verifiedRef \union {d}
            /\ excused' = IF d \in pinVerified /\ claim[d] = "open" THEN excused
                          ELSE excused \union {d}
            /\ UNCHANGED lockState
  /\ EndRequest(c)
  /\ UNCHANGED <<rows, claim, lockFrame>>

\* Any other request, which the gateway lets through or not.
RequestData(c, d) ==
  /\ Free
  /\ claim[d] # "open"
  /\ ~Busy(d, {"data"})
  /\ Ask(c, d, "data", "answer")

\* handlePinRequired
DataAnswer(c) ==
  LET d == request[c].of IN
  /\ Free
  /\ Waits(c, "data", "answer")
  /\ IF request[c].claim = "locked"
     THEN Show(d, "pin_required") /\ verifiedRef' = verifiedRef \ {d}
     ELSE /\ lockState' = IF d \in verifiedRef THEN lockState
                          ELSE [lockState EXCEPT ![d] = "pin_setup"]
          /\ UNCHANGED verifiedRef
  /\ EndRequest(c)
  /\ UNCHANGED <<rows, claim, lockFrame, excused>>

-------------------------------------------------------------------------------
(* The PIN is entered: onPinSetup, onPinVerify, onBiometricUnlock.          *)

EntryOps == {"setup", "verify", "cancel"}

SubmitSetup(c, d) ==
  /\ Happens
  /\ lockState[d] = "pin_setup" /\ ~Busy(d, EntryOps)
  /\ Ask(c, d, "setup", "pin")

SubmitPin(c, d) ==
  /\ Happens
  /\ lockState[d] = "pin_required" /\ ~Busy(d, EntryOps)
  /\ Ask(c, d, "verify", "row")

\* Whatever PIN there is by now: the claim alone is checked.
SetPin(c) ==
  /\ Free
  /\ Waits(c, "setup", "pin")
  /\ request[c].claim = "setup" /\ pinStatus # "deleted"
  /\ pinStatus' = "ACTIVE"
  /\ request' = [Crossing(FoundNoPin) EXCEPT ![c].at = "row"]
  /\ UNCHANGED <<pinVerified, claim, pageVars, lockFrame, excused>>

SetRow(c) ==
  LET d == request[c].of IN
  /\ Free
  /\ Waits(c, "setup", "row") \/ (Waits(c, "verify", "row") /\ request[c].claim # "setup")
  /\ pinStatus = "ACTIVE"
  /\ pinVerified' = pinVerified \union {d}
  /\ request' = [Crossing(HaveRow({d})) EXCEPT ![c].at = "answer"]
  /\ UNCHANGED <<pinStatus, claim, pageVars, lockFrame, excused>>

\* The cookie says pin_verified, whatever a lock did to the row since.
EntryAnswer(c) ==
  LET d == request[c].of IN
  /\ Free
  /\ request[c].op \in {"setup", "verify"} /\ request[c].at = "answer"
  /\ claim' = [claim EXCEPT ![d] = "open"]
  /\ Show(d, "active")
  /\ verifiedRef' = verifiedRef \union {d}
  /\ excused' = IF d \in pinVerified THEN excused \ {d} ELSE excused \union {d}
  /\ EndRequest(c)
  /\ UNCHANGED <<rows, lockFrame>>

-------------------------------------------------------------------------------
(* The devices are locked.                                                 *)

PressLock(c, d) ==
  /\ Happens
  /\ lockState[d] = "active" /\ ~Busy(d, {"lock"})
  /\ Ask(c, d, "lock", "clear")

ClearAll(c) ==
  /\ Free
  /\ Waits(c, "lock", "clear")
  /\ request[c].claim # "setup" /\ pinStatus = "ACTIVE"
  /\ pinVerified' = {}
  /\ request' = [Crossing(HaveRow(Devices)) EXCEPT ![c].at = "publish"]
  /\ UNCHANGED <<pinStatus, claim, pageVars, lockFrame, excused>>

PublishLock(c) ==
  /\ Free
  /\ Waits(c, "lock", "publish")
  /\ lockFrame' = Devices
  /\ GoTo(c, "answer")
  /\ UNCHANGED <<rows, claim, pageVars, excused>>

\* lockSession, after its await.
LockHere(d) == Show(d, "pin_required") /\ verifiedRef' = verifiedRef \ {d}

LockAnswer(c) ==
  /\ Free
  /\ Waits(c, "lock", "answer")
  /\ claim' = [claim EXCEPT ![request[c].of] = "locked"]
  /\ LockHere(request[c].of)
  /\ EndRequest(c)
  /\ UNCHANGED <<rows, lockFrame, excused>>

\* onSessionLock
LockFrame(d) ==
  /\ Free
  /\ d \in lockFrame
  /\ lockFrame' = lockFrame \ {d}
  /\ LockHere(d)
  /\ UNCHANGED <<rows, claim, request, excused>>

LoseFrame(d) ==
  /\ Happens
  /\ d \in lockFrame
  /\ lockFrame' = lockFrame \ {d}
  /\ excused' = excused \union {d}
  /\ UNCHANGED <<rows, claim, pageVars, request>>

\* The timer of 10 minutes without activity.
Inactive(d) ==
  /\ Happens
  /\ d \in verifiedRef
  /\ LockHere(d)
  /\ UNCHANGED <<rows, claim, lockFrame, request, excused>>

\* 10 minutes after it was entered the row no longer counts, activity or not.
Lapse(d) ==
  /\ Happens
  /\ d \in pinVerified
  /\ pinVerified' = pinVerified \ {d}
  /\ excused' = excused \union {d}
  /\ UNCHANGED <<pinStatus, claim, pageVars, lockFrame, request>>

\* lock("screenshot_blocked"), over the PIN screen too, and unlock by a click.
Screenshot(d) ==
  /\ Happens
  /\ lockState[d] # "screenshot_blocked"
  /\ Show(d, "screenshot_blocked")
  /\ UNCHANGED <<rows, claim, verifiedRef, lockFrame, request, excused>>
Click(d) ==
  /\ Free
  /\ lockState[d] = "screenshot_blocked"
  /\ Show(d, "active")
  /\ UNCHANGED <<rows, claim, verifiedRef, lockFrame, request, excused>>

-------------------------------------------------------------------------------
(* Refreshing, cancelling, failing, loading.                                *)

StartRefresh(c, d) ==
  /\ Happens
  /\ pinStatus # "deleted" /\ ~Busy(d, {"refresh"})
  /\ Ask(c, d, "refresh", "read")

ReadUser(c) ==
  /\ Free
  /\ Waits(c, "refresh", "read") /\ pinStatus # "deleted"
  /\ request' = [request EXCEPT ![c].at = "row",
                               ![c].claim = IF pinStatus = "ACTIVE" THEN "locked" ELSE "setup"]
  /\ UNCHANGED <<rows, claim, pageVars, lockFrame, excused>>

\* Slip: a refreshed session starts over, as one signed in does.
ClaimAnew(r) == r.claim
\* The status of the user read before, the row as rotate_refresh returns it.
ClaimOf(r) == IF r.claim = "locked" /\ r.of \in pinVerified THEN "open" ELSE r.claim

\* Without a row any more, what find_by_refresh_hash returned first counts.
RotateRow(c) ==
  /\ Free
  /\ Waits(c, "refresh", "row")
  /\ \E granted \in {ClaimOf(request[c])} \union
         {g \in {"open"} : pinStatus = "deleted" /\ request[c].claim = "locked"} :
       request' = [request EXCEPT ![c].at = "answer", ![c].claim = granted]
  /\ UNCHANGED <<rows, claim, pageVars, lockFrame, excused>>

RefreshAnswer(c) ==
  LET d == request[c].of IN
  /\ Free
  /\ Waits(c, "refresh", "answer")
  /\ claim' = [claim EXCEPT ![d] = request[c].claim]
  /\ excused' = IF request[c].crossed THEN excused \union {d} ELSE excused
  /\ EndRequest(c)
  /\ UNCHANGED <<rows, pageVars, lockFrame>>

PressCancel(c, d) ==
  /\ Happens
  /\ lockState[d] = "pin_setup" /\ ~Busy(d, EntryOps)
  /\ Ask(c, d, "cancel", "check")

CheckCancel(c) ==
  /\ Free
  /\ Waits(c, "cancel", "check")
  /\ request[c].claim = "setup" /\ pinStatus # "ACTIVE"
  /\ GoTo(c, "delete")
  /\ UNCHANGED <<rows, claim, pageVars, lockFrame, excused>>

DeleteUser(c) ==
  /\ Free
  /\ Waits(c, "cancel", "delete")
  /\ pinStatus' = "deleted" /\ pinVerified' = {}
  /\ excused' = Devices
  /\ GoTo(c, "answer")
  /\ UNCHANGED <<claim, pageVars, lockFrame>>

\* onPinCancel: its finally leaves for the login page, refused or not, and
\* clearSession drops the cookies.
Leaves(d) ==
  /\ claim' = [claim EXCEPT ![d] = "none"]
  /\ Show(d, "active")
  /\ verifiedRef' = verifiedRef \ {d}

CancelAnswer(c) ==
  /\ Free
  /\ Waits(c, "cancel", "answer")
  /\ Leaves(request[c].of)
  /\ EndRequest(c)
  /\ UNCHANGED <<rows, lockFrame, excused>>

\* A request is refused, or fails, or its answer is lost.  A lock whose frames
\* were not published locks this device only.
RequestFails(c) ==
  LET d == request[c].of IN
  /\ Happens
  /\ request[c] # NoRequest
  /\ CASE request[c].op = "lock" -> LockHere(d) /\ UNCHANGED claim
       [] request[c].op = "cancel" -> Leaves(d)
       [] OTHER -> UNCHANGED <<claim, pageVars>>
  /\ excused' = IF Waits(c, "lock", "publish") THEN Devices ELSE excused
  /\ EndRequest(c)
  /\ UNCHANGED <<rows, lockFrame>>

Reload(d) ==
  /\ Happens
  /\ Running(d) = {} /\ claim[d] # "none"
  /\ Show(d, "active")
  /\ verifiedRef' = verifiedRef \ {d}
  /\ UNCHANGED <<rows, claim, lockFrame, request, excused>>

LockNext ==
  \/ \E c \in Requests :
       \/ \E d \in Devices :
            \/ CheckStatus(c, d) \/ RequestData(c, d) \/ SubmitSetup(c, d) \/ SubmitPin(c, d)
            \/ PressLock(c, d) \/ StartRefresh(c, d) \/ PressCancel(c, d)
       \/ StatusAnswer(c) \/ DataAnswer(c) \/ SetPin(c) \/ SetRow(c) \/ EntryAnswer(c)
       \/ ClearAll(c) \/ PublishLock(c) \/ LockAnswer(c)
       \/ ReadUser(c) \/ RotateRow(c) \/ RefreshAnswer(c)
       \/ CheckCancel(c) \/ DeleteUser(c) \/ CancelAnswer(c) \/ RequestFails(c)
  \/ \E d \in Devices :
       \/ LockFrame(d) \/ LoseFrame(d) \/ Inactive(d) \/ Lapse(d)
       \/ Screenshot(d) \/ Click(d) \/ Reload(d)

LockSpec == LockInit /\ [][LockNext]_lockVars

-------------------------------------------------------------------------------
(* Properties.                                                             *)

\* Once its requests and the lock frames are over, a page that shows the app and
\* believes the PIN was entered has the gateway and its row believe so: nobody is
\* asked again in the middle of work, and a lock reached every device.  Excepted:
\* the row's 10 minutes are over, a lock's frame or publication was lost or came
\* between an entry and its answer, a refresh had read the user or the row before it
\* changed, a page load believed a cookie older than the row, or another device
\* cancelled the registration meanwhile.
ScreenAgrees ==
  \A d \in Devices \ (excused \union lockFrame) :
    /\ d \in verifiedRef /\ lockState[d] = "active"
    /\ Running(d) = {} /\ ~ \E e \in Devices : Busy(e, {"lock"})
    => d \in pinVerified /\ claim[d] = "open"
===============================================================================
