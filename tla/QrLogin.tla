-------------------------------- MODULE QrLogin --------------------------------
(***************************************************************************)
(* Signing in with a QR code, seen from the new device: its page polls     *)
(* until the code is approved, and the answer brings the session and, once *)
(* only, its refresh token.                                                *)
(*                                                                         *)
(* The page polls every 2 seconds whether or not its last poll has been    *)
(* answered.  A poll and an approval are several calls to the database     *)
(* each.  A session and its refresh token have the name of the approval    *)
(* that makes them; which sessions a user has is the matter of Sessions.   *)
(***************************************************************************)
EXTENDS FiniteSets, Naturals

CONSTANTS
  Scans,                    \* approvals of the code
  Polls,                    \* polls under way at once
  NoScan,
  MaxLost                   \* bound on polls that end in no answer

ASSUME QrAssumption == NoScan \notin Scans /\ MaxLost \in Nat

VARIABLES
  qr,                       \* the row: its status, session and refresh token
  late,                     \* it is past its expires_at
  scanAt,                   \* each approval: its next call
  live,                     \* the sessions that are not revoked
  poll,                     \* each poll: its next step, and the row it read
  shown,                    \* the page: its status
  told, kept,               \* the new device: its session, its refresh cookie
  lost,                     \* polls that ended in no answer
  tokenLost                 \* one of them had taken the token from the row

scanVars == <<scanAt, live>>
deviceVars == <<shown, told, kept>>
qrVars == <<qr, late, scanVars, poll, deviceVars, lost, tokenLost>>

Blank == [status |-> "pending", session |-> NoScan, token |-> NoScan]
NoPoll == [at |-> "idle", row |-> Blank]

\* qr_start: the page shows the code.
QrInit ==
  /\ qr = Blank
  /\ late = FALSE
  /\ scanAt = [p \in Scans |-> "new"]
  /\ live = {}
  /\ poll = [q \in Polls |-> NoPoll]
  /\ shown = "pending"
  /\ told = NoScan /\ kept = NoScan
  /\ lost = 0 /\ tokenLost = FALSE

-------------------------------------------------------------------------------
(* qr_approve, by a device that is signed in.                              *)

GoScan(p, step) == scanAt' = [scanAt EXCEPT ![p] = step]

BeginScan(p) ==
  /\ scanAt[p] = "new"
  /\ live' = live \union {p}
  /\ GoScan(p, "read")
  /\ UNCHANGED <<qr, late, poll, deviceVars, lost, tokenLost>>

\* approve_qr, up to its UPDATE.
ReadQr(p) ==
  /\ scanAt[p] = "read"
  /\ GoScan(p, IF qr.status = "pending" /\ ~late THEN "write" ELSE "drop")
  /\ qr' = IF qr.status = "pending" /\ late THEN [qr EXCEPT !.status = "expired"] ELSE qr
  /\ UNCHANGED <<late, live, poll, deviceVars, lost, tokenLost>>

\* By primary key: whatever the status is by now.
WriteQr(p) ==
  /\ scanAt[p] = "write"
  /\ qr' = [status |-> "approved", session |-> p, token |-> p]
  /\ GoScan(p, "prune")
  /\ UNCHANGED <<late, live, poll, deviceVars, lost, tokenLost>>

DropScan(p) ==
  /\ scanAt[p] = "drop"
  /\ live' = live \ {p}
  /\ GoScan(p, "refused")
  /\ UNCHANGED <<qr, late, poll, deviceVars, lost, tokenLost>>

\* All sessions but the approving device's, which is not one of these, and the
\* new one.
PruneOthers(p) ==
  /\ scanAt[p] = "prune"
  /\ live' = live \intersect {p}
  /\ GoScan(p, "done")
  /\ UNCHANGED <<qr, late, poll, deviceVars, lost, tokenLost>>

PassExpiry ==
  /\ ~late
  /\ late' = TRUE
  /\ UNCHANGED <<qr, scanVars, poll, deviceVars, lost, tokenLost>>

-------------------------------------------------------------------------------
(* The page: the interval of QrLoginPage, and qr_poll.                     *)

SendPoll(q) ==
  /\ shown = "pending"
  /\ poll[q].at = "idle"
  /\ poll' = [poll EXCEPT ![q] = [NoPoll EXCEPT !.at = "read"]]
  /\ UNCHANGED <<qr, late, scanVars, deviceVars, lost, tokenLost>>

\* get_qr; what has been approved may be late, too.
ReadPoll(q) ==
  /\ poll[q].at = "read"
  /\ LET row == IF late THEN [qr EXCEPT !.status = "expired"] ELSE qr
     IN  poll' = [poll EXCEPT ![q] =
           [at |-> IF row.status = "approved" /\ row.token # NoScan THEN "consume" ELSE "answer",
            row |-> row]]
  /\ UNCHANGED <<qr, late, scanVars, deviceVars, lost, tokenLost>>

\* Slip: the row is read again once its token has been taken.
AnswerConsumed(q) == [at |-> "answer", row |-> [poll[q].row EXCEPT !.token = NoScan]]
\* The answer is made from the row as it was read.
AnswerRead(q) == [poll[q] EXCEPT !.at = "answer"]

\* consume_qr_refresh: whichever token the row has by now.
ConsumeToken(q) ==
  /\ poll[q].at = "consume"
  /\ qr' = [qr EXCEPT !.token = NoScan]
  /\ poll' = [poll EXCEPT ![q] = AnswerRead(q)]
  /\ UNCHANGED <<late, scanVars, deviceVars, lost, tokenLost>>

\* The answer sets the refresh cookie if it has a token; then storeSession.
AnswerPoll(q) ==
  LET row == poll[q].row IN
  /\ poll[q].at = "answer"
  /\ poll' = [poll EXCEPT ![q] = NoPoll]
  /\ shown' = IF row.status = "pending" THEN shown ELSE row.status
  /\ told' = IF row.status = "approved" THEN row.session ELSE told
  /\ kept' = IF row.status = "approved" /\ row.token # NoScan THEN row.token ELSE kept
  /\ UNCHANGED <<qr, late, scanVars, lost, tokenLost>>

\* The request, its answer or the replica at work on it is lost, or a call to the
\* database fails; the interval goes on.
LosePoll(q) ==
  /\ poll[q].at # "idle"
  /\ lost < MaxLost
  /\ lost' = lost + 1
  /\ poll' = [poll EXCEPT ![q] = NoPoll]
  /\ tokenLost' = (tokenLost \/ (poll[q].at = "answer" /\ poll[q].row.token # NoScan))
  /\ UNCHANGED <<qr, late, scanVars, deviceVars>>

QrNext ==
  \/ \E p \in Scans :
       BeginScan(p) \/ ReadQr(p) \/ WriteQr(p) \/ DropScan(p) \/ PruneOthers(p)
  \/ \E q \in Polls :
       SendPoll(q) \/ ReadPoll(q) \/ ConsumeToken(q) \/ AnswerPoll(q) \/ LosePoll(q)
  \/ PassExpiry

QrSpec == QrInit /\ [][QrNext]_qrVars

-------------------------------------------------------------------------------
(* Properties.                                                             *)

\* When its polls are over, a device that has been told it is signed in has the
\* refresh token of that session, and nobody has revoked it, however polls and
\* approvals overlapped.  Excepted: the answer with the token was lost after the
\* row gave it up, or two approvals got through.
PairedStaysSignedIn ==
  LET through == {p \in Scans : scanAt[p] \in {"prune", "done"}}
  IN  told # NoScan /\ (\A q \in Polls : poll[q].at = "idle") /\ ~tokenLost
        /\ Cardinality(through) <= 1 => kept = told /\ told \in live
===============================================================================
