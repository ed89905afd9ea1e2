--------------------------------- MODULE Browser ---------------------------------
(***************************************************************************)
(* What a browser does besides messages: calls, the PIN screen, recording, *)
(* what was decided about chats, what covers the pages.                    *)
(* They share no state: a behaviour is of one of them.                     *)
(***************************************************************************)
EXTENDS Calls, AppLock, Recorder, ChatVault, PrivacySeal

VARIABLE kind               \* "call", "lock", "record", "chats" or "seal"

browserVars == <<kind, vars, lockVars, recorderVars, vaultVars, sealVars>>

BrowserInit ==
  /\ kind \in {"call", "lock", "record", "chats", "seal"}
  /\ Init /\ LockInit /\ RecorderInit /\ VaultInit /\ SealInit
  \* The PIN screen has two initial states.
  /\ (kind # "lock" => pinStatus = "ACTIVE")

Calling == kind = "call" /\ Next
           /\ UNCHANGED <<kind, lockVars, recorderVars, vaultVars, sealVars>>
Locking == kind = "lock" /\ LockNext
           /\ UNCHANGED <<kind, vars, recorderVars, vaultVars, sealVars>>
Recording == kind = "record" /\ RecorderNext
             /\ UNCHANGED <<kind, vars, lockVars, vaultVars, sealVars>>
Deciding == kind = "chats" /\ VaultNext
            /\ UNCHANGED <<kind, vars, lockVars, recorderVars, sealVars>>
Covering == kind = "seal" /\ SealNext
            /\ UNCHANGED <<kind, vars, lockVars, recorderVars, vaultVars>>

BrowserNext == Calling \/ Locking \/ Recording \/ Deciding \/ Covering

BrowserSpec == BrowserInit /\ [][BrowserNext]_browserVars

===============================================================================
