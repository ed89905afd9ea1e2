------------------------------- MODULE Background -------------------------------
(***************************************************************************)
(* What a client does without being asked, and must come to an end with:   *)
(* refreshing its tokens and catching up with what it missed.  The two     *)
(* share no state: a behaviour is of one of them.                          *)
(***************************************************************************)
EXTENDS CatchUp, TokenRefresh

VARIABLE kind               \* "refresh" or "catchup"

backgroundVars == <<kind, vars, refreshVars>>

BackgroundInit == kind \in {"refresh", "catchup"} /\ Init /\ RefreshInit

Refreshing(A) == kind = "refresh" /\ A /\ UNCHANGED <<kind, vars>>
CatchingUp(A) == kind = "catchup" /\ A /\ UNCHANGED <<kind, refreshVars>>

BackgroundNext == Refreshing(RefreshNext) \/ CatchingUp(Next)

\* Fairness is that of the two.
BackgroundSpec ==
  /\ BackgroundInit /\ [][BackgroundNext]_backgroundVars
  /\ \A t \in Tabs :
       /\ WF_backgroundVars(Refreshing(SendRefresh(t)))
       /\ WF_backgroundVars(Refreshing(ServerStep(t)))
       /\ WF_backgroundVars(Refreshing(ReceiveOk(t)))
       /\ WF_backgroundVars(Refreshing(ReceiveUnauthorized(t)))
  /\ WF_backgroundVars(CatchingUp(Refresh(log)))

===============================================================================
