---------------------------- MODULE BackgroundProofs ----------------------------
(***************************************************************************)
(* Proofs about what a client does without being asked: refreshing its     *)
(* tokens and catching up, for any number of tabs, rows and connections.   *)
(***************************************************************************)
EXTENDS Background, FiniteSetTheorems, TLAPS

-------------------------------------------------------------------------------
(* Refreshing the access token.                                            *)

RefreshTypeOK ==
  /\ at \in [Tabs -> {"idle", "find", "rotate", "write", "lookup", "ok", "unauthorized"}]
  /\ sent \in [Tabs -> Nat] /\ fresh \in [Tabs -> Nat]
  /\ hash \in Nat /\ cookie \in Nat
  /\ revoked \in BOOLEAN /\ signedIn \in BOOLEAN /\ overlapped \in BOOLEAN
  /\ issued \in Nat /\ faults \in Nat

OneAtATime ==
  ~ overlapped => \A t, u \in Tabs : at[t] # "idle" /\ at[u] # "idle" => t = u

\* The row and the cookie hold the same token but between the write of the row
\* and the answer, when the row holds the one that the answer brings.
TokensAgree ==
  ~ overlapped /\ faults = 0 /\ ~ revoked =>
    /\ signedIn
    /\ (\A t \in Tabs : at[t] \notin {"lookup", "ok"}) => hash = cookie
    /\ \A t \in Tabs :
         /\ at[t] # "unauthorized"
         /\ at[t] = "find" => sent[t] = cookie
         /\ at[t] \in {"lookup", "ok"} => hash = fresh[t]

RefreshInv == RefreshTypeOK /\ OneAtATime /\ TokensAgree

LEMMA RefreshInitInv == RefreshInit => RefreshInv
  <1> SUFFICES ASSUME RefreshInit PROVE RefreshInv
    OBVIOUS
  <1>1. RefreshTypeOK
    BY DEF RefreshInit, RefreshTypeOK
  <1>2. OneAtATime
    BY DEF RefreshInit, OneAtATime
  <1>3. TokensAgree
    BY DEF RefreshInit, TokensAgree
  <1> QED
    BY <1>1, <1>2, <1>3 DEF RefreshInv

\* While nothing overlaps, the refresh at work is the only one.
LEMMA Alone ==
  ASSUME RefreshInv, NEW t \in Tabs, at[t] # "idle", ~ overlapped
  PROVE  \A u \in Tabs \ {t} : at[u] = "idle"
  BY DEF RefreshInv, RefreshTypeOK, OneAtATime

LEMMA BrowserStepInv ==
  ASSUME RefreshInv, NEW t \in Tabs,
         SendRefresh(t) \/ ReceiveOk(t) \/ ReceiveUnauthorized(t) \/ NoAnswer(t)
  PROVE  RefreshInv'
  <1> USE DEF Go, rowVars, browserVars, callVars, history
  <1>1. RefreshTypeOK'
    <2>1. CASE SendRefresh(t)
      <3>1. overlapped' \in BOOLEAN
        BY <2>1 DEF SendRefresh
      <3> QED
        BY <2>1, <3>1 DEF RefreshInv, RefreshTypeOK, SendRefresh
    <2>2. CASE ReceiveOk(t)
      BY <2>2 DEF RefreshInv, RefreshTypeOK, ReceiveOk
    <2>3. CASE ReceiveUnauthorized(t)
      BY <2>3 DEF RefreshInv, RefreshTypeOK, ReceiveUnauthorized
    <2>4. CASE NoAnswer(t)
      BY <2>4 DEF RefreshInv, RefreshTypeOK, NoAnswer
    <2> QED
      BY <2>1, <2>2, <2>3, <2>4
  <1>2. OneAtATime'
    <2>1. CASE SendRefresh(t)
      <3>1. ~ overlapped' => \A u \in Tabs : at[u] = "idle"
        BY <2>1 DEF SendRefresh
      <3>2. \A u \in Tabs \ {t} : at'[u] = at[u]
        BY <2>1 DEF SendRefresh, RefreshInv, RefreshTypeOK
      <3> QED
        BY <3>1, <3>2 DEF OneAtATime
    <2>2. CASE ReceiveOk(t) \/ ReceiveUnauthorized(t) \/ NoAnswer(t)
      BY <2>2 DEF RefreshInv, RefreshTypeOK, OneAtATime, ReceiveOk,
                  ReceiveUnauthorized, NoAnswer
    <2> QED
      BY <2>1, <2>2
  <1>3. TokensAgree'
    <2>1. CASE SendRefresh(t)
      BY <2>1 DEF RefreshInv, RefreshTypeOK, TokensAgree, SendRefresh
    <2>2. CASE ReceiveOk(t)
      BY <2>2, Alone DEF RefreshInv, RefreshTypeOK, TokensAgree, ReceiveOk
    <2>3. CASE ReceiveUnauthorized(t)
      BY <2>3 DEF RefreshInv, RefreshTypeOK, TokensAgree, ReceiveUnauthorized
    <2>4. CASE NoAnswer(t)
      BY <2>4 DEF RefreshInv, RefreshTypeOK, TokensAgree, NoAnswer
    <2> QED
      BY <2>1, <2>2, <2>3, <2>4
  <1> QED
    BY <1>1, <1>2, <1>3 DEF RefreshInv

LEMMA ServerStepInv ==
  ASSUME RefreshInv, NEW t \in Tabs, ServerStep(t)
  PROVE  RefreshInv'
  <1> USE DEF Go, rowVars, browserVars, callVars, history
  <1>1. RefreshTypeOK'
    BY DEF RefreshInv, RefreshTypeOK, ServerStep, FindNoSession, FindSession, ReadRow,
           WriteRow, LookUp
  <1>2. OneAtATime'
    BY DEF RefreshInv, RefreshTypeOK, OneAtATime, ServerStep, FindNoSession, FindSession,
           ReadRow, WriteRow, LookUp
  <1>3. TokensAgree'
    <2>1. CASE FindNoSession(t)
      <3>1. ~ (~ overlapped /\ faults = 0 /\ ~ revoked)
        BY <2>1, Alone DEF RefreshInv, RefreshTypeOK, TokensAgree, FindNoSession
      <3> QED
        BY <2>1, <3>1 DEF TokensAgree, FindNoSession
    <2>2. CASE FindSession(t)
      BY <2>2, Alone DEF RefreshInv, RefreshTypeOK, TokensAgree, FindSession
    <2>3. CASE ReadRow(t)
      BY <2>3, Alone DEF RefreshInv, RefreshTypeOK, TokensAgree, ReadRow
    <2>4. CASE WriteRow(t)
      BY <2>4, Alone DEF RefreshInv, RefreshTypeOK, TokensAgree, WriteRow
    <2>5. CASE LookUp(t)
      BY <2>5, Alone DEF RefreshInv, RefreshTypeOK, TokensAgree, LookUp
    <2> QED
      BY <2>1, <2>2, <2>3, <2>4, <2>5 DEF ServerStep
  <1> QED
    BY <1>1, <1>2, <1>3 DEF RefreshInv

LEMMA RefreshNextInv == RefreshInv /\ [RefreshNext]_refreshVars => RefreshInv'
  <1> SUFFICES ASSUME RefreshInv, [RefreshNext]_refreshVars
               PROVE  RefreshInv'
    OBVIOUS
  <1>1. CASE UNCHANGED refreshVars
    BY <1>1 DEF refreshVars, RefreshInv, RefreshTypeOK, OneAtATime, TokensAgree
  <1>2. CASE RevokeSession
    BY <1>2
       DEF RevokeSession, browserVars, callVars, history, RefreshInv, RefreshTypeOK,
           OneAtATime, TokensAgree
  <1> QED
    BY <1>1, <1>2, BrowserStepInv, ServerStepInv DEF RefreshNext

\* The row, the cookie and the refreshes under way agree in every reachable state.
THEOREM RefreshInvariance == RefreshSpec => []RefreshInv
  BY RefreshInitInv, RefreshNextInv, PTL DEF RefreshSpec

\* A browser whose refreshes did not overlap and were all answered stays signed
\* in until its session is revoked.
THEOREM RefreshKeepsSession == RefreshSpec => []StaysSignedIn
  <1>1. RefreshInv => StaysSignedIn
    BY DEF RefreshInv, TokensAgree, StaysSignedIn
  <1> QED
    BY <1>1, RefreshInvariance, PTL

-------------------------------------------------------------------------------
(* Catching up.                                                            *)

LEMMA MaxOfRange ==
  ASSUME NEW lo \in Int, NEW hi \in Int, lo <= hi
  PROVE  Max(lo .. hi) = hi
  BY DEF Max

\* What a catch-up has got, if anything, ends where its last page ended, and the
\* next page is asked for after that.
Pages(op) ==
  op # Idle =>
    /\ op.at \in {"asking", "caught up"}
    /\ op.at = "asking" => op.after \in Nat
    /\ \/ op.got = {}
       \/ \E lo, hi \in Nat :
            lo <= hi /\ op.got = lo .. hi /\ (op.at = "asking" => op.after = hi)

CatchUpInv ==
  /\ log \in Nat /\ cursor \in Nat
  /\ Pages(sync) /\ Pages(visit)

LEMMA CatchUpInitInv == Init => CatchUpInv
  BY BoundsAssumption DEF Init, CatchUpInv, Pages

\* A page answered by a server that has all rows up to the known one continues
\* what the catch-up got, and puts the cursor at its end.
LEMMA NextPage ==
  ASSUME NEW op, op # Idle, op.at = "asking", Pages(op), NEW known \in Nat,
         cursor \in Nat
  PROVE  /\ CursorAfterPage(op, Page(op, known)) \in Nat
         /\ Pages(CatchUpPage(op, Page(op, known)))
  <1> DEFINE rows == Page(op, known)
             last == IF known > op.after + SyncPage THEN op.after + SyncPage ELSE known
  <1>1. SyncPage \in Nat \ {0}
    BY PagesAssumption
  <1>2. op.after \in Nat
    BY DEF Pages
  <1>3. last \in Nat /\ rows = op.after + 1 .. last
    BY <1>1, <1>2 DEF Page
  <1>4. CASE rows = {}
    <2>1. Cardinality(rows) = 0
      BY <1>4, FS_EmptySet
    <2>2. CatchUpPage(op, rows) = CaughtUp(op.got, op.painted)
      BY <1>1, <1>4, <2>1 DEF CatchUpPage
    <2>3. CursorAfterPage(op, rows) = cursor
      BY <1>4 DEF CursorAfterPage
    <2>4. Pages(CaughtUp(op.got, op.painted))
      BY DEF Pages, CaughtUp
    <2> QED
      BY <2>2, <2>3, <2>4
  <1>5. CASE rows # {}
    <2>1. op.after + 1 <= last
      BY <1>2, <1>3, <1>5
    <2>2. CursorAfterPage(op, rows) = last
      BY <1>2, <1>3, <1>5, <2>1, MaxOfRange DEF CursorAfterPage
    <2>3. \E lo \in Nat : lo <= last /\ op.got \union rows = lo .. last
      <3>1. CASE op.got = {}
        BY <1>2, <1>3, <2>1, <3>1
      <3>2. CASE op.got # {}
        <4>1. PICK lo \in Nat : lo <= op.after /\ op.got = lo .. op.after
          BY <3>2 DEF Pages
        <4>2. (lo .. op.after) \union (op.after + 1 .. last) = lo .. last
          BY <1>2, <1>3, <2>1, <4>1
        <4> QED
          BY <1>2, <1>3, <2>1, <4>1, <4>2
      <3> QED
        BY <3>1, <3>2
    <2>4. /\ Pages(Asking(last, op.got \union rows, op.painted))
          /\ Pages(CaughtUp(op.got \union rows, op.painted))
      BY <1>3, <2>3 DEF Pages, Asking, CaughtUp
    <2> QED
      BY <1>3, <2>2, <2>4 DEF CatchUpPage
  <1> QED
    BY <1>4, <1>5

LEMMA CatchUpNextInv == CatchUpInv /\ [Next]_vars => CatchUpInv'
  <1> SUFFICES ASSUME CatchUpInv, [Next]_vars
               PROVE  CatchUpInv'
    OBVIOUS
  <1> USE DEF server, storage, page, calls, counters
  <1>1. Pages(Idle) /\ \A c \in Nat : \A k : Pages(Asking(c, {}, k))
    BY DEF Pages, Asking
  <1>2. CASE UNCHANGED vars
    BY <1>2 DEF vars, CatchUpInv
  <1>3. CASE NewRow
    BY <1>3 DEF NewRow, CatchUpInv
  <1>4. CASE Connect
    BY <1>1, <1>4 DEF Connect, CatchUpInv
  <1>5. ASSUME NEW m \in 1 .. MaxRows, LiveFrame(m)
        PROVE  CatchUpInv'
    BY <1>5 DEF LiveFrame, Larger, CatchUpInv
  <1>6. ASSUME NEW known \in Larger(0, log - MaxLag) .. log,
               SyncAnswer(known) \/ VisitAnswer(known) \/ VisitDone(known) \/ Refresh(known)
        PROVE  CatchUpInv'
    <2>1. known \in Nat
      BY BoundsAssumption DEF CatchUpInv, Larger
    <2>2. CASE SyncAnswer(known)
      <3>1. sync # Idle
        BY <2>2 DEF SyncAnswer, Idle
      <3> QED
        BY <2>1, <2>2, <3>1, NextPage DEF SyncAnswer, CatchUpInv
    <2>3. CASE VisitAnswer(known)
      <3>1. visit # Idle
        BY <2>3 DEF VisitAnswer, Idle
      <3> QED
        BY <2>1, <2>3, <3>1, NextPage DEF VisitAnswer, CatchUpInv
    <2>4. CASE VisitDone(known)
      BY <1>1, <2>4 DEF VisitDone, CatchUpInv
    <2>5. CASE Refresh(known)
      BY <2>5 DEF Refresh, CatchUpInv
    <2> QED
      BY <1>6, <2>2, <2>3, <2>4, <2>5
  <1>7. CASE SyncDone \/ SyncFails
    BY <1>1, <1>7 DEF SyncDone, SyncFails, CatchUpInv
  <1>8. CASE Open \/ Close \/ VisitFails
    BY <1>1, <1>8 DEF Open, Close, VisitFails, CatchUpInv
  <1>9. CASE ScrollUp \/ OlderAnswer \/ Hydrate
    BY <1>9 DEF ScrollUp, OlderAnswer, Hydrate, CatchUpInv
  <1> QED
    BY <1>2, <1>3, <1>4, <1>5, <1>6, <1>7, <1>8, <1>9 DEF Next

\* What is caught up with is a range of rows, and the next page starts at its end,
\* in every reachable state.
THEOREM CatchUpInvariance == Spec => []CatchUpInv
  BY CatchUpInitInv, CatchUpNextInv, PTL DEF Spec

\* The pages that a catch-up puts together have no hole, whatever moves the
\* cursor between them and however far behind the answers are.
THEOREM CatchUpWithoutHoles == Spec => []CatchUpContiguous
  <1>1. CatchUpInv => CatchUpContiguous
    <2> SUFFICES ASSUME CatchUpInv, NEW op \in {sync, visit} \ {Idle}
                 PROVE  /\ \A i, j \in op.got : (i .. j) \subseteq op.got
                        /\ op.at = "asking" /\ op.got # {} => op.after = Max(op.got)
      BY DEF CatchUpContiguous
    <2>1. Pages(op) /\ op # Idle
      BY DEF CatchUpInv
    <2>2. CASE op.got = {}
      BY <2>2
    <2>3. CASE op.got # {}
      <3>1. PICK lo, hi \in Nat :
              lo <= hi /\ op.got = lo .. hi /\ (op.at = "asking" => op.after = hi)
        BY <2>1, <2>3 DEF Pages
      <3>2. Max(op.got) = hi
        BY <3>1, MaxOfRange
      <3>3. \A i, j \in lo .. hi : (i .. j) \subseteq lo .. hi
        OBVIOUS
      <3> QED
        BY <3>1, <3>2, <3>3
    <2> QED
      BY <2>2, <2>3
  <1> QED
    BY <1>1, CatchUpInvariance, PTL

-------------------------------------------------------------------------------
(* The two together.                                                       *)

LEMMA BackgroundParts == BackgroundSpec => RefreshSpec /\ Spec
  <1>1. BackgroundInit => RefreshInit /\ Init
    BY DEF BackgroundInit
  <1>2. [BackgroundNext]_backgroundVars => [RefreshNext]_refreshVars /\ [Next]_vars
    BY DEF BackgroundNext, Refreshing, CatchingUp, backgroundVars
  <1> QED
    BY <1>1, <1>2, PTL DEF BackgroundSpec, RefreshSpec, Spec

\* Both hold of a client as it is run.
THEOREM BackgroundHolds == BackgroundSpec => [](StaysSignedIn /\ CatchUpContiguous)
  BY BackgroundParts, RefreshKeepsSession, CatchUpWithoutHoles, PTL

===============================================================================
