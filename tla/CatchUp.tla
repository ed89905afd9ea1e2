--------------------------------- MODULE CatchUp ---------------------------------
(***************************************************************************)
(* How the web client keeps one conversation's list of messages up to date. *)
(* Rows 1 .. log are on the server.  Five things bring them to the screen: *)
(* live frames, the catch-up after (re)connecting, the requests made when  *)
(* the conversation is opened, the refresh every 25 s and scrolling up.    *)
(* Each awaits its answer while the others change the list, the offline    *)
(* cache and the last-seen cursor in localStorage.                         *)
(*                                                                         *)
(* A row is its seq.  The rows are other members'; the client's own        *)
(* messages are Outbox's.  The sync.required frame is left out: the client *)
(* never sends the positions the gateway would answer with it.             *)
(***************************************************************************)
EXTENDS Integers, Sequences, FiniteSets, SequencesExt, FiniteSetsExt

CONSTANTS
  Undefined,
  SyncPage,                 \* rows in a page of catch-up: 200
  OpenPage,                 \* rows asked for on opening, PAGE: 30
  RefreshPage,              \* rows asked for by a refresh: 50
  OlderPage,                \* rows asked for on scrolling up, LIMIT: 30
  OldRows, MaxRows,         \* bounds on rows before the page was loaded, and in all
  MaxConnects, MaxScrolls, MaxVisits,
  MaxLag                    \* bound: rows an answer is behind the log

ASSUME PagesAssumption ==
  {SyncPage, OpenPage, RefreshPage, OlderPage} \subseteq Nat \ {0}
ASSUME BoundsAssumption == {OldRows, MaxRows, MaxLag, MaxConnects, MaxScrolls, MaxVisits} \subseteq Nat

VARIABLES
  log,                      \* rows the server has
  frames,                   \* message.new frames on their way
  cursor,                   \* nexa:sync:seq:{conversation}
  cache,                    \* rows of the offline cache
  list,                     \* apiMessages[conversation], in the order shown
  open,                     \* it is the active conversation
  sync, visit,              \* runReconnectSync, and the effect of opening
  late,                     \* a refresh asked before the newest row is under way
  older,                    \* scrolling up: the oldest row shown when it asked
  connects, scrolls, visits

server == <<log, frames>>
storage == <<cursor, cache>>
page == <<list, open, late>>
calls == <<sync, visit, older>>
counters == <<connects, scrolls, visits>>
vars == <<log, frames, cursor, cache, list, open, late, sync, visit, older,
          connects, scrolls, visits>>

Larger(i, j) == IF i > j THEN i ELSE j
Newest(n, limit) == Larger(1, n - limit + 1) .. n
InOrder(rows) == SetToSortSeq(rows, LAMBDA i, j : i < j)
Shown == IF list = Undefined THEN {} ELSE Range(list)

Idle == [at |-> "idle"]
\* Where a catch-up is: the rows it asked after, the rows it got, and, of a visit,
\* the cached rows that it painted.
Asking(after, got, painted) ==
  [at |-> "asking", after |-> after, got |-> got, painted |-> painted]
CaughtUp(got, painted) ==
  [at |-> "caught up", after |-> 0, got |-> got, painted |-> painted]

\* The page is loaded.  Earlier loads left a cache, and a cursor at or past its
\* rows: live frames move the cursor and are not cached.
Init ==
  /\ log \in 0 .. OldRows
  /\ cursor \in 0 .. log
  /\ \E k \in 0 .. cursor : cache = 1 .. k
  /\ frames = {}
  /\ list = Undefined
  /\ open = FALSE /\ late = FALSE
  /\ sync = Idle
  /\ visit = Idle
  /\ older = Undefined
  /\ connects = 0 /\ scrolls = 0 /\ visits = 0

-------------------------------------------------------------------------------
(* The server and the socket.                                              *)

NewRow ==
  /\ log < MaxRows
  /\ log' = log + 1
  /\ frames' = frames \union {log + 1}
  /\ late' = (late \/ open)
  /\ UNCHANGED <<storage, list, open, calls, counters>>

\* A live frame: the cursor moves, and onLiveAppend puts the row at the end of
\* the list, whatever the list holds.  Frames are taken in any order, since each
\* row is decrypted on its own before it is appended.
LiveFrame(m) ==
  /\ m \in frames
  /\ frames' = frames \ {m}
  /\ cursor' = Larger(cursor, m)
  /\ list' = Append(IF list = Undefined THEN << >> ELSE list, m)
  /\ UNCHANGED <<log, cache, open, late, calls, counters>>

-------------------------------------------------------------------------------
(* Catching up: pages of the rows after the cursor.                        *)

\* One page, as the server has it or had it when it cached the answer.
Page(op, known) == op.after + 1 .. IF known > op.after + SyncPage
                                   THEN op.after + SyncPage ELSE known

\* Slip: the cursor never moves back.
CursorForward(op, rows) == IF rows = {} THEN cursor ELSE Larger(cursor, Max(rows))
\* setLastSeq(m.seq) for each row after the position asked for: over whatever
\* live frames have made of the cursor meanwhile.
CursorAfterPage(op, rows) == IF rows = {} THEN cursor ELSE Max(rows)

\* A full page asks for the next one from the cursor as it now is.
CatchUpPage(op, rows) ==
  IF Cardinality(rows) >= SyncPage
  THEN Asking(CursorAfterPage(op, rows), op.got \union rows, op.painted)
  ELSE CaughtUp(op.got \union rows, op.painted)

SyncAnswer(known) ==
  /\ sync.at = "asking"
  /\ LET rows == Page(sync, known)
     IN /\ cursor' = CursorAfterPage(sync, rows)
        /\ sync' = CatchUpPage(sync, rows)
  /\ UNCHANGED <<server, cache, page, visit, older, counters>>

\* onLiveMessages: the rows given and the rows shown, once each and in order.
Merged(rows) == InOrder(rows \union Shown)

\* mergeConversationMessages with the cache, shown and cached again.
SyncDone ==
  /\ sync.at = "caught up"
  /\ LET rows == cache \union sync.got
     IN list' = Merged(rows) /\ cache' = rows
  /\ sync' = Idle
  /\ UNCHANGED <<server, cursor, open, late, visit, older, counters>>

\* A request failed: the cache is shown.
SyncFails ==
  /\ sync.at = "asking"
  /\ list' = IF cache = {} THEN list ELSE Merged(cache)
  /\ sync' = Idle
  /\ UNCHANGED <<server, storage, open, late, visit, older, counters>>

\* A connection is made: what was published since the last one broke, and what
\* was then on its way, comes by no frame.  Bound: not before the last sync has
\* ended.
Connect ==
  /\ sync = Idle
  /\ connects < MaxConnects
  /\ connects' = connects + 1
  /\ frames' = {}
  /\ sync' = Asking(cursor, {}, {})
  /\ UNCHANGED <<log, storage, page, visit, older, scrolls, visits>>

-------------------------------------------------------------------------------
(* Opening the conversation.                                               *)

\* The cached rows are painted at once, then the newest page and the catch-up
\* are asked for together.  Bound: not before the last visit's calls ended.
Open ==
  /\ ~open
  /\ visit = Idle
  /\ visits < MaxVisits
  /\ visits' = visits + 1
  /\ open' = TRUE
  /\ list' = IF cache = {} THEN list ELSE Merged(cache)
  /\ visit' = Asking(cursor, {}, cache)
  /\ UNCHANGED <<server, storage, sync, older, connects, scrolls, late>>

\* The answers of a visit that has ended are dropped (`cancelled`).
Close ==
  /\ open
  /\ open' = FALSE
  /\ UNCHANGED <<server, storage, list, calls, counters, late>>

VisitAnswer(known) ==
  /\ visit.at = "asking"
  /\ LET rows == Page(visit, known)
     IN /\ cursor' = CursorAfterPage(visit, rows)
        /\ visit' = CatchUpPage(visit, rows)
  /\ UNCHANGED <<server, cache, page, sync, older, counters>>

\* The loaded rows, and of the cached ones those no older than these.
Resolved(loaded, cached) ==
  loaded \union {m \in cached : loaded = {} \/ m >= Min(loaded)}

\* Both answers are there; the newest page is as old as MaxLag allows.
VisitDone(known) ==
  /\ visit.at = "caught up"
  /\ LET rows == Resolved(Newest(known, OpenPage) \union visit.got, visit.painted)
     IN IF open THEN list' = Merged(rows) /\ cache' = rows
        ELSE UNCHANGED <<list, cache>>
  /\ visit' = Idle
  /\ UNCHANGED <<server, cursor, open, late, sync, older, counters>>

VisitFails ==
  /\ visit # Idle
  /\ list' = IF open /\ cache # {} THEN Merged(cache) ELSE list
  /\ visit' = Idle
  /\ UNCHANGED <<server, storage, open, late, sync, older, counters>>

-------------------------------------------------------------------------------
(* Refreshing and scrolling.                                               *)

\* Slip: only rows not yet shown are added.
AddMissing(n) == InOrder(Newest(n, RefreshPage) \ Shown)
                   \o IF list = Undefined THEN << >> ELSE list
\* The answer takes the list's place.
Refreshed(n) == InOrder(Newest(n, RefreshPage))

\* refreshNow and its answer.  Refreshes depend on no other call, so none is
\* kept under way: one asked before the newest row was stored may still answer,
\* late.  A failed one does nothing to a list.
Refresh(known) ==
  /\ open
  /\ known = log \/ late
  /\ list' = Refreshed(known)
  /\ late' = (late /\ known = log)
  /\ UNCHANGED <<server, storage, open, calls, counters>>

\* Bound: while no sync and no visit is under way.
ScrollUp ==
  /\ open
  /\ older = Undefined /\ sync = Idle /\ visit = Idle
  /\ scrolls < MaxScrolls
  /\ Shown # {}
  /\ Min(Shown) > 1
  /\ older' = Min(Shown)
  /\ scrolls' = scrolls + 1
  /\ UNCHANGED <<server, storage, page, sync, visit, connects, visits>>

OlderAnswer ==
  /\ older # Undefined
  /\ list' = InOrder(Newest(older - 1, OlderPage) \ Shown)
               \o IF list = Undefined THEN << >> ELSE list
  /\ older' = Undefined
  /\ UNCHANGED <<server, storage, open, late, sync, visit, counters>>

\* hydrateOfflineChatAccess: the cache, if nothing else came first.
Hydrate ==
  /\ list = Undefined
  /\ cache # {}
  /\ list' = InOrder(cache)
  /\ UNCHANGED <<server, storage, open, late, calls, counters>>

Next ==
  \/ NewRow \/ Connect
  \/ \E m \in 1 .. MaxRows : LiveFrame(m)
  \/ \E known \in Larger(0, log - MaxLag) .. log :
       SyncAnswer(known) \/ VisitAnswer(known) \/ VisitDone(known) \/ Refresh(known)
  \/ SyncDone \/ SyncFails
  \/ Open \/ Close \/ VisitFails
  \/ ScrollUp \/ OlderAnswer
  \/ Hydrate

Spec == Init /\ [][Next]_vars

\* While the conversation is open and the tab visible, the interval asks again
\* every 25 s.
FairSpec == Spec /\ WF_vars(Refresh(log))

-------------------------------------------------------------------------------
(* Properties.                                                             *)

\* The pages of one catch-up have no hole, though live frames and another
\* catch-up move the cursor it reads between them: each page puts the cursor
\* at its own last row before the next is asked for.
CatchUpContiguous ==
  \A op \in {sync, visit} \ {Idle} :
    /\ \A i, j \in op.got : (i .. j) \subseteq op.got
    /\ op.at = "asking" /\ op.got # {} => op.after = Max(op.got)

\* While the conversation stays open, whatever order answers and live rows came
\* in, the list becomes the newest page, each row once and in order, and stays so:
\* rows missed, shown twice, out of place or dropped by a late answer are repaired
\* by a refresh, and no answer still under way undoes it for good.
Converges ==
  <>[]open => <>[](/\ list # Undefined
                   /\ Range(list) = Newest(log, RefreshPage)
                   /\ \A i \in 2 .. Len(list) : list[i] = list[i - 1] + 1)
===============================================================================
