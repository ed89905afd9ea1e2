----------------------------- MODULE QueueStorage -----------------------------
(***************************************************************************)
(* Where a browser keeps the messages it has still to send: each tab has a *)
(* queue in memory, and saves it to localStorage at once and to IndexedDB  *)
(* a little later, over whatever is there.  A page load takes the copy in  *)
(* IndexedDB, if that has any message.                                     *)
(*                                                                         *)
(* How the queue is sent is the matter of Outbox.  Here a message is       *)
(* written, tried, and removed once it is sent; order and attempts do not  *)
(* matter.                                                                 *)
(***************************************************************************)
EXTENDS Naturals, Sequences, FiniteSets

CONSTANTS
  Pages,                    \* tabs
  Notes,                    \* messages
  MaxLoads, MaxPuts, MaxStorageFaults \* bounds on page loads, on writes to
                            \* IndexedDB under way in a tab, on failing writes

ASSUME StorageAssumption == {MaxLoads, MaxPuts, MaxStorageFaults} \subseteq Nat

VARIABLES
  page,                     \* each tab: "closed", "loading", "read" or "ready"
  found,                    \* each tab that loads: what idbGet found
  early,                    \* tabs that used the queue before it was loaded
  memory,                   \* memoryQueue
  puts,                     \* each tab: IndexedDB writes under way
  local, idb,               \* the copies in localStorage and IndexedDB
  written, delivered,
  loads, storageFaults,
  foreign,                  \* each tab: what others wrote and it has not loaded
  excused                   \* messages that may be lost

tabVars == <<page, found, early, memory, puts, foreign>>
storageVars == <<tabVars, local, idb, written, delivered, loads, storageFaults, excused>>

StorageInit ==
  /\ page = [t \in Pages |-> "closed"]
  /\ memory = [t \in Pages |-> {}] /\ found = memory
  /\ early = {}
  /\ puts = [t \in Pages |-> << >>]
  /\ local = {} /\ idb = {}
  /\ written = {} /\ delivered = {}
  /\ loads = 0 /\ storageFaults = 0
  /\ foreign = [t \in Pages |-> {}]
  /\ excused = {}

Unsent == written \ delivered
Usable(t) == page[t] = "ready" \/ t \in early

-------------------------------------------------------------------------------
(* Loading a page: hydrateOfflineQueue.                                    *)

OpenPage(t) ==
  /\ page[t] = "closed"
  /\ loads < MaxLoads
  /\ loads' = loads + 1
  /\ page' = [page EXCEPT ![t] = "loading"]
  /\ UNCHANGED <<found, early, memory, puts, foreign, local, idb, written, delivered, storageFaults, excused>>

\* idbGet.
ReadIdb(t) ==
  /\ page[t] = "loading"
  /\ page' = [page EXCEPT ![t] = "read"]
  /\ found' = [found EXCEPT ![t] = idb]
  /\ UNCHANGED <<early, memory, puts, foreign, local, idb, written, delivered, loads, storageFaults, excused>>

\* bootstrapSecurity fails: SessionGate does not wait for the queue any longer,
\* and loadOfflineQueue takes it from localStorage.
LoadEarly(t) ==
  /\ page[t] \in {"loading", "read"} /\ t \notin early
  /\ storageFaults < MaxStorageFaults
  /\ storageFaults' = storageFaults + 1
  /\ early' = early \union {t}
  /\ memory' = [memory EXCEPT ![t] = local]
  /\ foreign' = [foreign EXCEPT ![t] = Unsent \ local]
  /\ UNCHANGED <<page, found, puts, local, idb, written, delivered, loads, excused>>

\* Slip: localStorage is only ever written.
IdbAlways(fromIdb) == fromIdb
\* The queue of a page that has read fromIdb.
Taken(fromIdb) == IF fromIdb # {} THEN fromIdb ELSE local

\* SessionGate shows the app once this is over.  What came from localStorage is
\* put into IndexedDB.
HydrateQueue(t) ==
  LET fromIdb == found[t] IN
  /\ page[t] = "read"
  /\ page' = [page EXCEPT ![t] = "ready"]
  /\ memory' = [memory EXCEPT ![t] = Taken(fromIdb)]
  /\ local' = Taken(fromIdb)
  /\ puts' = IF fromIdb = {} /\ local # {} THEN [puts EXCEPT ![t] = Append(@, local)]
             ELSE puts
  /\ foreign' = [foreign EXCEPT ![t] = Unsent \ Taken(fromIdb)]
  /\ excused' = IF fromIdb # {} THEN excused \union foreign'[t] ELSE excused
  /\ found' = [found EXCEPT ![t] = {}]
  /\ UNCHANGED <<early, idb, written, delivered, loads, storageFaults>>

-------------------------------------------------------------------------------
(* The queue of a tab that is open.                                        *)

\* persistQueue; localStorage may be full.
Persist(t, queue) ==
  /\ Usable(t)
  /\ Len(puts[t]) < MaxPuts
  /\ memory' = [memory EXCEPT ![t] = queue]
  /\ puts' = [puts EXCEPT ![t] = Append(@, queue)]
  /\ \/ /\ local' = queue
        /\ excused' = excused \union foreign[t]
        /\ UNCHANGED storageFaults
     \/ /\ storageFaults < MaxStorageFaults
        /\ storageFaults' = storageFaults + 1
        /\ excused' = excused \union (queue \ local)
        /\ UNCHANGED local
  /\ UNCHANGED <<page, found, early, idb, loads>>

\* enqueueOutbound.
Enqueue(t, m) ==
  /\ m \notin written
  /\ written' = written \union {m}
  /\ foreign' = [u \in Pages |-> IF u # t /\ Usable(u) THEN foreign[u] \union {m}
                                 ELSE foreign[u]]
  /\ Persist(t, memory[t] \union {m})
  /\ UNCHANGED delivered

\* removeOutbound, when the server has the message.
RemoveSent(t, m) ==
  /\ m \in memory[t]
  /\ delivered' = delivered \union {m}
  /\ Persist(t, memory[t] \ {m})
  /\ UNCHANGED <<foreign, written>>

\* bumpAttempt.
Bump(t) ==
  /\ memory[t] # {}
  /\ Persist(t, memory[t])
  /\ UNCHANGED <<foreign, written, delivered>>

-------------------------------------------------------------------------------
(* IndexedDB, in its time, and the end of a page.                          *)

PutDone(t) ==
  /\ puts[t] # << >>
  /\ idb' = Head(puts[t])
  /\ puts' = [puts EXCEPT ![t] = Tail(@)]
  /\ excused' = excused \union foreign[t] \union (IF t \in early THEN memory[t] \ idb' ELSE {})
  /\ UNCHANGED <<page, found, early, memory, foreign, local, written, delivered, loads, storageFaults>>

\* Unavailable or full: idbPut says nothing of it.
PutFails(t) ==
  /\ puts[t] # << >>
  /\ storageFaults < MaxStorageFaults
  /\ storageFaults' = storageFaults + 1
  /\ puts' = [puts EXCEPT ![t] = Tail(@)]
  /\ excused' = IF idb # {} THEN excused \union (memory[t] \ idb) ELSE excused
  /\ UNCHANGED <<page, found, early, memory, foreign, local, idb, written, delivered, loads>>

\* Closed, reloaded or crashed.  What was still to be put is lost, and matters
\* if IndexedDB has something older.
ClosePage(t) ==
  /\ page[t] # "closed"
  /\ page' = [page EXCEPT ![t] = "closed"]
  /\ memory' = [memory EXCEPT ![t] = {}] /\ found' = [found EXCEPT ![t] = {}]
  /\ early' = early \ {t}
  /\ puts' = [puts EXCEPT ![t] = << >>]
  /\ foreign' = [foreign EXCEPT ![t] = {}]
  /\ excused' = IF puts[t] # << >> /\ idb # {} THEN excused \union (memory[t] \ idb) ELSE excused
  /\ UNCHANGED <<local, idb, written, delivered, loads, storageFaults>>

StorageNext ==
  \E t \in Pages :
    \/ OpenPage(t) \/ ReadIdb(t) \/ LoadEarly(t) \/ HydrateQueue(t) \/ ClosePage(t)
    \/ PutDone(t) \/ PutFails(t) \/ Bump(t)
    \/ \E m \in Notes : Enqueue(t, m) \/ RemoveSent(t, m)

StorageSpec == StorageInit /\ [][StorageNext]_storageVars

-------------------------------------------------------------------------------
(* Properties.                                                             *)

\* A message that has not been sent is in the queue of a tab, or is found by the
\* next page load, even when the page closes before IndexedDB has it.
\* Excepted: IndexedDB then has an older queue, which is preferred; another tab
\* has saved its own queue over it; a write to storage failed; the tab was used
\* before its queue was loaded.
KeptOverReloads ==
  Unsent \subseteq (UNION {memory[t] : t \in Pages}) \union Taken(idb) \union excused
===============================================================================
