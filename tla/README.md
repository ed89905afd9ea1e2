# Nexa: a TLA+ verification project

Nexa is a messenger: a React web client, an API gateway, a WebSocket gateway and a dozen
FastAPI services over Postgres, Redis and NATS. This directory holds TLA+ modules for the parts
where several processes, retries or failures meet, TLC runs that check them on small instances, and
TLAPS proofs of nearly all their safety properties, for instances of any size. Paths below are relative to the repository (`src/`).

## 1. The system

| Component | State | Operations | Where |
| --- | --- | --- | --- |
| chat-service, sending | rows of `messages`, `conversation_sequences.next_seq`, members, bans, moderation memory per process | POST messages: check, moderate, store, announce | `backend/chat-service/app/api/routes.py`, `db/repository.py`, `services/moderation_engine.py` |
| chat-service, scheduled messages | rows of `scheduled_messages` | create, cancel, 15 s delivery loop in each replica | `backend/chat-service/app/main.py` |
| chat-service, spaces | members, roles, bans, settings | add, leave, ban, mute, set role | `db/repository.py`, `services/group_service.py` |
| WebSocket gateway | live connections per node, Redis registry, retry stream | auth, subscribe, send, typing, presence, fan-out | `backend/ws-gateway`, `backend/shared/nexa_shared/realtime` |
| auth-service, sessions | rows of `sessions` and `qr_sessions` | login, QR pairing, refresh, logout, revoke | `backend/auth-service/app/services/token_service.py`, `api/session_routes.py`, `db/repository.py` |
| auth-service, login | lockout counters in Redis, 2FA challenges, codes | check, record failure, reset | `services/login_protection_service.py`, `api/auth_routes.py` |
| web client, outbox | queue in memory, localStorage and IndexedDB; optimistic rows | sendText, flushes, answers | `frontend/web/src/realtime`, `frontend/web/src/offline` |
| web client, session | refresh cookie, cached session | refresh on load and on 401 | `frontend/web/src/api/auth.ts`, `client.ts` |
| web client, catch-up | the list shown, the offline cache, a last-seen cursor per conversation | after_seq pages, live frames, opening, 25 s refresh, scrolling up | `frontend/web/src/realtime/sync.ts`, `offline/offlineSync.ts`, `store/ChatContext.tsx` |
| web client, end-to-end encryption | ratchet states and sender-key records in IndexedDB; sender keys posted to the server | encrypt, decrypt, post and fetch a sender key | `frontend/web/src/security/e2ee.ts`, `senderKeys.ts` |
| media-service and the client's uploads | uploads in the memory of each replica, chunks on disk, assets; resume records in localStorage | init, status, chunk, complete; send a file or a voice message | `backend/media-service/app`, `frontend/web/src/media/resumableUpload.ts`, `store/ChatContext.tsx` |
| calls | rooms in call-service; an engine and a dialog in each browser | start, accept, reject, end; offers, answers, microphones | `backend/call-service/app`, `frontend/web/src/calls` |
| PIN screen | `pin_status` of the user, `pin_verified_at` of each session, claims of the access cookie, the screen of each page | set, enter, lock everywhere, time out, refresh, cancel | `frontend/web/src/store/LockContext.tsx`, `backend/auth-service/app/api/pin_routes.py`, `backend/api-gateway/app/middleware/security.py` |
| recording | a gesture, a recorder, a review | hold, slide, release, send, discard | `frontend/web/src/components/chat/MessageComposer.tsx`, `VoiceRecorder.tsx`, `VideoNoteRecorder.tsx` |
| decisions about chats | the list and its flags in each tab, the vault in localStorage, `hidden` of `conversation_members` | hide, archive, clear, edit, delete; merge a list, load and save the vault | `store/ChatContext.tsx`, `security/chatVault.ts` |
| privacy seal | flags of each tab, what it shows, an entry of localStorage | capture, lock, unlock, go away, come back, mirror | `security/privacySeal.ts`, `hooks/useScreenshotPrevention.ts` |
| contact-service | rows of `contact_requests` and blocks; a conversation in chat-service for each request | send, accept, decline, cancel, block | `backend/contact-service/app` |
| presence, notifications, profiles, AI, emoji, stories | see `PROJECT.json` | | `backend/*-service` |

**How they interact.** The client sends a message over its WebSocket (the gateway turns the frame into
a POST and answers `message.send.ok` or `message.send.failed`) or by REST through the API gateway.
chat-service commits the row, publishes `message.new` to the members' gateway nodes, and calls the
notification service. contact-service has chat-service create a locked conversation for a request, and unlock or
archive it when the request is answered. Clients that were away fetch rows by sequence number. auth-service issues the
tokens everything else only verifies by signature. Production runs chat-service as three replicas
(`infrastructure/k8s/overlays/prod/kustomization.yaml:24`) and auth-service as two
(`infrastructure/k8s/base/services.yaml:14`), media-service also as two (`:274`), so every request handler may run beside another of its
kind in another process.

**What is hard.** (a) Retries: one message reaches the store up to six times at once, by socket and by
REST. (b) Requests made of several transactions (login, pairing, scheduled delivery, refresh, roles and
owners, contact requests) that interleave with each other and are cut short by crashes. (c) Answers lost after the server acted.
(d) State per process (moderation memory, WebSocket connections) behind several replicas. (e) JavaScript
callbacks that read a queue, a key or a call, await, and write it back. (f) Messages, frames and answers that
come in another order than they were sent, to state that moves on with each. `PROJECT.json` lists each hazard at its line, with
the properties that would catch it, or why none does yet.

## 2. The modules

| Module | Models | State in the code |
| --- | --- | --- |
| `Timeline` | what a conversation promises its readers: an append-only log, each message at most once, announced after it is stored and at most once | abstract |
| `ChatSend` | concurrent POSTs to one conversation | `rows`, `nextSeq`, `seqLock`: tables and the row lock of `next_message_seq`; `recent`: `ModerationEngine`; `pc`, `req`, `mySeq`: each handler's place and locals |
| `ChatSendProofs` | its theorems | |
| `ScheduledMessages` | "send later" for one author and conversation | `itemStatus`: the row; `loopAt`, `round`: each replica's `_scheduler_loop`; `copies`: rows stored for an item |
| `Outbox` | the client's queue, its flushes, the socket, the screen, and chat-service behind them | `queue`: `memoryQueue`; `todo`, `live`: each `flushOutboundQueueRest` and whether it iterates the current array; `frames`, `replies`: the socket; `rest`: fetches under way; `seen`: moderation memory |
| `QueuesProofs` | theorems about `Outbox` and `ScheduledMessages` | |
| `Sessions` | the session table of one user | `byAge`, `revoked`: rows by `last_used_at`; `code`, `linked`: `qr_sessions`; `at`, `asked`, `todo`: each request between its calls |
| `SessionsProofs` | its theorems | |
| `TokenRefresh` | refresh calls of one browser against one row | `hash`, `revoked`: the row; `cookie`, `signedIn`: the browser; `sent`, `fresh`: each call |
| `Delivery` | one user's WebSocket connections on several gateway nodes and an event's way to them | `registry`, `ttl`: the Redis set and whether it expires; `local`: every node's `ConnectionManager`; `at`, `node`: each `handle_connection`; `fan`, `route`: each `fanout_event`; `channel`: the nodes' Pub/Sub channels |
| `DeliveryProofs` | its theorems | |
| `CatchUp` | how one conversation's list becomes and stays what the server has | `cursor`, `cache`: localStorage and the offline cache; `list`: `apiMessages`; `sync`, `visit`, `older`, `late`: each call under way; `frames`: the socket |
| `Ratchet` | direct messages under the Double Ratchet | `ratchet`: `dr-state` in IndexedDB; `task`: each `encryptMessageDR` and `decryptMessageDR` between load and store; `sent`, `opened`: the conversation |
| `SenderKeys` | group messages under sender keys | `own`, `peer`: the records in IndexedDB; `posted`: the server's distribution; `working`: operations under way |
| `MediaMessages` | files and voice messages, from the row on the screen to the stored message | `step`, `sealedAt`, `upload`, `have`: each send between its awaits; `saved`: localStorage; `uploads`, `assets`: `MediaStore` of the replicas; `pendingId`, `shows`: the rows |
| `Encryption` | `Ratchet`, `SenderKeys` and `MediaMessages` as the ways to encrypt one conversation | `kind`: what is sent |
| `EncryptionProofs` | theorems about the three | |
| `LoginProtection` | the counting of wrong passwords under one login id, an e-mail address or a user name | `loginId`: which of the two; `ipState`, `account`, `knownIps`: its keys in Redis; `try`: each `POST /login` between its Redis calls; `resetAt`: `POST /reset-password` |
| `Members` | who is in a space, in which role | `role`, `here`, `banned`: `conversation_members` and bans; `change`: each request between what it read and what it writes |
| `Contacts` | the contact requests between two users | `status`, `noted`: `contact_requests`; `made`, `locked`, `archived`: chat-service's conversations; `askAt`, `reply`: each request between its calls |
| `QrLogin` | a new device that polls for its approval | `qr`: the row of `qr_sessions`; `poll`: each poll's step and the row it read; `scanAt`, `live`: approvals and their sessions; `shown`, `told`, `kept`: the page, the session it was told of, the refresh cookie |
| `QueueStorage` | the outbox in browser storage | `memory`: `memoryQueue` of each tab; `local`, `idb`: the copies; `puts`: IndexedDB writes under way; `page`, `found`, `early`: a page load |
| `Queues` | `Outbox` and `ScheduledMessages`: the two queues a message may wait in | `kind`: which of them |
| `Background` | `CatchUp` and `TokenRefresh`: what a client does unasked and must come to an end with | `kind` |
| `BackgroundProofs` | theorems about `CatchUp` and `TokenRefresh` | |
| `Services` | the five above that begin with `LoginProtection`, as requests that several calls to a database (or to browser storage) serve | `kind`: which of them |
| `ServicesProofs` | theorems about `LoginProtection`, `Members`, `Contacts`, `QrLogin` and `QueueStorage` | |
| `Calls` | two users, their browsers and call-service | `room`: `CallStore`; `engine`: `CallEngine`; `incoming`, `active`: `CallProvider`; `running`: each function between its awaits; `wire`: the socket of each |
| `AppLock` | the PIN screen of one user's devices | `pinStatus`: the user's row; `pinVerified`: `pin_verified_at`, while it counts; `claim`: the access cookie; `lockState`, `verifiedRef`: `LockContext`; `request`: every request under way; `lockFrame`: the `session.lock` event |
| `Recorder` | the hold-to-record button and its two recorders | `press`: the pointer; `recordingMode`, `recordingRef`, `lockedRef`: `MessageComposer`; `take`: each recorder between the prompt, `stop` and `onstop` |
| `ChatVault` | what is decided about chats in the tabs of a browser | `chatPage`: the list, `hiddenChatIds` and mutations of each tab, and whether a save is due; `vault`: localStorage; `answer`, `patches`: lists and PATCHes under way |
| `PrivacySeal` | what covers the tabs of a browser | `view`: the module state of `privacySeal.ts`, the root's style and LockContext's screen; `guard`: `useScreenshotPrevention`; `unlockedKey`, `mirrors`: `_nxgu` and its storage events |
| `Browser` | `Calls`, `AppLock`, `Recorder`, `ChatVault` and `PrivacySeal`, as what a browser does besides messages | `kind`: which of them |
| `BrowserProofs` | theorems about `Calls`, `AppLock`, `Recorder`, `ChatVault` and `PrivacySeal` | |

`ChatSend` composes with `Timeline` by refinement (`log <- rows`). `Outbox` uses what `ChatSend`
establishes: it models chat-service as a set of stored messages, which `ExactlyOnce` (section 4)
justifies, plus the moderation memory that answers first. `Sessions` leaves out which token a session
accepts and `TokenRefresh` is that part, for one session. What `ChatSend` announces, `Delivery` carries to the
readers; the registry does not depend on the message, so the two are separate. `CatchUp` reads the log
`Timeline` describes: rows appear at its end and stay. `Encryption` composes `Ratchet`, `SenderKeys` and
`MediaMessages` in one specification; the code shares no state between them, so a behaviour is of one of them, chosen by
`kind`. `Services` does the same for `LoginProtection`, `Members`, `Contacts`, `QrLogin` and `QueueStorage`, whose
rows and keys are apart, `Browser` for `Calls`, `AppLock`, `Recorder`, `ChatVault` and `PrivacySeal`, and `Queues` and `Background` for the
pairs that have liveness. `PrivacySeal` has the screen of the PIN as one that comes and goes; who may enter it is `AppLock`'s. `QueueStorage` is the part of the outbox `Outbox` leaves out: there the queue never leaves memory. `Members` is how one comes to send or not in `ChatSend`, which lets members and bans change at any moment.

**Granularity.** In Python services an action is one await that touches shared state: a database
statement, transaction or Redis call. In `ChatSend` the transaction is split into its statements, since READ
COMMITTED lets other handlers see and commit rows between them; the counter's row lock is explicit. In the
client an action is one callback, up to its next await.

**Data.** A message is its `client_msg_id`; its body is the same idea (equal ids, equal bodies).
Keys are symbols: a ratchet's key is the sequence of exchanges mixed into it, a message key is a chain with a
position, and a message opens when its reader arrives at the key its author used.
Clocks are left out: whatever a clock decides (slow mode, expiry, due times) may happen at any moment. The exceptions
are `MediaMessages`, where the millisecond is part of names, and `LoginProtection`, where locks end.
Bounds are named: `Max...` constants cap faults, drops and rotations in the guards of the actions
that count them, and stand for no limit of the code, except `MaxAttempts` (5 in
`queuedSend.ts`), `Window` (5), `Cap` (5), `BatchSize` (50), `MaxSkip` (1000) and the page sizes of `CatchUp` (200, 30,
50, 30), which do and are smaller in the runs.

**Slips.** A definition marked "slip" in a comment is wrong on purpose: a variant of the definition
after it, as a plausible bug would have it. `PROJECT.json` ("mutants") names for each property a slip
that breaks it; nothing else uses them.

## 3. The runs

| Run | Instance | Shows |
| --- | --- | --- |
| `chat_send` | 2 handlers in 2 processes, 1 author, 2 messages, window 1 | sequence numbers gap-free and in order, one row per message, one announcement, answers that agree, refinement of `Timeline`, no request waits for ever |
| `outbox` | 2 messages, anti-spam on, threshold 1, 1 trouble: a lost connection, a server fault or a restart | a queued message is not dropped before it is stored, whichever of its overlapping sends is answered |
| `queues` | 2 scheduled items, 2 replicas, batches of 2, 2 faults; or 1 queued message, anti-spam on, threshold 5, 2 troubles | how many copies, a cancellation that holds unless a round was at work, every due item leaves the queue; a queued message is sent and leaves the queue in the end, through lost connections, unless a server fault counted against it or a lost connection took its "ok" |
| `sessions` | 4 requests, 1 code, cap 2, 1 refresh at a time, 1 crash | the number of sessions, one device per code, revocation is final |
| `services` | 2 addresses, 3 attempts of which 2 at once, 2 wrong passwords to a lock, 2 strikes, 1 reset, 1 tick, 1 request that breaks off; or 3 people with every choice of owners, 2 requests; or 2 requests of contact, 3 answers, 1 failure; or 2 approvals, 2 polls, 1 lost answer; or 2 tabs, 2 messages, 2 page loads, 1 storage fault | wrong passwords count, and an account is locked for as many as it has strikes; a space has an owner, the banned stay out; two services agree on a request; a paired device is and stays signed in; the queue outlives its pages |
| `delivery` | 2 connections, 2 nodes, 1 event, 2 faults | an open connection is registered, gets the event, and gets it once; the registry empties after the last one |
| `background` | 2 tabs, 4 rotations, 1 lost call; or 3 rows, 1 of them old, pages of 1 and 2, 1 connection, 1 visit, 1 scroll, answers 1 row behind | signed in until revoked, signed out once revoked; catch-up pages without holes; the list of an open conversation becomes the newest page and stays so |
| `encryption` | 2 devices with 2 operations each; 4 direct messages, 1 skippable key; 3 group messages; 2 sends of 2 chunks over 2 replicas, 2 milliseconds, 2 mishaps | what can be read, that keys are used once and then gone, that a member's own sender-key chain advances and its peers keep up; that a file's message names the whole file, why a send fails, which row it lands in |
| `encryption_advances` | group messages only, one operation at a time | violated, see below |
| `browser` | 2 users, 2 calls, 4 buttons pressed, 1 lost frame; or 2 devices, 2 requests at once, 4 events of users, clocks and failures; or 2 takes; or 1 chat, 2 tabs, 2 decisions, 1 failure; or 2 tabs, 6 turns | offers are answered in calls picked up, nobody is left behind in one that is over, a picked-up call connects; an unlocked screen agrees with the session and the cookie; the microphone is on while a take is held or locked, and what was given up is not sent; a decision about a chat stays; a page is black for a reason, and one that can be removed |
| `returns_black` | 2 tabs, 6 turns | violated, see below |
| `calls_pickup` | 2 users, 2 calls, 4 buttons pressed | violated, see below |

**Why the bounds are enough.** The conflicts in this code are between two: two handlers of one message, two
replicas with one item, two approvals of one code, two tabs with one cookie. Two of each, with
one more action or fault to disturb them, reach every such conflict; four requests in `sessions` are
needed for a login beyond the cap beside two approvals. `Window = 1` makes the moderation memory both
remember and forget. In `outbox`, threshold 1 exhausts attempts with two messages in the queue, states that differ only in
what the screen shows of a written message count as one (a VIEW), since nothing reads it back, while
`queues` has the real threshold. Four rotations let each tab refresh after both have once. A refresh touches
only its own session, so one at a time still puts the sessions in every order. In `delivery`, two connections
on one node or on two are the cases fan-out tells apart, and two faults leave a key behind that nobody expires.
In `background` a page of one row makes every row a page boundary, where cursor and pages can disagree; the refresh has
pages of two, so that its list has an order; and three rows are one more than it shows. In `encryption`, four direct
messages are two of one chain and one each of two others, with one skippable key a gap that is allowed and one that is
not; three group messages are the fewest in which a replaced key is used twice; one failed send and its retry, or two
sends at a time, with two chunks to mix, are the conflicts of uploads. In `services`, three
wrong passwords are a lock and the one after it, from one address or two; three people are an owner, who may leave, a
second owner or an heir, and a third to choose from; two requests of contact are two of one user or one of each. In `browser` four buttons are a call, its end, another call and
its pick-up; four events let each of two devices enter the PIN and one be locked, refreshed or failed beside it; a second take is one
begun while the first ends; two decisions are one and its reversal, or its deletion, with a tab, a save or a list between them; six turns are a
capture, its lock and the PIN with going away and coming back. For the properties proved in section 4 no bound matters.

**Violations.** Three runs check what a comment or a text of the program says and what the code does not do; each is a finding in
`PROJECT.json` with the trace in words:

- `encryption_advances`: "chain key advances per message" (`senderKeys.ts:5`). Reading a peer's message files the peer's
  record as the reader's own, and the reader's next messages use one key;
- `calls_pickup`: no offer is answered before the user has pressed Accept (`CallEngine.ts:49`). A call accepted, ended by
  its caller and placed again while the microphone prompt is open has its second offer answered;
- `returns_black`: coming back leaves "never a dead black screen" (`privacySeal.ts:384`). The PIN puts away the screen of a
  sealed page and leaves the seal, and there is nothing left to click.

**Known exceptions.** Properties name what the code does not prevent instead of leaving it out; a few more
disagreements were met while modelling and have no run:

- scheduled delivery skips `assert_can_send`: the item of a muted or otherwise restricted author is delivered
  (`chat-service/app/main.py:50`); a banned author's is not, since the ban ends the membership that `send_message` asks for;
- of a message stored and answered "ok" over a connection that drops, every retry is refused as a duplicate: the item stays queued
  and its bubble says so, though everybody has it (`unheard`);
- one outage can use up all attempts of a queued message within one connection, and it is then skipped for ever
  (`offline/queuedSend.ts:50`), while the banner promises to send it when back online (`OfflineBanner.tsx:18`); and a send that
  fails after chat-service remembered its body and before it stored the message has each retry refused as a duplicate
  (`moderation_engine.py:77`): `OutboxDrains` excepts both (`faults`);
- wrong passwords are counted under the name as it was typed, an e-mail address or a user name (`auth_routes.py:122`), and a
  password reset clears the keys of the e-mail address (`login_protection_service.py:149`): an account locked by its user name
  stays locked under it, though it is told "Reset your password to sign in again" (`auth_routes.py:153`);
- a refresh that read the user (`token_service.py:132`) before the PIN was set may answer last, with a cookie that still asks
  for the set-up: the page is open, each request of it is refused PIN_SETUP_REQUIRED, and `handlePinRequired` takes the
  refusals for stale ones (`LockContext.tsx:286`); `ScreenAgrees` excepts it (`excused`);
- of two overlapping sends of one message the second is refused as a duplicate body, and the stored message is shown as
  "Not sent" (`moderation_engine.py:58`);
- a login beside a pairing leaves more than the two sessions of the "MAX-2 INVARIANT" (`session_routes.py:257`);
- an answer lost after the rotation signs the browser out at its next refresh (`api/auth.ts:307`);
- two users whose first messages cross never read each other's ratchet again (`Crossed`), two operations of one
  device at once lose what one of them wrote (`overwritten`, `overlapped`), and a chain is left behind by a gap
  beyond `MaxSkip` (`TooLong`);
- files sent in one millisecond share a row, and, of equal size, an upload; a failed media send is shown as sent
  (`ChatContext.tsx:1459`);
- login attempts that overlap read one counter and write one increment, and one that overlaps a reset or a login may write
  its strikes back (`raced`, `straddled`); one that breaks off between its two writes locks the address and loses the strike;
- two owners who leave at once leave a space without one, and an owner may be banned or demote themselves (`unowned`); one
  who was asked back is an owner again, beside the heir (`repository.py:442`);
- an invitation or a join that read the bans before a ban may be written after it (`stale`);
- a contact request answered before it names its conversation leaves that conversation locked or in the list for good, and
  so does a failed call (`disturbed`); after a declined request, whose row may be the first that the check
  finds (`contact_repository.py:40`), a user may have two pending ones;
- a QR code approved twice, or polled twice with the first answer lost, leaves a device waiting for a session that exists
  (`session_routes.py:212`);
- a page load prefers IndexedDB's queue, even when it is the older one, to localStorage's; a tab saves its own queue over
  another's; and the page writes before it has loaded when `bootstrapSecurity` fails (`offlineQueue.ts:46`,
  `SessionGate.tsx:15`);
- a browser that is in one call while another comes or ends may clean up or answer the wrong one (`overtaken`);
- an active user is asked for the PIN at the first refresh 10 minutes after entering it, since auth-service counts from the
  entry (`token_service.py:48`) and the page from the last activity (`LockContext.tsx:62`); a page loaded meanwhile believes its
  cookie; and an entry, a lock or a refresh that others overtook, a PIN set between a refresh's two reads included, leaves page,
  cookie and row apart (`excused`);
- a screenshot over the PIN screen replaces it by one that a click closes (`LockContext.tsx:83`), until the next refusal;
- after "clear chat" or "delete" the chat shows no message that comes later (`ChatContext.tsx:279`: `clearedConversations` is
  only added to), though the comment on it says it "clears all message history but keeps the chat" (1597); a chat deleted, blocked
  or removed is back with the next list; edits, recalls and pins of messages are kept in this browser only; of two open tabs the last
  to save wins (`unsure`);
- a page sealed by another tab's storage event, or under a PIN screen, stays black until it is reloaded; an unlock elsewhere and
  navigation uncover a tab in the background; Ctrl+Tab with one tab blacks out a page that never loses focus; a touch the system
  takes over leaves the guard up (`odd`, `cancelled`, `leaving`);
- a second device at the PIN-creation step may set the PIN again, or delete the account after the check that it is still
  pending (`pin_routes.py:231`);
- "on release → auto-send" (`MessageComposer.tsx:126`): released while the recorder is being loaded or the permission prompt is
  open, the take begins afterwards and goes on without controls until the 5 minutes are over; slid away, edited over or left
  then, its microphone stays on for good (`early`).

**Exceptions in `Delivery`.** `Findable` and `Reached` name what the code does not prevent, instead of leaving
it out. A page reload may register its new connection between the old one's SCARD and DEL, and is then in
no registry until it reconnects: a ping's EXPIRE does not restore a key (`exposed`). The key may expire between a
connection's SADD and EXPIRE (`exposed`), or because the browser stopped every timer that pings (`suspended`). A node
that dies between the two calls may leave a key that never expires (`torn`). An event published while a listener
or a Redis call fails may be lost; the client fetches it later by its sequence number.

**Fairness.** `ChatSend`: strong fairness of each handler, since asyncio resumes every coroutine that is
ready and Postgres grants a row lock in the order of its waiters; weak fairness would let a handler starve
at the lock. `ScheduledMessages`, in `Queues`: weak fairness of each replica's loop, which sleeps 15 s and goes on.
`Outbox`: weak fairness of each request's answer (fetches end, with an error if nothing else), of the gateway, of
the client's callbacks and of `Connect`, because `onclose` sets a timer each time; none for writing,
dropping, refreshing or failing. `TokenRefresh`: of each call's progress, and of sending a refresh, because an access
token lasts 15 minutes. `Queues` and `Background` assume what their two parts do and no more. `Delivery`: of each handler's
Redis calls and each publication's, of the nodes' listeners, and of the key's expiry, which is a clock; none for
connecting, closing, falling silent or failing. `Sessions`, `LoginProtection`, `Members`, `Contacts`, `QrLogin` and `QueueStorage` have no liveness property. `Services`, `Background` and `Delivery` are
checked without deadlock checking: bounds on requests stop the first two, and the other stops when each connection, which has an
id of its own, has come and gone. `CatchUp`: of the refresh, which an interval asks for every 25 s while the
conversation is open; of nothing else, so no other call is needed for `Converges`. `Encryption` and `Browser` have no liveness
property: a message a receiver never decrypts and a call nobody answers are no faults. These three are checked
without deadlock checking too: they stop when what their bounds allow has been sent, shown or pressed.

## 4. The proofs

Eight modules hold proofs; in each, an inductive invariant is shown to hold initially and to be kept by every
action, one lemma per action or kind of action, and the properties that the runs check follow from it. TLC checked each
invariant on the instance of the run, or on a smaller one, before it was proved. The constants are assumed what the
`ASSUME`s of the modules say: null values that are members of no set they stand beside, bounds that are
natural numbers, a set of replicas and of members that is finite, a batch, a page, a cap and a window that are positive, limits and
lockouts of logins that are; calls are between two users. Apart from these, sets may have any size, and the bounds on faults, retries and turns any value.

**`ChatSendProofs`**, the store.

- `Invariance`: `Spec => []IInv`. `SeqsContiguous` and the others are not inductive: that an insert
  lands at `nextSeq` depends on the handler holding the lock and having read the counter under it; that an
  announcement is the first depends on no other handler being about to announce the same message. `HandlersAgree`
  says this: who holds the lock, what each handler has in hand, and that at most one is about to announce
  a message. `IInv` joins it to the type and to the properties (`StoredOnce` and
  `AnnouncedOnce` among them); TLC checks it in `chat_send`.
- `NoGaps`, `ExactlyOnce`: `SeqsContiguous`, `StoredOnce`, `AnnouncedOnce`, `AcksMatchStore`.
- `Refinement`: `ChatSend` implements `Timeline`. `Commit` is `Store`, `Announce` is `Announce`, every other
  step, crashes and rollbacks included, is a stutter.

**`QueuesProofs`**, the two queues.

- `QueuedUntilStored`: `Spec => KeptUntilStored`. An item leaves the outbox by an answer "ok", so `OutboxInv` says that
  every "ok" under way, on the socket or by REST, is about a stored message, and what the queue's arrays are: that
  filtering them (`Keeping`) loses nothing else is the lemma `Filtered`.
- `ScheduledCopies`, `ScheduledCancellation`: `CopiesExplained`, `CancelledUnsent`. `CopiesCounted` counts, for each item,
  the replicas that may have stored it and have not marked it (`PastStore`) and those that hold it and have still to come
  to it (`Ahead`): before the first mark every copy belongs to one of the former or to a fault, after it none takes the
  item up anew.
- `QueuesHold`: both in the composition that `queues` runs.

**`SessionsProofs`**, the sessions of a user.

- `WithinCap`: `SessionCap`. The number of rows follows from what would be left of them if any set of the requests that are
  revoking died now and all others ran to their end (`CapSound` quantifies over that set): a listing leaves at most the cap,
  a crash one more for each request it cuts short, and a request that has not listed yet has its own session.
- `OneDevicePerCode`: `OneSessionPerCode`. `CodeSound`: a session that a code made, if it is not the one the code names, is
  on the list of what that one's request revokes, or that request has still to list, or crashed; that holds because an approver
  is not itself let in by the code while the approval can still be written.
- `RevocationFinal`: `RevokedForGood`, which needs no invariant.

**`DeliveryProofs`**: `RegisteredWhileOpen` and `AtMostOnce`, which are `Findable` and `DeliveredOnce`. `RegistryHolds` adds that
nobody is owed an entry while a connection is between its SCARD and its DEL; `Unique`, that an event is on its way to a
node, in the node's channel or delivered there, and in one of these places only.

**`BackgroundProofs`**: `RefreshKeepsSession` (`StaysSignedIn`) and `CatchUpWithoutHoles` (`CatchUpContiguous`), and
`BackgroundHolds` for their composition. `TokensAgree` says when row and cookie hold one token; `Pages`, that what a
catch-up got is a range which ends where the next page begins.

**`ServicesProofs`**: `SpaceHasOwner` and `BansHold` (`HasOwner`, `BannedStaysOut`; `StillTrue` is what a request that has
not gone stale may rely on), `ContactsAgree` (`ServicesAgree`; `Consistent` relates request, conversation and the one answer
at work), `PairedKeepsSession` (`PairedStaysSignedIn`; `TokenHeld` says where the one token is), `QueueSurvivesReloads`
(`KeptOverReloads`; `StorageInv` says which copies have what must not be lost, `LastPut` what an IndexedDB write under way
brings), `StrikesHold` (`StrikesEarned`), and `ServicesHold` for the composition that `services` runs. `StrikesHold` rests on
`LoginInv`, which has two halves. `StrikesInv` holds however requests overlap: the strikes of the account, and those an attempt has
computed and has still to write, are no more than the wrong passwords since the account was last cleared, unless an attempt
straddled the clearing. `CountInv` holds while requests come one at a time: what Redis holds of an address is
what the number of its wrong passwords, modulo `MaxAttempts + 1`, makes of it (`Remembers`: so many failures, the first lock, or the
lock after), what an attempt has read is still so (`TryKept`), and the strikes of the account are those `earned` since it was cleared
(`LedgerKept`), wherever a request broke off (`BreakCounts`) and whether or not a reset knew the name (`AccountCleared`).

**`BrowserProofs`**: `PickupHolds` (`PickupKept`; `EngagedPicked` and `FunctionsPicked` say that a browser takes part, or may by
the end of a function, only in a call its user picked up), `ScreensAgree` (`ScreenAgrees`; `RefBacked`, `RefreshTrue`, and `ReadsTrue`, which
says what a refresh between its two reads may know of the PIN),
`RecordsOnlyHeld` (`RecordsWhileHeld`; `OneLive`, `ActiveHeld`, `RefusedUnsent`), `ChoicesHold` (`ChoicesKept`), `CoverHolds`
(`CoverKept`; `Sound` of each tab), `CallsHold` (`CallsSettle`), and `BrowserHolds` for all six in the composition that `browser` runs. `ChoicesHold` rests on
`Kept`: every tab that has read the vault has the decision, and so has the vault unless a tab is about to save it; and on
`HidingKept`: of a chat's hiding, the server has the decision too, or a PATCH is to bring it and every tab has the chat on its
list meanwhile, so that a list read before the PATCH changes nothing. `CallsHold` rests on `SettleInv`, which says of states in which
frames and functions are still under way what is to come of them. `InStepWithCall` speaks of one browser: its functions are about the
call it is in, and if that call is over, or it is in none and still shows or rings with one, a `call.ended` is on its way. `Shaking`
speaks of the last call, if it is not over: of the browser that placed it and the other, each has the other's description or it is
to come (`Handshake`), which for an offer means that it is on its way behind the `call.incoming`, or kept until the callee accepts
(`OfferComes`). Both are claimed of browsers whose call was not overtaken, while no frame but a `call.accepted` was lost.

**`EncryptionProofs`**, direct messages, group messages and files.

- `MessagesInAnyOrder`, `MessageKeysOnce`: `AnyOrder`, `KeysUsedOnce`. They rest on two invariants. `KeysInv` speaks of one
  device at a time, and of every state it may come to store: the one in IndexedDB and those its encryptions and decryptions
  have read. `SendingInv` says that a chain grows from the device's own ratchet keys, `SentInv` that its messages are numbered
  along it, `ReceivingInv` that what a state receives with, or has set aside in `MKSKIPPED`, belongs to the peer's keys and
  that root keys only grow, `OpenedInv` that the key of an opened message is in neither. `SentInv` and `OpenedInv` are
  claimed of devices that never wrote over a state they had not read, the rest of all. `KeysUsedOnce` follows: a key is a
  chain and a number, a chain says whose ratchet keys made it, and a device that overwrote nothing takes each number once.
- `AnyOrder` relates the two devices. `InStep` says, while nothing was overwritten, which of four situations they are in:
  `Before` anyone wrote, `OneWrote` a first message, `BothWrote` (the crossing the property excepts), or one `Leads`, having
  made the last ratchet key, and the other `Follows` with the chain that the key began. In the last, `LeaderSent` and
  `OtherSent` say which messages either has sent along which chain, and `LeaderOwes` and `OtherOwes` where the key of each
  message still unread is: ahead on the receiving chain, among the skipped keys, or on the chain that the next ratchet step
  brings, up to `MaxSkip`.
- `SenderKeysAdvance`: `ChainsAdvance`. The property asks that a peer read the messages of a member's own chain as they come,
  and not that it could read old ones again. `GroupInv` says that whatever another device, the server or an operation under way has
  of a sound member's chain is the record it began with (`CopiesAreFirst`: as the code is, reading moves no stored record on), that
  such a member has generated one chain (`HasItsChain`), that each iteration of it encrypted one message (`SaidOnce`), and that what a
  device filed as a peer's record under its own name is of another's chain (`OwnPeerIsAnothers`).
- `FilesReadable`, `FailsForReason`, `RowsShowTheirs`: `MediaReadable`, `UploadFailsForReason`, `RowShowsItsMessage`, from
  `MediaInvariance`: `MediaSpec => []MediaInv`. That a stored message's asset is whole depends on what its upload was given
  while it lasted, by which sends, and that on which upload a send may find in localStorage. `UploadInv` says that only
  sends of files sealed in one millisecond share an upload; `ContentInv`, that each chunk of an upload or asset fits every
  send it belongs to; `ReasonInv`, why an upload is missing while a send still needs it, and that chunks the client
  believes written are written; `RowsInv`, which rows show what.
- `EncryptionHolds`: all six in the composition that `encryption` runs.

**Only model-checked.** Liveness (`RequestsEnd`, `OutboxDrains`, `DueLeavesQueue`, `Reached`, `OfflineInTheEnd`,
`Converges`, `RevokedSignsOut`) and whatever needs ENABLED, which the prover does not reason about. Every invariant and every
action property that the passing runs check is a theorem.

## 5. What is not modelled, and the plan

In the order in which it is to be built:

1. `Presence`: online and offline frames, sent by a loop over awaits while other connections of the user come and
   go; typing and subscriptions; the NATS consumer, which delivers beside Redis.
2. Group calls over LiveKit, ICE restarts, and rooms lost in a restart of
   call-service.

Left out for good: cryptography as such (primitives, passkeys, TOTP), the stateless forms of encryption (v2, v3, v4,
v7), image and video processing, the AI service, static data (emoji), and presentation, which is most of the repository's
lines: they compute values and coordinate nothing. Single-row last-writer-wins operations (edits, reactions, receipts,
drafts, profiles, blocks, mutes, settings of a space) have no protocol to check. Within the modelled components: device labels of sessions, message bodies, word lists and time; comparing passwords, 2FA challenges and codes; reading media, its signed URLs and the loss of the index of assets
in a restart of media-service; ICE candidates; what other conversations' lists do, which is the same again.
