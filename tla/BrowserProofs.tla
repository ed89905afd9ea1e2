----------------------------- MODULE BrowserProofs -----------------------------
(***************************************************************************)
(* Proofs about what a browser does besides messages: calls, the PIN       *)
(* screen, recording, decisions about chats and what covers the pages, for *)
(* any number of devices, tabs, takes, chats and requests.                 *)
(***************************************************************************)
EXTENDS Browser, SequenceTheorems, TLAPS

-------------------------------------------------------------------------------
(* Calls: an answer comes after the pickup.                                 *)

Engines == [call: Nat \union {None}, accepted: BOOLEAN, media: BOOLEAN,
            pc: {"none", "have-local-offer", "stable"}, linked: BOOLEAN, pendingOffer: BOOLEAN]
UnderWay == [at: {"creating", "media", "asking", "ended", "rejected"}, call: Nat \union {None}]
Frames == [name: {"call.incoming", "call.accepted", "call.ended", "offer", "answer"}, call: Nat]
CallTypeOK ==
  /\ engine \in [Users -> Engines]
  /\ running \in [Users -> [Functions -> {Done} \union UnderWay]]
  /\ wire \in [Users -> Seq(Frames)]
  /\ room \in Seq({"ringing", "active", "ended", "rejected"})

\* A browser whose user takes part, or may by the time a function is through.
Engaged(u) ==
  \/ engine[u].accepted
  \/ \E f \in {"start", "accept", "answer"} : running[u][f].at = "media"

\* The call that such a browser is in was picked up, but where it was overtaken;
\* so was the one that placing or accepting is about.
EngagedPicked ==
  \A u \in Users \ overtaken :
    Engaged(u) /\ engine[u].call # None => <<u, engine[u].call>> \in picked
FunctionsPicked ==
  \A u \in Users : \A f \in {"start", "accept"} :
    running[u][f] # Done => <<u, running[u][f].call>> \in picked

CallInv == CallTypeOK /\ EngagedPicked /\ FunctionsPicked /\ PickupKept

-------------------------------------------------------------------------------
(* Calls: what everybody is in once frames and requests are through.        *)

\* Frames in a sequence: a certain one, one of a name, one of a name after a certain one.
Has(s, frame) == \E i \in 1 .. Len(s) : s[i] = frame
HasNamed(s, name) == \E i \in 1 .. Len(s) : s[i].name = name
Followed(s, frame, name) ==
  \E i, j \in 1 .. Len(s) : i < j /\ s[i] = frame /\ s[j].name = name

\* No frame was lost that the end or the connection of a call depends on.
LittleLost == \A i \in 1 .. Len(lost) : lost[i].name = "call.accepted"

\* A browser with the engine e, the functions r and the frames s on their way to it, when
\* n calls have been placed and those of o are over: its calls are among the n, and after
\* the frame with a call that is over comes that of its end.
FramesNumbered(s, n, o) ==
  \A i \in 1 .. Len(s) :
    /\ s[i].call \in 1 .. n
    /\ s[i].name = "call.ended" => s[i].call \in o
    /\ s[i].name = "call.incoming" /\ s[i].call \in o =>
         \E j \in 1 .. Len(s) : i < j /\ s[j] = Frame("call.ended", s[i].call)
StateNumbered(e, r, n, o) ==
  /\ e.call \in (1 .. n) \union {None}
  /\ \A f \in Functions : r[f] # Done => r[f].call \in (1 .. n) \union {None}
  /\ r["leave"] # Done => r["leave"].call \in o \union {None}
  /\ r["start"] # Done => r["start"].call # None /\ r["start"].at \in {"creating", "media"}

\* The call it is in, or will be in once call-service has answered.
PlacedBy(e, r, c) == (r["start"].at = "creating" /\ r["start"].call = c) \/ e.call = c

\* Its functions are about that call, of the end of that call it has still to hear, and
\* out of a call it has nothing open, or has still to hear of an end.
InStepWithCall(e, r, s, shows, rings, o) ==
  /\ \A f \in {"accept", "answer"} : r[f] # Done => e.call = r[f].call /\ e.call # None
  /\ r["start"].at = "creating" => e.call = None
  /\ r["start"].at = "media" => e.call = r["start"].call
  /\ \A c \in o : PlacedBy(e, r, c) => Has(s, Frame("call.ended", c))
  /\ e.call = None => ~ e.media /\ (shows \/ rings # None => HasNamed(s, "call.ended"))

\* An offer is on its way to the other, or kept there.
OfferComes(f, t, c) ==
  IF f.call = c THEN f.pendingOffer \/ HasNamed(t, "offer")
  ELSE Followed(t, Frame("call.incoming", c), "offer")

\* The call c, placed by a browser with e, r, s while the other has f, q, t: each has the
\* other's description, or it is to come.
Handshake(e, r, rings, s, f, q, t, status, c) ==
  /\ rings = None /\ e.accepted
  /\ r["start"] # Done \/ e.media
  /\ f.call = c \/ (status = "ringing" /\ Has(t, Frame("call.incoming", c)))
  /\ q["start"].at = "creating" => q["start"].call # c
  /\ f.call = c => /\ f.accepted => f.media /\ ~ f.pendingOffer
                   /\ status = "active" => q["accept"] # Done \/ f.accepted
  /\ r["start"] # Done \/ OfferComes(f, t, c) \/ (f.call = c /\ f.linked)
  /\ \/ r["start"] # Done \/ e.linked
     \/ e.pc = "have-local-offer" /\ (OfferComes(f, t, c) \/ HasNamed(s, "answer"))

\* The last call, if it is not over and nothing was overtaken.
Shaking(u, v, c) ==
  /\ PlacedBy(engine[u], running[u], c)
  /\ \/ HasNamed(wire[u], "call.ended")
     \/ Handshake(engine[u], running[u], incoming[u], wire[u], engine[v], running[v], wire[v],
                  room[c], c)
LastCall ==
  Len(room) > 0 /\ Len(room) \notin over /\ overtaken = {} =>
    \E u \in Users : Shaking(u, Peer(u), Len(room))

SettleInv ==
  /\ over \subseteq 1 .. Len(room)
  /\ \A u \in Users : /\ FramesNumbered(wire[u], Len(room), over)
                      /\ StateNumbered(engine[u], running[u], Len(room), over)
  /\ LittleLost =>
       /\ \A u \in Users \ overtaken :
            InStepWithCall(engine[u], running[u], wire[u], active[u], incoming[u], over)
       /\ LastCall

-------------------------------------------------------------------------------
(* The PIN screen.                                                         *)

Ops == {"none", "status", "data", "setup", "verify", "cancel", "lock", "refresh"}
Steps == {"idle", "answer", "pin", "row", "clear", "publish", "read", "check", "delete"}
RequestType ==
  [op: Ops, of: Devices \union {NoDevice}, at: Steps,
   claim: {"setup", "locked", "open", "none"}, crossed: BOOLEAN]
LockTypeOK ==
  /\ pinStatus \in {"PENDING_PIN", "ACTIVE", "deleted"}
  /\ pinVerified \subseteq Devices
  /\ claim \in [Devices -> {"setup", "locked", "open", "none"}]
  /\ lockState \in [Devices -> {"active", "pin_setup", "pin_required", "screenshot_blocked"}]
  /\ verifiedRef \subseteq Devices /\ lockFrame \subseteq Devices /\ excused \subseteq Devices
  /\ request \in [Requests -> RequestType]
  /\ \A c \in Requests : request[c].op # "none" => request[c].of \in Devices

\* A lock has cleared the rows and not yet told the devices.
Publishing == \E c \in Requests : Waits(c, "lock", "publish")

\* Only a user with a PIN has entered it.
VerifiedActive == pinVerified # {} => pinStatus = "ACTIVE"

\* A refresh that nothing crossed brings what the row says.
RefreshTrue ==
  \A c \in Requests :
    Waits(c, "refresh", "answer") /\ ~request[c].crossed /\ request[c].of \in pinVerified
    => request[c].claim = "open"

\* A page that believes the PIN was entered has row and cookie believe so, or a
\* lock is on its way to it.
RefBacked ==
  \A d \in verifiedRef \ excused :
    (d \in pinVerified /\ claim[d] = "open") \/ d \in lockFrame \/ Publishing

LockInv == LockTypeOK /\ VerifiedActive /\ RefreshTrue /\ RefBacked

\* A refresh between its two reads knows of the user's PIN or of none, and one that
\* nothing crossed and that found none is of a user who has none.
ReadsTrue ==
  \A c \in Requests :
    /\ Waits(c, "refresh", "row") => request[c].claim \in {"setup", "locked"}
    /\ c \in FoundNoPin /\ ~request[c].crossed => pinStatus # "ACTIVE"

-------------------------------------------------------------------------------
(* Recording.                                                              *)

TakeType ==
  [at: {"none", "loading", "asking", "recording", "stopping", "over"},
   shown: BOOLEAN, here: BOOLEAN, video: BOOLEAN, discard: BOOLEAN]
RecorderTypeOK ==
  /\ press \in [at: {"up", "down", "held", "long"}, take: Nat]
  /\ videoMode \in BOOLEAN
  /\ recordingMode \in BOOLEAN /\ recordingRef \in BOOLEAN /\ lockedRef \in BOOLEAN
  /\ take \in [Takes -> TakeType]
  /\ takes \in 0 .. MaxTakes
  /\ review \in 0 .. MaxTakes
  /\ sentTakes \subseteq Takes /\ refused \subseteq Takes /\ early \subseteq Takes

\* A press holds a take from the timer on, and a locked take needs no press.
PressSound ==
  /\ press.at = "up" => press = Up
  /\ press.at = "down" => press.take = 0 /\ ~recordingMode
  /\ press.at \in {"held", "long"} => press.take \in 1 .. takes /\ take[press.take].here
  /\ lockedRef => press = Up

\* A take begins with nothing recorded, sent or refused.
NewTakes ==
  \A n \in Takes :
    /\ n > takes => take[n].at = "none" /\ n \notin refused \union early
    /\ take[n].at \in {"none", "loading", "over"} => ~take[n].shown
    /\ take[n].at # "over" => n \notin sentTakes /\ review # n
    /\ review = n => n \notin sentTakes

\* One recorder at most is on the screen or on its way there.
Live(n) == take[n].at = "loading" \/ take[n].shown
OneLive ==
  /\ \A n \in Takes : Live(n) => recordingMode /\ take[n].here
  /\ \A m, n \in Takes : Live(m) /\ Live(n) => m = n

\* A take that may record or does, and was not let go before, is held or locked.
Active(n) == take[n].at \in {"loading", "asking", "recording"}
ActiveHeld ==
  \A n \in Takes \ early :
    /\ Active(n) => Live(n) /\ (Held(n) \/ lockedRef) /\ recordingRef
    /\ press.at \in {"held", "long"} /\ press.take = n /\ recordingRef
         => Active(n) \/ take[n].at = "stopping"

\* What the user gave up is over or stops unheard.
RefusedUnsent ==
  \A n \in refused \ early :
    /\ take[n].at = "over" \/ (take[n].at = "stopping" /\ take[n].discard)
    /\ n \notin sentTakes /\ review # n
    /\ take[n].shown => ~Held(n)

RecorderInv ==
  RecorderTypeOK /\ PressSound /\ NewTakes /\ OneLive /\ ActiveHeld /\ RefusedUnsent

-------------------------------------------------------------------------------
(* Decisions about chats.                                                   *)

VaultTypeInv ==
  /\ serverHidden \subseteq Chats
  /\ vault \in VaultRecords \union {Nothing}
  /\ chatPage \in [Pages -> PageStates]
  /\ answer \in [Pages -> (SUBSET Chats) \union {Nothing}]
  /\ patches \subseteq [chat : Chats, hidden : BOOLEAN, number : Nat]
  /\ choices \in Nat

\* A tab that has not read the vault has what the server listed and nothing else;
\* one that is closed is asked nothing.
TabSound(p, found) ==
  /\ p.at = "closed" => p = Closed /\ found = Nothing
  /\ p.at = "loading" =>
       /\ ~ p.due /\ p.marks = {} /\ p.hiddenIds = {}
       /\ \A c \in DOMAIN p.flags : p.flags[c] \subseteq {"hidden"}

\* What p shows of c, while the server hides the chats in s, once c is listed again.
ShowsAt(p, s, c, f) ==
  IF f = "marked" THEN c \in p.marks
  ELSE IF f = "archived" THEN c \in DOMAIN p.flags /\ "archived" \in p.flags[c]
  ELSE \/ c \in p.hiddenIds
       \/ IF c \in DOMAIN p.flags THEN "hidden" \in p.flags[c] ELSE c \in s

\* What a tab that loads the record will show.
LoadsAt(record, s, c, f) ==
  IF record = Nothing THEN f = "hidden" /\ c \in s ELSE ShowsAt(record, s, c, f)

\* Every tab that has read the vault has the decision, and so has the vault unless a
\* tab is about to save it.
Kept(c, f) ==
  /\ \A t \in Pages : chatPage[t].at = "ready" =>
       (ShowsAt(chatPage[t], serverHidden, c, f) <=> <<c, f>> \in wanted)
  /\ (\A t \in Pages : ~ chatPage[t].due) =>
       (LoadsAt(vault, serverHidden, c, f) <=> <<c, f>> \in wanted)

Patching(c) == {q \in patches : q.chat = c}

\* Hiding is the server's matter too: it has the decision, or a PATCH is to bring it,
\* and then every tab has the chat on its list.
TabHides(p, found, c) ==
  /\ c \in DOMAIN p.flags => ("hidden" \in p.flags[c] <=> <<c, "hidden">> \in wanted)
  /\ Patching(c) # {} =>
       p.at \in {"closed", "ready"} /\ (p.at = "ready" => c \in DOMAIN p.flags)
  /\ found # Nothing /\ (p.at = "loading" \/ c \notin DOMAIN p.flags) =>
       (c \in found <=> <<c, "hidden">> \in wanted)

HidingKept(c) ==
  /\ Patching(c) = {} => (c \in serverHidden <=> <<c, "hidden">> \in wanted)
  /\ \A q \in Patching(c) : q.hidden <=> <<c, "hidden">> \in wanted
  /\ \A t \in Pages : TabHides(chatPage[t], answer[t], c)

Known(c, f) == <<c, f>> \notin unsure

VaultInv ==
  /\ VaultTypeInv
  /\ \A t \in Pages : TabSound(chatPage[t], answer[t])
  /\ \A c \in Chats, f \in Flags : Known(c, f) => Kept(c, f)
  /\ \A c \in Chats : Known(c, "hidden") => HidingKept(c)

-------------------------------------------------------------------------------
(* What covers the pages.                                                  *)

Views == [path: {"guest", "app", "legal"},
          where: {"here", "leaving", "blurred", "hidden"},
          lockScreen: {"active", "screenshot_blocked", "pin_required"},
          sealed: BOOLEAN, dark: BOOLEAN, armed: BOOLEAN]
Guards == [shown: BOOLEAN, hiding: BOOLEAN,
           held: SUBSET {"shift", "fingers"}, cancelled: BOOLEAN]
SealTypeOK == view \in [Tabs -> Views] /\ guard \in [Tabs -> Guards]

\* Of every tab: the blackout is armed only away from the page, a page for guests
\* is not sealed, any other is black when sealed and only when sealed or away.
ViewSound(v) ==
  /\ v.where = "here" => ~v.armed
  /\ v.path = "guest" => ~v.sealed
  /\ v.path # "guest" => (v.sealed => v.dark) /\ (v.dark => v.sealed \/ v.armed)
\* The guard is of AppShell's pages and stays for a reason.
GuardSound(v, g) ==
  /\ g.shown => v.path = "app"
  /\ g.shown /\ ~g.cancelled => g.hiding \/ g.held # {} \/ ~InFront(v)
\* Of a tab that nothing excuses: what is armed is black, a seal has a screen, a
\* hidden page is covered by both layers.
CoverSound(v, g) ==
  /\ v.armed => v.dark
  /\ v.sealed => v.lockScreen # "active"
  /\ v.where = "hidden" => (v.sealed \/ v.armed) /\ (v.path = "app" => g.shown /\ ~g.hiding)

Sound(v, g, excepted) ==
  /\ ViewSound(v) /\ GuardSound(v, g)
  /\ v.path # "guest" /\ ~excepted => CoverSound(v, g)

SealInv == SealTypeOK /\ \A t \in Tabs : Sound(view[t], guard[t], t \in odd)

\* What the functions of privacySeal.ts make of a tab.
LEMMA SealedView ==
  ASSUME NEW v \in Views
  PROVE  LET w == sealContent(v) IN
         /\ w \in Views
         /\ w.path = v.path /\ w.where = v.where /\ w.lockScreen = v.lockScreen
         /\ w.armed = v.armed
         /\ v.path = "guest" => w = v
         /\ v.path # "guest" => w.sealed /\ w.dark
  BY DEF Views, sealContent
LEMMA UncoveredView ==
  ASSUME NEW v \in Views
  PROVE  LET w == Uncovered(v) IN
         /\ w \in Views
         /\ w.path = v.path /\ w.where = v.where /\ w.lockScreen = v.lockScreen
         /\ w.armed = v.armed /\ ~w.sealed /\ ~w.dark
  BY DEF Views, Uncovered
LEMMA PolledView ==
  ASSUME NEW v \in Views
  PROVE  LET w == tryUnsealContent(v) IN
         /\ w \in Views
         /\ w.path = v.path /\ w.where = v.where /\ w.lockScreen = v.lockScreen
         /\ w.armed = v.armed
         /\ IF v.path # "guest" /\ v.sealed THEN w.sealed /\ w.dark ELSE ~w.sealed /\ ~w.dark
  BY SealedView, UncoveredView DEF tryUnsealContent
LEMMA ArmedView ==
  ASSUME NEW v \in Views
  PROVE  LET w == armAwayBlackout(v) IN
         /\ w \in Views
         /\ w.path = v.path /\ w.where = v.where /\ w.lockScreen = v.lockScreen
         /\ w.sealed = v.sealed
         /\ IF v.path = "guest" \/ v.sealed THEN w = v ELSE w.armed /\ w.dark
  BY DEF Views, armAwayBlackout
LEMMA ReturnedView ==
  ASSUME NEW v \in Views
  PROVE  LET w == onReturnFromAway(v) IN
         /\ w \in Views
         /\ w.path = v.path /\ w.where = v.where /\ w.lockScreen = v.lockScreen
         /\ w.sealed = v.sealed /\ ~w.armed
         /\ w.dark = IF v.armed /\ ~v.sealed THEN FALSE ELSE v.dark
  BY DEF Views, onReturnFromAway

\* A step that leaves all tabs but one alone keeps the invariant where it keeps it
\* of that tab.
LEMMA OneTab ==
  ASSUME SealInv, NEW t \in Tabs, NEW v \in Views, NEW g \in Guards,
         view' = [view EXCEPT ![t] = v], guard' = [guard EXCEPT ![t] = g],
         odd' \ {t} = odd \ {t}, Sound(v, g, t \in odd')
  PROVE  SealInv'
  <1>1. SealTypeOK'
    BY DEF SealInv, SealTypeOK
  <1>2. ASSUME NEW u \in Tabs PROVE Sound(view'[u], guard'[u], u \in odd')
    <2>1. CASE u = t
      BY <2>1 DEF SealInv, SealTypeOK
    <2>2. CASE u # t
      <3>1. view'[u] = view[u] /\ guard'[u] = guard[u] /\ (u \in odd' <=> u \in odd)
        BY <2>2 DEF SealInv, SealTypeOK
      <3> QED
        BY <3>1 DEF SealInv, Sound
    <2> QED
      BY <2>1, <2>2
  <1> QED
    BY <1>1, <1>2 DEF SealInv

LEMMA SealInitInv == SealInit => SealInv
  <1> SUFFICES ASSUME SealInit PROVE SealInv
    OBVIOUS
  <1> DEFINE o == Opened("app")
             v == [o EXCEPT !.where = "hidden", !.armed = TRUE, !.dark = TRUE]
             n == NoGuard
             g == [n EXCEPT !.shown = TRUE]
  <1>1. view = [t \in Tabs |-> v] /\ guard = [t \in Tabs |-> g]
    BY DEF SealInit
  <1>2. o \in Views /\ o.path = "app" /\ ~o.sealed
    BY DEF Opened, Views
  <1>3. n \in Guards /\ ~n.hiding /\ n.held = {}
    BY DEF NoGuard, Guards
  <1> HIDE DEF o, n
  <1>4. v \in Views /\ v.path = "app" /\ v.where = "hidden" /\ v.armed /\ v.dark /\ ~v.sealed
    BY <1>2 DEF Views
  <1>5. g \in Guards /\ g.shown /\ ~g.hiding
    BY <1>3 DEF Guards
  <1> HIDE DEF v, g
  <1>7. \A t \in Tabs : Sound(view[t], guard[t], t \in odd)
    BY <1>1, <1>4, <1>5 DEF Sound, ViewSound, GuardSound, CoverSound, InFront
  <1> QED
    BY <1>1, <1>4, <1>5, <1>7 DEF SealInv, SealTypeOK

\* Captures, and what takes the screens off.
LEMMA ScreenStepInv ==
  ASSUME SealInv, NEW t \in Tabs,
         Capture(t) \/ CopyOutsideAppShell(t) \/ ClickToUnlock(t) \/ AskPin(t) \/ EnterPin(t)
  PROVE  SealInv'
  <1> DEFINE v == view[t]
             g == guard[t]
  <1> USE DEF View, Screen
  <1>1. v \in Views /\ g \in Guards /\ Sound(v, g, t \in odd)
        /\ guard = [guard EXCEPT ![t] = g]
    BY DEF SealInv, SealTypeOK
  <1>2. CASE Capture(t)
    <2> DEFINE b == [v EXCEPT !.dark = TRUE]
               w == sealContent(b)
               x == Screen(w, "screenshot_blocked")
    <2>1. b \in Views /\ b.path = v.path /\ b.where = v.where /\ b.armed = v.armed /\ b.dark
          /\ b.sealed = v.sealed
      BY <1>1 DEF Views
    <2>2. /\ w \in Views /\ w.path = v.path /\ w.where = v.where /\ w.armed = v.armed /\ w.dark
          /\ w.path = "guest" => w.sealed = v.sealed
          /\ w.path # "guest" => w.sealed
      BY <2>1, SealedView
    <2> HIDE DEF b, w
    <2>3. /\ x \in Views /\ x.path = v.path /\ x.where = v.where /\ x.armed = v.armed /\ x.dark
          /\ x.path = "guest" => x.sealed = v.sealed
          /\ x.path # "guest" => x.sealed /\ x.lockScreen # "active"
      BY <2>2 DEF Views
    <2>4. view' = [view EXCEPT ![t] = x] /\ guard' = guard /\ odd' = odd /\ InFront(v)
      BY <1>2 DEF Capture, w, b
    <2> HIDE DEF x
    <2>5. Sound(x, g, t \in odd')
      BY <1>1, <2>3, <2>4 DEF Sound, ViewSound, GuardSound, CoverSound, InFront
    <2> QED
      BY <1>1, <2>3, <2>4, <2>5, OneTab
  <1>3. CASE CopyOutsideAppShell(t)
    <2> DEFINE w == sealContent(v)
               x == Screen(w, "screenshot_blocked")
    <2>1. /\ w \in Views /\ w.path = v.path /\ w.where = v.where /\ w.armed = v.armed
          /\ v.path = "legal" /\ w.dark /\ w.sealed
      BY <1>1, <1>3, SealedView DEF CopyOutsideAppShell
    <2> HIDE DEF w
    <2>2. /\ x \in Views /\ x.path = v.path /\ x.where = v.where /\ x.armed = v.armed
          /\ x.dark /\ x.sealed /\ x.lockScreen # "active"
      BY <2>1 DEF Views
    <2>3. view' = [view EXCEPT ![t] = x] /\ guard' = guard /\ odd' = odd /\ InFront(v)
      BY <1>3 DEF CopyOutsideAppShell, w
    <2> HIDE DEF x
    <2>4. Sound(x, g, t \in odd')
      BY <1>1, <2>1, <2>2, <2>3 DEF Sound, ViewSound, GuardSound, CoverSound, InFront
    <2> QED
      BY <1>1, <2>2, <2>3, <2>4, OneTab
  <1>4. CASE ClickToUnlock(t)
    <2> DEFINE w == Uncovered(v)
               x == [w EXCEPT !.lockScreen = "active"]
    <2>1. /\ w \in Views /\ w.path = v.path /\ w.where = v.where /\ w.armed = v.armed
          /\ ~w.dark /\ ~w.sealed /\ v.where = "here"
      BY <1>1, <1>4, UncoveredView DEF ClickToUnlock
    <2> HIDE DEF w
    <2>2. /\ x \in Views /\ x.path = v.path /\ x.where = "here" /\ x.armed = v.armed
          /\ ~x.dark /\ ~x.sealed
      BY <2>1 DEF Views
    <2>3. view' = [view EXCEPT ![t] = x] /\ guard' = guard /\ odd' = odd \ {t}
      BY <1>4 DEF ClickToUnlock, w
    <2> HIDE DEF x
    <2>4. Sound(x, g, t \in odd')
      BY <1>1, <2>1, <2>2, <2>3 DEF Sound, ViewSound, GuardSound, CoverSound, InFront
    <2> QED
      BY <1>1, <2>2, <2>3, <2>4, OneTab
  <1>5. CASE AskPin(t)
    <2> DEFINE x == [v EXCEPT !.lockScreen = "pin_required"]
    <2>1. /\ x \in Views /\ x.path = v.path /\ x.where = v.where /\ x.armed = v.armed
          /\ x.dark = v.dark /\ x.sealed = v.sealed /\ x.lockScreen # "active"
      BY <1>1 DEF Views
    <2>2. view' = [view EXCEPT ![t] = x] /\ guard' = guard /\ odd' = odd
      BY <1>5 DEF AskPin
    <2> HIDE DEF x
    <2>3. Sound(x, g, t \in odd')
      BY <1>1, <2>1, <2>2 DEF Sound, ViewSound, GuardSound, CoverSound, InFront
    <2> QED
      BY <1>1, <2>1, <2>2, <2>3, OneTab
  <1>6. CASE EnterPin(t)
    <2> DEFINE x == [v EXCEPT !.lockScreen = "active"]
    <2>1. /\ x \in Views /\ x.path = v.path /\ x.where = v.where /\ x.armed = v.armed
          /\ x.dark = v.dark /\ x.sealed = v.sealed
      BY <1>1 DEF Views
    <2>2. /\ view' = [view EXCEPT ![t] = x] /\ guard' = guard
          /\ odd' = IF v.sealed THEN odd \union {t} ELSE odd
      BY <1>6 DEF EnterPin
    <2> HIDE DEF x
    <2>3. Sound(x, g, t \in odd')
      BY <1>1, <2>1, <2>2 DEF Sound, ViewSound, GuardSound, CoverSound, InFront
    <2>4. odd' \ {t} = odd \ {t}
      BY <2>2
    <2> QED
      BY <1>1, <2>1, <2>2, <2>3, <2>4, OneTab
  <1> QED
    BY <1>2, <1>3, <1>4, <1>5, <1>6

\* Going away, coming back, the poll.
LEMMA FocusStepInv ==
  ASSUME SealInv, NEW t \in Tabs,
         \/ PressFocusKey(t) \/ (\E where \in {"blurred", "hidden"} : GoAway(t, where))
         \/ ComeBack(t) \/ Poll(t)
  PROVE  SealInv'
  <1> DEFINE v == view[t]
             g == guard[t]
  <1> USE DEF View
  <1>1. v \in Views /\ g \in Guards /\ Sound(v, g, t \in odd)
        /\ guard = [guard EXCEPT ![t] = g]
    BY DEF SealInv, SealTypeOK
  <1> DEFINE a == armAwayBlackout(v)
             r == onReturnFromAway(v)
             q == tryUnsealContent(v)
  <1>2. /\ a \in Views /\ a.path = v.path /\ a.where = v.where /\ a.lockScreen = v.lockScreen
        /\ a.sealed = v.sealed
        /\ IF v.path = "guest" \/ v.sealed THEN a = v ELSE a.armed /\ a.dark
    BY <1>1, ArmedView
  <1>3. /\ r \in Views /\ r.path = v.path /\ r.where = v.where /\ r.lockScreen = v.lockScreen
        /\ r.sealed = v.sealed /\ ~r.armed
        /\ r.dark = IF v.armed /\ ~v.sealed THEN FALSE ELSE v.dark
    BY <1>1, ReturnedView
  <1>4. /\ q \in Views /\ q.path = v.path /\ q.where = v.where /\ q.lockScreen = v.lockScreen
        /\ q.armed = v.armed
        /\ IF v.path # "guest" /\ v.sealed THEN q.sealed /\ q.dark ELSE ~q.sealed /\ ~q.dark
    BY <1>1, PolledView
  <1>5. CASE PressFocusKey(t)
    <2> DEFINE x == [a EXCEPT !.where = "leaving"]
    <2>1. view' = [view EXCEPT ![t] = x] /\ guard' = guard /\ odd' = odd /\ v.where = "here"
      BY <1>5 DEF PressFocusKey
    <2> HIDE DEF a
    <2>2. /\ x \in Views /\ x.path = v.path /\ x.where = "leaving" /\ x.armed = a.armed
          /\ x.dark = a.dark /\ x.sealed = v.sealed /\ x.lockScreen = v.lockScreen
      BY <1>2 DEF Views
    <2> HIDE DEF x
    <2>3. Sound(x, g, t \in odd')
      BY <1>1, <1>2, <2>1, <2>2 DEF Sound, ViewSound, GuardSound, CoverSound, InFront
    <2> QED
      BY <1>1, <2>1, <2>2, <2>3, OneTab
  <1>6. ASSUME NEW where \in {"blurred", "hidden"}, GoAway(t, where) PROVE SealInv'
    <2> DEFINE x == [a EXCEPT !.where = where]
               h == [g EXCEPT !.shown = v.path = "app", !.hiding = FALSE]
    <2>1. view' = [view EXCEPT ![t] = x] /\ odd' = odd /\ ShowGuard(t)
      BY <1>6 DEF GoAway
    <2>2. guard' = [guard EXCEPT ![t] = h]
      BY <1>1, <2>1 DEF ShowGuard, SealInv, SealTypeOK
    <2>6. /\ h \in Guards /\ h.shown = (v.path = "app") /\ ~h.hiding /\ h.held = g.held
          /\ h.cancelled = g.cancelled
      BY <1>1 DEF Guards
    <2> HIDE DEF h
    <2> HIDE DEF a
    <2>3. /\ x \in Views /\ x.path = v.path /\ x.where = where /\ x.armed = a.armed
          /\ x.dark = a.dark /\ x.sealed = v.sealed /\ x.lockScreen = v.lockScreen
      BY <1>2 DEF Views
    <2> HIDE DEF x
    <2>4. Sound(x, h, t \in odd')
      BY <1>1, <1>2, <2>1, <2>3, <2>6 DEF Sound, ViewSound, GuardSound, CoverSound, InFront
    <2> QED
      BY <1>1, <2>1, <2>2, <2>3, <2>4, <2>6, OneTab
  <1>7. CASE ComeBack(t)
    <2> DEFINE to == IF v.where = "hidden" THEN "blurred" ELSE "here"
               x == [r EXCEPT !.where = to]
               h == [g EXCEPT !.hiding = v.path = "app"]
    <2>1. /\ view' = [view EXCEPT ![t] = x] /\ HideGuard(t)
          /\ odd' = IF v.sealed THEN odd ELSE odd \ {t}
          /\ ~InFront(v)
      BY <1>3, <1>7 DEF ComeBack
    <2>2. /\ guard' = [guard EXCEPT ![t] = h] /\ h \in Guards
          /\ h.shown = g.shown /\ h.hiding = (v.path = "app") /\ h.held = g.held
          /\ h.cancelled = g.cancelled
      BY <1>1, <2>1 DEF HideGuard, SealInv, SealTypeOK, Guards
    <2> HIDE DEF r, h
    <2>3. /\ x \in Views /\ x.path = v.path /\ x.where = to /\ ~x.armed
          /\ x.dark = r.dark /\ x.sealed = v.sealed /\ x.lockScreen = v.lockScreen
      BY <1>3 DEF Views
    <2> HIDE DEF x
    <2>4. Sound(x, h, t \in odd')
      BY <1>1, <1>3, <2>1, <2>2, <2>3 DEF Sound, ViewSound, GuardSound, CoverSound, InFront
    <2>5. odd' \ {t} = odd \ {t}
      BY <2>1
    <2> QED
      BY <1>1, <2>1, <2>2, <2>3, <2>4, <2>5, OneTab
  <1>8. CASE Poll(t)
    <2>1. view' = [view EXCEPT ![t] = q] /\ guard' = guard /\ odd' = odd
          /\ (v.armed => v.sealed /\ v.path # "guest")
      BY <1>8 DEF Poll, Synced
    <2> HIDE DEF q
    <2>2. Sound(q, g, t \in odd')
      BY <1>1, <1>4, <2>1 DEF Sound, ViewSound, GuardSound, CoverSound, InFront
    <2> QED
      BY <1>1, <1>4, <2>1, <2>2, OneTab
  <1> QED
    BY <1>5, <1>6, <1>7, <1>8

\* Other pages, reloads, the events of other tabs.
LEMMA PageStepInv ==
  ASSUME SealInv, NEW t \in Tabs,
         \/ ReloadTab(t) \/ Mirror(t)
         \/ \E path \in {"guest", "app", "legal"} : Navigate(t, path)
  PROVE  SealInv'
  <1> DEFINE v == view[t]
             g == guard[t]
  <1> USE DEF View
  <1>1. v \in Views /\ g \in Guards /\ Sound(v, g, t \in odd)
        /\ guard = [guard EXCEPT ![t] = g]
    BY DEF SealInv, SealTypeOK
  <1>2. NoGuard \in Guards
    BY DEF NoGuard, Guards
  <1>3. CASE ReloadTab(t)
    <2> DEFINE o == Opened(v.path)
               x == tryUnsealContent(o)
    <2>1. o \in Views /\ o.path = v.path /\ o.where = "here" /\ ~o.sealed /\ ~o.armed
      BY <1>1 DEF Views, Opened
    <2>2. view' = [view EXCEPT ![t] = x] /\ odd' = odd \ {t} /\ guard' = [guard EXCEPT ![t] = NoGuard]
      BY <1>3 DEF ReloadTab, Synced
    <2> HIDE DEF o
    <2>3. /\ x \in Views /\ x.path = v.path /\ x.where = "here" /\ ~x.armed
          /\ ~x.sealed /\ ~x.dark
      BY <2>1, PolledView
    <2> HIDE DEF x
    <2>4. Sound(x, NoGuard, t \in odd')
      BY <2>2, <2>3 DEF Sound, ViewSound, GuardSound, CoverSound, InFront, NoGuard
    <2> QED
      BY <1>1, <1>2, <2>2, <2>3, <2>4, OneTab
  <1>4. ASSUME NEW path \in {"guest", "app", "legal"}, Navigate(t, path) PROVE SealInv'
    <2> DEFINE p == [v EXCEPT !.path = path]
               x == tryUnsealContent(p)
    <2>1. /\ p \in Views /\ p.path = path /\ p.where = v.where /\ p.sealed = v.sealed
          /\ p.armed = v.armed /\ p.lockScreen = v.lockScreen /\ InFront(p) = InFront(v)
      BY <1>1 DEF Views, InFront
    <2>2. /\ view' = [view EXCEPT ![t] = x]
          /\ guard' = [guard EXCEPT ![t] = NoGuard]
          /\ path # v.path
          /\ odd' = CASE path = "guest" -> odd \ {t}
                      [] p.armed \/ ~InFront(p) -> odd \union {t}
                      [] OTHER -> odd
      BY <1>4 DEF Navigate, Synced
    <2> HIDE DEF p
    <2>3. /\ x \in Views /\ x.path = path /\ x.where = v.where /\ x.lockScreen = v.lockScreen
          /\ x.armed = v.armed
          /\ IF path # "guest" /\ v.sealed THEN x.sealed /\ x.dark ELSE ~x.sealed /\ ~x.dark
      BY <2>1, PolledView
    <2> HIDE DEF x
    <2>4. odd' \ {t} = odd \ {t} /\ (path # "guest" /\ t \notin odd' => t \notin odd /\ ~v.armed /\ InFront(v))
      BY <2>1, <2>2
    <2>5. Sound(x, NoGuard, t \in odd')
      BY <1>1, <2>3, <2>4 DEF Sound, ViewSound, GuardSound, CoverSound, InFront, NoGuard
    <2> QED
      BY <1>1, <1>2, <2>2, <2>3, <2>4, <2>5, OneTab
  <1>5. CASE Mirror(t)
    <2> DEFINE on == Head(mirrors[t])
               x == IF on THEN tryUnsealContent(v) ELSE sealContent(v)
    <2>1. /\ view' = [view EXCEPT ![t] = x] /\ guard' = guard
          /\ odd' = IF ~v.sealed /\ v.path # "guest"
                       /\ (IF on THEN v.armed ELSE v.lockScreen = "active")
                    THEN odd \union {t} ELSE odd
      BY <1>5 DEF Mirror
    <2>2. /\ x \in Views /\ x.path = v.path /\ x.where = v.where /\ x.lockScreen = v.lockScreen
          /\ x.armed = v.armed
          /\ on => IF v.path # "guest" /\ v.sealed THEN x.sealed /\ x.dark ELSE ~x.sealed /\ ~x.dark
          /\ ~on => IF v.path = "guest" THEN x = v ELSE x.sealed /\ x.dark
      BY <1>1, PolledView, SealedView
    <2> HIDE DEF x
    <2>3. odd' \ {t} = odd \ {t} /\ (t \in odd => t \in odd')
      BY <2>1
    <2>4. Sound(x, g, t \in odd')
      BY <1>1, <2>1, <2>2, <2>3 DEF Sound, ViewSound, GuardSound, CoverSound, InFront
    <2> QED
      BY <1>1, <2>1, <2>2, <2>3, <2>4, OneTab
  <1> QED
    BY <1>3, <1>4, <1>5

\* The guard's keys, touches and timers.
LEMMA GuardStepInv ==
  ASSUME SealInv, NEW t \in Tabs,
         \/ (\E what \in {"shift", "fingers"} : Hold(t, what) \/ LetGoOf(t, what))
         \/ TouchTaken(t) \/ GuardTimer(t)
  PROVE  SealInv'
  <1> DEFINE v == view[t]
             g == guard[t]
  <1>1. v \in Views /\ g \in Guards /\ Sound(v, g, t \in odd)
        /\ view = [view EXCEPT ![t] = v]
    BY DEF SealInv, SealTypeOK
  <1>2. ASSUME NEW what \in {"shift", "fingers"}, Hold(t, what) PROVE SealInv'
    <2> DEFINE h == [shown |-> TRUE, hiding |-> FALSE, held |-> g.held \union {what},
                     cancelled |-> g.cancelled]
    <2>1. /\ view' = view /\ odd' = odd /\ InFront(v) /\ v.path = "app"
          /\ guard' = [guard EXCEPT ![t] = h] /\ h \in Guards
      BY <1>1, <1>2 DEF Hold, SealInv, SealTypeOK, Guards
    <2>2. Sound(v, h, t \in odd')
      BY <1>1, <2>1 DEF Sound, ViewSound, GuardSound, CoverSound, InFront
    <2> QED
      BY <1>1, <2>1, <2>2, OneTab
  <1>3. ASSUME NEW what \in {"shift", "fingers"}, LetGoOf(t, what) PROVE SealInv'
    <2> DEFINE h == [shown |-> g.shown, hiding |-> g.hiding \/ InFront(v), held |-> g.held \ {what},
                     cancelled |-> g.cancelled]
    <2>1. InFront(v) \in BOOLEAN
      BY DEF InFront
    <2>2. /\ view' = view /\ odd' = odd
          /\ guard' = [guard EXCEPT ![t] = h] /\ h \in Guards
      BY <1>1, <1>3, <2>1 DEF LetGoOf, SealInv, SealTypeOK, Guards
    <2>3. Sound(v, h, t \in odd')
      BY <1>1, <2>2 DEF Sound, ViewSound, GuardSound, CoverSound, InFront
    <2> QED
      BY <1>1, <2>2, <2>3, OneTab
  <1>4. CASE TouchTaken(t)
    <2> DEFINE h == [g EXCEPT !.held = @ \ {"fingers"}, !.cancelled = TRUE]
    <2>1. view' = view /\ odd' = odd /\ guard' = [guard EXCEPT ![t] = h]
      BY <1>4 DEF TouchTaken
    <2>2. h \in Guards /\ h.shown = g.shown /\ h.hiding = g.hiding /\ h.cancelled
      BY <1>1 DEF Guards
    <2> HIDE DEF h
    <2>3. Sound(v, h, t \in odd')
      BY <1>1, <2>1, <2>2 DEF Sound, ViewSound, GuardSound, CoverSound, InFront
    <2> QED
      BY <1>1, <2>1, <2>2, <2>3, OneTab
  <1>5. CASE GuardTimer(t)
    <2> DEFINE h == [shown |-> FALSE, hiding |-> FALSE, held |-> g.held, cancelled |-> FALSE]
    <2>1. /\ view' = view /\ odd' = odd /\ g.hiding
          /\ guard' = [guard EXCEPT ![t] = h] /\ h \in Guards
      BY <1>1, <1>5 DEF GuardTimer, SealInv, SealTypeOK, Guards
    <2>2. Sound(v, h, t \in odd')
      <3>1. CASE v.path = "app" /\ v.where = "hidden" /\ t \notin odd
        BY <1>1, <2>1, <3>1 DEF Sound, CoverSound
      <3>2. CASE ~(v.path = "app" /\ v.where = "hidden" /\ t \notin odd)
        BY <1>1, <2>1, <3>2 DEF Sound, ViewSound, GuardSound, CoverSound, InFront
      <3> QED
        BY <3>1, <3>2
    <2> QED
      BY <1>1, <2>1, <2>2, OneTab
  <1> QED
    BY <1>2, <1>3, <1>4, <1>5

LEMMA SealNextInv == SealInv /\ [SealNext]_sealVars => SealInv'
  <1> SUFFICES ASSUME SealInv, [SealNext]_sealVars PROVE SealInv'
    OBVIOUS
  <1>1. CASE UNCHANGED sealVars
    BY <1>1 DEF sealVars, SealInv, SealTypeOK, Sound, GuardSound, ViewSound, CoverSound, InFront
  <1>2. CASE SealNext
    BY <1>2, ScreenStepInv, FocusStepInv, PageStepInv, GuardStepInv DEF SealNext
  <1> QED
    BY <1>1, <1>2

\* The layers of every tab are sound in every reachable state.
THEOREM SealInvariance == SealSpec => []SealInv
  BY SealInitInv, SealNextInv, PTL DEF SealSpec

\* A hidden page is black, a page in front is black only under a screen that the
\* user can take off, and the guard never stays without a reason: for any number
\* of tabs, whatever seals, PINs, events and timers come between.
THEOREM CoverHolds == SealSpec => []CoverKept
  <1>1. SealInv => CoverKept
    BY DEF SealInv, SealTypeOK, Views, Sound, ViewSound, GuardSound, CoverSound, CoverKept
  <1> QED
    BY <1>1, SealInvariance, PTL

-------------------------------------------------------------------------------
(* The PIN screen: its steps.                                              *)

LEMMA NoRequestType == NoRequest \in RequestType /\ NoRequest.op = "none" /\ NoRequest.at = "idle"
  <1>1. /\ NoRequest.op = "none" /\ NoRequest.at = "idle" /\ NoRequest.of = NoDevice
        /\ NoRequest.claim = "none" /\ NoRequest.crossed = FALSE
    BY DEF NoRequest
  <1>2. NoRequest \in RequestType
    BY DEF NoRequest, RequestType, Ops, Steps
  <1> QED
    BY <1>1, <1>2

LEMMA LockInitInv == LockInit => LockInv
  <1> SUFFICES ASSUME LockInit PROVE LockInv
    OBVIOUS
  <1>1. claim \in [Devices -> {"setup", "locked", "open", "none"}]
    BY DEF LockInit
  <1>2. /\ request \in [Requests -> RequestType]
        /\ \A c \in Requests : request[c].op = "none"
    BY NoRequestType DEF LockInit
  <1>3. LockTypeOK
    BY <1>1, <1>2 DEF LockInit, LockTypeOK
  <1>4. VerifiedActive /\ RefreshTrue /\ RefBacked
    BY DEF LockInit, VerifiedActive, RefreshTrue, RefBacked
  <1> QED
    BY <1>3, <1>4 DEF LockInv

\* A step that changes one request, at most, and neither to nor from a lock that is
\* being published or a refresh that has read its row.
Unrelated(r) ==
  ~(r.op = "lock" /\ r.at = "publish") /\ ~(r.op = "refresh" /\ r.at = "answer")

LEMMA OneRequest ==
  ASSUME LockInv, NEW c \in Requests, NEW r \in RequestType,
         r.op # "none" => r.of \in Devices,
         request' = [request EXCEPT ![c] = r],
         Unrelated(r), ~Waits(c, "lock", "publish"),
         pinVerified' \subseteq pinVerified
  PROVE  /\ request' \in [Requests -> RequestType]
         /\ \A b \in Requests : request'[b].op # "none" => request'[b].of \in Devices
         /\ RefreshTrue'
         /\ Publishing' = Publishing
  <1>1. /\ request' \in [Requests -> RequestType]
        /\ \A b \in Requests : request'[b] = IF b = c THEN r ELSE request[b]
    BY DEF LockInv, LockTypeOK
  <1>2. \A b \in Requests : request'[b].op # "none" => request'[b].of \in Devices
    BY <1>1 DEF LockInv, LockTypeOK
  <1>3. RefreshTrue'
    BY <1>1 DEF LockInv, RefreshTrue, Waits, Unrelated
  <1>4. Publishing' = Publishing
    BY <1>1 DEF Publishing, Waits, Unrelated
  <1> QED
    BY <1>1, <1>2, <1>3, <1>4

LEMMA AskInv ==
  ASSUME LockInv, NEW c \in Requests, NEW d \in Devices, NEW op \in Ops, NEW step \in Steps,
         Ask(c, d, op, step), op # "none", op # "lock" \/ step # "publish",
         op # "refresh" \/ step # "answer"
  PROVE  LockInv'
  <1> DEFINE r == [op |-> op, of |-> d, at |-> step, claim |-> claim[d], crossed |-> FALSE]
  <1>1. r \in RequestType /\ r.of \in Devices /\ Unrelated(r)
    BY DEF LockInv, LockTypeOK, RequestType, Unrelated
  <1>2. request' = [request EXCEPT ![c] = r] /\ ~Waits(c, "lock", "publish")
    BY NoRequestType DEF Ask, Waits
  <1>3. UNCHANGED <<pinStatus, pinVerified, claim, lockState, verifiedRef, lockFrame, excused>>
    BY DEF Ask, rows, pageVars
  <1> HIDE DEF r
  <1>4. /\ request' \in [Requests -> RequestType]
        /\ \A b \in Requests : request'[b].op # "none" => request'[b].of \in Devices
        /\ RefreshTrue' /\ Publishing' = Publishing
    BY <1>1, <1>2, <1>3, OneRequest
  <1> QED
    BY <1>3, <1>4 DEF LockInv, LockTypeOK, VerifiedActive, RefBacked

LEMMA AskStepInv ==
  ASSUME LockInv, NEW c \in Requests, NEW d \in Devices,
         \/ CheckStatus(c, d) \/ RequestData(c, d) \/ SubmitSetup(c, d) \/ SubmitPin(c, d)
         \/ PressLock(c, d) \/ StartRefresh(c, d) \/ PressCancel(c, d)
  PROVE  LockInv'
  <1>1. CASE CheckStatus(c, d)
    BY <1>1, AskInv DEF CheckStatus, Ops, Steps
  <1>2. CASE RequestData(c, d)
    BY <1>2, AskInv DEF RequestData, Ops, Steps
  <1>3. CASE SubmitSetup(c, d)
    BY <1>3, AskInv DEF SubmitSetup, Ops, Steps
  <1>4. CASE SubmitPin(c, d)
    BY <1>4, AskInv DEF SubmitPin, Ops, Steps
  <1>5. CASE PressLock(c, d)
    BY <1>5, AskInv DEF PressLock, Ops, Steps
  <1>6. CASE StartRefresh(c, d)
    BY <1>6, AskInv DEF StartRefresh, Ops, Steps
  <1>7. CASE PressCancel(c, d)
    BY <1>7, AskInv DEF PressCancel, Ops, Steps
  <1> QED
    BY <1>1, <1>2, <1>3, <1>4, <1>5, <1>6, <1>7

\* The user or a row changes: refreshes that have read it are crossed, nothing else
\* of them changes.
LEMMA Crossed ==
  ASSUME LockInv, NEW cs \in SUBSET Requests
  PROVE  /\ Crossing(cs) \in [Requests -> RequestType]
         /\ \A b \in Requests :
              LET r == Crossing(cs)[b] IN
              /\ r.op = request[b].op /\ r.of = request[b].of /\ r.at = request[b].at
              /\ r.claim = request[b].claim
              /\ r.crossed = (request[b].crossed \/ b \in cs)
  <1>1. \A b \in Requests : request[b] \in RequestType
    BY DEF LockInv, LockTypeOK
  <1>2. ASSUME NEW b \in Requests
        PROVE  LET r == Crossing(cs)[b] IN
              /\ r \in RequestType
              /\ r.op = request[b].op /\ r.of = request[b].of /\ r.at = request[b].at
              /\ r.claim = request[b].claim
              /\ r.crossed = (request[b].crossed \/ b \in cs)
    <2> DEFINE q == request[b]
               k == [q EXCEPT !.crossed = TRUE]
    <2>1. /\ k \in RequestType /\ k.op = q.op /\ k.of = q.of /\ k.at = q.at
          /\ k.claim = q.claim /\ k.crossed = TRUE
      BY <1>1 DEF RequestType
    <2>2. Crossing(cs)[b] = IF b \in cs THEN k ELSE q
      BY DEF Crossing
    <2>3. q \in RequestType /\ q.crossed \in BOOLEAN
      BY <1>1 DEF RequestType
    <2> HIDE DEF k
    <2>4. CASE b \in cs
      BY <2>1, <2>2, <2>4
    <2>5. CASE b \notin cs
      BY <2>2, <2>3, <2>5
    <2> QED
      BY <2>4, <2>5
  <1>3. DOMAIN Crossing(cs) = Requests /\ Crossing(cs) = [b \in Requests |-> Crossing(cs)[b]]
    BY DEF Crossing
  <1>4. Crossing(cs) \in [Requests -> RequestType]
    BY <1>2, <1>3
  <1> QED
    BY <1>2, <1>4

\* A request that is over.
LEMMA RequestOver ==
  ASSUME LockInv, NEW c \in Requests, EndRequest(c), ~Waits(c, "lock", "publish"),
         pinVerified' \subseteq pinVerified
  PROVE  /\ request' \in [Requests -> RequestType]
         /\ \A b \in Requests : request'[b].op # "none" => request'[b].of \in Devices
         /\ RefreshTrue' /\ Publishing' = Publishing
  <1>1. Unrelated(NoRequest)
    BY NoRequestType DEF Unrelated
  <1> QED
    BY <1>1, NoRequestType, OneRequest DEF EndRequest

\* A request that goes on.
LEMMA RequestGoesOn ==
  ASSUME LockInv, NEW c \in Requests, NEW step \in Steps, GoTo(c, step),
         request[c].op \notin {"refresh", "none"}, ~Waits(c, "lock", "publish"),
         ~(request[c].op = "lock" /\ step = "publish"),
         pinVerified' \subseteq pinVerified
  PROVE  /\ request' \in [Requests -> RequestType]
         /\ \A b \in Requests : request'[b].op # "none" => request'[b].of \in Devices
         /\ RefreshTrue' /\ Publishing' = Publishing
  <1> DEFINE q == request[c]
             r == [q EXCEPT !.at = step]
  <1>1. q \in RequestType /\ q.of \in Devices
    BY DEF LockInv, LockTypeOK
  <1>2. r \in RequestType /\ r.op = q.op /\ r.of = q.of /\ r.at = step
    BY <1>1 DEF RequestType
  <1>3. request' = [request EXCEPT ![c] = r]
    BY DEF GoTo
  <1> HIDE DEF r
  <1>4. Unrelated(r)
    BY <1>2 DEF Unrelated
  <1> QED
    BY <1>1, <1>2, <1>3, <1>4, OneRequest

LEMMA AnswerStepInv ==
  ASSUME LockInv, NEW c \in Requests,
         \/ StatusAnswer(c) \/ DataAnswer(c) \/ EntryAnswer(c) \/ LockAnswer(c)
         \/ RefreshAnswer(c) \/ CancelAnswer(c)
  PROVE  LockInv'
  <1> DEFINE d == request[c].of
  <1> USE DEF rows, pageVars, Show, LockHere, Leaves
  <1>1. /\ request[c].op # "none" /\ ~Waits(c, "lock", "publish") /\ EndRequest(c)
        /\ UNCHANGED <<pinStatus, pinVerified, lockFrame>>
    BY DEF StatusAnswer, DataAnswer, EntryAnswer, LockAnswer, RefreshAnswer, CancelAnswer, Waits
  <1>2. d \in Devices /\ request[c].claim \in {"setup", "locked", "open", "none"}
        /\ request[c].crossed \in BOOLEAN
    BY <1>1 DEF LockInv, LockTypeOK, RequestType
  <1>3. /\ request' \in [Requests -> RequestType]
        /\ \A b \in Requests : request'[b].op # "none" => request'[b].of \in Devices
        /\ RefreshTrue' /\ Publishing' = Publishing
    BY <1>1, RequestOver
  <1> SUFFICES /\ claim' \in [Devices -> {"setup", "locked", "open", "none"}]
               /\ lockState' \in [Devices -> {"active", "pin_setup", "pin_required",
                                              "screenshot_blocked"}]
               /\ verifiedRef' \subseteq Devices /\ excused' \subseteq Devices
               /\ RefBacked'
    BY <1>1, <1>3 DEF LockInv, LockTypeOK, VerifiedActive
  <1>4. CASE StatusAnswer(c)
    BY <1>1, <1>2, <1>3, <1>4 DEF LockInv, LockTypeOK, RefBacked, StatusAnswer
  <1>5. CASE DataAnswer(c)
    BY <1>1, <1>2, <1>3, <1>5 DEF LockInv, LockTypeOK, RefBacked, DataAnswer
  <1>6. CASE EntryAnswer(c)
    BY <1>1, <1>2, <1>3, <1>6 DEF LockInv, LockTypeOK, RefBacked, EntryAnswer
  <1>7. CASE LockAnswer(c)
    BY <1>1, <1>2, <1>3, <1>7 DEF LockInv, LockTypeOK, RefBacked, LockAnswer
  <1>8. CASE RefreshAnswer(c)
    <2>1. ~request[c].crossed /\ d \in pinVerified => request[c].claim = "open"
      BY <1>8 DEF RefreshAnswer, LockInv, RefreshTrue
    <2>2. /\ claim' = [claim EXCEPT ![d] = request[c].claim]
          /\ UNCHANGED <<lockState, verifiedRef>>
          /\ excused' = IF request[c].crossed THEN excused \union {d} ELSE excused
      BY <1>8 DEF RefreshAnswer
    <2>3. RefBacked'
      BY <1>1, <1>2, <1>3, <2>1, <2>2 DEF LockInv, LockTypeOK, RefBacked
    <2> QED
      BY <1>2, <2>2, <2>3 DEF LockInv, LockTypeOK
  <1>9. CASE CancelAnswer(c)
    BY <1>1, <1>2, <1>3, <1>9 DEF LockInv, LockTypeOK, RefBacked, CancelAnswer
  <1> QED
    BY <1>4, <1>5, <1>6, <1>7, <1>8, <1>9

\* A step that changes the user or the rows of some sessions, for one request.
LEMMA CrossingStep ==
  ASSUME LockInv, NEW c \in Requests, NEW cs \in SUBSET Requests, NEW step \in Steps,
         request' = [Crossing(cs) EXCEPT ![c].at = step]
  PROVE  /\ request' \in [Requests -> RequestType]
         /\ \A b \in Requests :
              /\ request'[b].op = request[b].op /\ request'[b].of = request[b].of
              /\ request'[b].claim = request[b].claim
              /\ request'[b].at = IF b = c THEN step ELSE request[b].at
              /\ ~request'[b].crossed => ~request[b].crossed /\ b \notin cs
  <1> DEFINE x == Crossing(cs)
             q == x[c]
             r == [q EXCEPT !.at = step]
  <1>1. /\ x \in [Requests -> RequestType]
        /\ \A b \in Requests :
             /\ x[b].op = request[b].op /\ x[b].of = request[b].of /\ x[b].at = request[b].at
             /\ x[b].claim = request[b].claim
             /\ x[b].crossed = (request[b].crossed \/ b \in cs)
    BY Crossed
  <1>2. request' = [x EXCEPT ![c] = r]
    OBVIOUS
  <1> HIDE DEF x
  <1>3. /\ r \in RequestType /\ r.op = q.op /\ r.of = q.of /\ r.at = step /\ r.claim = q.claim
        /\ r.crossed = q.crossed
    BY <1>1 DEF RequestType
  <1> HIDE DEF r
  <1>4. request' \in [Requests -> RequestType] /\ request'[c] = r
    BY <1>1, <1>2, <1>3
  <1>5. \A b \in Requests \ {c} : request'[b] = x[b]
    BY <1>1, <1>2
  <1>6. ASSUME NEW b \in Requests
        PROVE  /\ request'[b].op = request[b].op /\ request'[b].of = request[b].of
               /\ request'[b].claim = request[b].claim
               /\ request'[b].at = IF b = c THEN step ELSE request[b].at
               /\ ~request'[b].crossed => ~request[b].crossed /\ b \notin cs
    <2>1. CASE b = c
      <3>1. request'[b] = r
        BY <1>4, <2>1
      <3>2. /\ q.op = request[b].op /\ q.of = request[b].of /\ q.claim = request[b].claim
            /\ ~q.crossed => ~request[b].crossed /\ b \notin cs
        BY <1>1, <2>1
      <3>3. request'[b].at = step /\ (IF b = c THEN step ELSE request[b].at) = step
        BY <1>3, <2>1, <3>1
      <3>4. /\ request'[b].op = request[b].op /\ request'[b].of = request[b].of
            /\ request'[b].claim = request[b].claim
            /\ ~request'[b].crossed => ~request[b].crossed /\ b \notin cs
        BY <1>3, <3>1, <3>2
      <3> QED
        BY <3>3, <3>4
    <2>2. CASE b # c
      <3>1. request'[b] = x[b]
        BY <1>5, <2>2
      <3> QED
        BY <1>1, <2>2, <3>1
    <2> QED
      BY <2>1, <2>2
  <1> QED
    BY <1>4, <1>6

\* The steps of auth-service on the user's row and the session's.
LEMMA RowStepInv ==
  ASSUME LockInv, ReadsTrue, NEW c \in Requests,
         \/ SetPin(c) \/ SetRow(c) \/ ClearAll(c) \/ ReadUser(c) \/ RotateRow(c)
         \/ CheckCancel(c) \/ DeleteUser(c) \/ PublishLock(c)
  PROVE  LockInv'
  <1> DEFINE d == request[c].of
  <1> USE DEF rows, pageVars
  <1>1. request[c].op # "none"
    BY DEF SetPin, SetRow, ClearAll, ReadUser, RotateRow, CheckCancel, DeleteUser, PublishLock, Waits
  <1>2. d \in Devices /\ request[c] \in RequestType
    BY <1>1 DEF LockInv, LockTypeOK
  <1>3. CASE SetPin(c)
    <2>1. /\ request' = [Crossing(FoundNoPin) EXCEPT ![c].at = "row"]
          /\ request[c].op = "setup" /\ request[c].at = "pin" /\ pinStatus' = "ACTIVE"
          /\ UNCHANGED <<pinVerified, claim, lockState, verifiedRef, lockFrame, excused>>
      BY <1>3 DEF SetPin, Waits
    <2>2. /\ request' \in [Requests -> RequestType]
          /\ \A b \in Requests :
               /\ request'[b].op = request[b].op /\ request'[b].of = request[b].of
               /\ request'[b].claim = request[b].claim
               /\ request'[b].at = IF b = c THEN "row" ELSE request[b].at
               /\ ~request'[b].crossed => ~request[b].crossed /\ b \notin FoundNoPin
      <3>1. FoundNoPin \in SUBSET Requests /\ "row" \in Steps
        BY DEF FoundNoPin, Steps
      <3> QED
        BY <2>1, <3>1, CrossingStep
    <2>3. LockTypeOK'
      BY <2>1, <2>2 DEF LockInv, LockTypeOK
    <2>4. \A b \in Requests :
            /\ Waits(b, "lock", "publish")' = Waits(b, "lock", "publish")
            /\ Waits(b, "refresh", "answer")' = Waits(b, "refresh", "answer")
      BY <2>1, <2>2 DEF Waits
    <2>5. RefreshTrue'
      BY <2>1, <2>2, <2>4 DEF LockInv, RefreshTrue
    <2>6. Publishing' = Publishing
      BY <2>4 DEF Publishing
    <2> QED
      BY <2>1, <2>3, <2>5, <2>6 DEF LockInv, VerifiedActive, RefBacked
  <1>4. CASE CheckCancel(c)
    <2>1. /\ request' \in [Requests -> RequestType]
          /\ \A b \in Requests : request'[b].op # "none" => request'[b].of \in Devices
          /\ RefreshTrue' /\ Publishing' = Publishing
      BY <1>4, RequestGoesOn DEF CheckCancel, Waits, Steps
    <2> QED
      BY <1>4, <2>1 DEF CheckCancel, LockInv, LockTypeOK, VerifiedActive, RefBacked
  <1>5. CASE DeleteUser(c)
    <2>1. /\ request' \in [Requests -> RequestType]
          /\ \A b \in Requests : request'[b].op # "none" => request'[b].of \in Devices
          /\ RefreshTrue' /\ Publishing' = Publishing
      BY <1>5, RequestGoesOn DEF DeleteUser, Waits, Steps
    <2> QED
      BY <1>5, <2>1 DEF DeleteUser, LockInv, LockTypeOK, VerifiedActive, RefBacked
  <1>6. CASE ReadUser(c) \/ RotateRow(c)
    <2>1. PICK given \in {"setup", "locked", "open"}, step \in {"row", "answer"} :
            /\ request' = [request EXCEPT ![c].at = step, ![c].claim = given]
            /\ ~request[c].crossed /\ d \in pinVerified => step = "row" \/ given = "open"
      <3>1. CASE ReadUser(c)
        BY <3>1 DEF ReadUser
      <3>2. CASE RotateRow(c)
        <4>1. request[c].claim \in {"setup", "locked"}
          BY <3>2 DEF RotateRow, ReadsTrue
        <4>2. ClaimOf(request[c]) \in {"setup", "locked", "open"}
          BY <4>1 DEF ClaimOf
        <4>3. ~request[c].crossed /\ d \in pinVerified => request[c].claim = "locked"
          BY <3>2, <4>1 DEF RotateRow, ReadsTrue, FoundNoPin, LockInv, VerifiedActive
        <4>4. ~request[c].crossed /\ d \in pinVerified => ClaimOf(request[c]) = "open"
          BY <4>3 DEF ClaimOf
        <4>5. PICK granted : /\ granted = ClaimOf(request[c]) \/ granted = "open"
                             /\ request' = [request EXCEPT ![c].at = "answer", ![c].claim = granted]
          BY <3>2 DEF RotateRow
        <4> QED
          BY <4>2, <4>4, <4>5
      <3> QED
        BY <1>6, <3>1, <3>2
    <2> DEFINE q == request[c]
               r == [q EXCEPT !.at = step, !.claim = given]
    <2>2. request' = [request EXCEPT ![c] = r]
      BY <2>1 DEF LockInv, LockTypeOK
    <2>3. /\ r \in RequestType /\ r.op = q.op /\ r.of = d /\ r.at = step /\ r.claim = given
          /\ r.crossed = q.crossed
      BY <1>2 DEF RequestType, Steps
    <2>4. q.op = "refresh"
      BY <1>6 DEF ReadUser, RotateRow, Waits
    <2> HIDE DEF r
    <2>5. /\ request' \in [Requests -> RequestType]
          /\ \A b \in Requests : request'[b] = IF b = c THEN r ELSE request[b]
      BY <2>2, <2>3 DEF LockInv, LockTypeOK
    <2>6. UNCHANGED <<pinStatus, pinVerified, claim, lockState, verifiedRef, lockFrame, excused>>
      BY <1>6 DEF ReadUser, RotateRow
    <2>7. LockTypeOK'
      BY <1>2, <2>3, <2>5, <2>6 DEF LockInv, LockTypeOK
    <2>8. RefreshTrue'
      BY <2>1, <2>3, <2>5, <2>6 DEF LockInv, RefreshTrue, Waits
    <2>9. Publishing' = Publishing
      BY <2>3, <2>4, <2>5 DEF Publishing, Waits
    <2> QED
      BY <2>6, <2>7, <2>8, <2>9 DEF LockInv, VerifiedActive, RefBacked
  <1>7. CASE SetRow(c)
    <2>1. /\ request' = [Crossing(HaveRow({d})) EXCEPT ![c].at = "answer"]
          /\ request[c].op \in {"setup", "verify"} /\ request[c].at = "row"
          /\ pinVerified' = pinVerified \union {d} /\ pinStatus = "ACTIVE"
          /\ UNCHANGED <<pinStatus, claim, lockState, verifiedRef, lockFrame, excused>>
      BY <1>7 DEF SetRow, Waits
    <2>2. /\ request' \in [Requests -> RequestType]
          /\ \A b \in Requests :
               /\ request'[b].op = request[b].op /\ request'[b].of = request[b].of
               /\ request'[b].claim = request[b].claim
               /\ request'[b].at = IF b = c THEN "answer" ELSE request[b].at
               /\ ~request'[b].crossed => ~request[b].crossed /\ b \notin HaveRow({d})
      <3>1. PICK cs \in SUBSET Requests : cs = HaveRow({d})
        BY DEF HaveRow
      <3>2. request' = [Crossing(cs) EXCEPT ![c].at = "answer"] /\ "answer" \in Steps
        BY <2>1, <3>1 DEF Steps
      <3>3. /\ request' \in [Requests -> RequestType]
            /\ \A b \in Requests :
                 /\ request'[b].op = request[b].op /\ request'[b].of = request[b].of
                 /\ request'[b].claim = request[b].claim
                 /\ request'[b].at = IF b = c THEN "answer" ELSE request[b].at
                 /\ ~request'[b].crossed => ~request[b].crossed /\ b \notin cs
        BY <3>2, CrossingStep
      <3> QED
        BY <3>1, <3>3
    <2>3. LockTypeOK'
      BY <1>2, <2>1, <2>2 DEF LockInv, LockTypeOK
    <2>4. RefreshTrue'
      <3> SUFFICES ASSUME NEW b \in Requests, Waits(b, "refresh", "answer")',
                          ~request'[b].crossed, request'[b].of \in pinVerified'
                   PROVE  request'[b].claim = "open"
        BY DEF RefreshTrue
      <3>1. b # c /\ Waits(b, "refresh", "answer")
        BY <2>1, <2>2 DEF Waits
      <3>2. b \notin HaveRow({d}) /\ ~request[b].crossed
        BY <2>2
      <3>3. request[b].of # d
        BY <3>1, <3>2 DEF HaveRow
      <3>4. request[b].of \in pinVerified
        BY <2>1, <2>2, <3>3
      <3> QED
        BY <2>2, <3>1, <3>2, <3>4 DEF LockInv, RefreshTrue
    <2>5. \A b \in Requests : Waits(b, "lock", "publish")' = Waits(b, "lock", "publish")
      <3> SUFFICES ASSUME NEW b \in Requests
                   PROVE  Waits(b, "lock", "publish")' = Waits(b, "lock", "publish")
        OBVIOUS
      <3>1. CASE b = c
        BY <2>1, <2>2, <3>1 DEF Waits
      <3>2. CASE b # c
        BY <2>2, <3>2 DEF Waits
      <3> QED
        BY <3>1, <3>2
    <2>6. Publishing' = Publishing
      BY <2>5 DEF Publishing
    <2> QED
      BY <2>1, <2>3, <2>4, <2>6 DEF LockInv, VerifiedActive, RefBacked
  <1>8. CASE ClearAll(c)
    <2>1. /\ request' = [Crossing(HaveRow(Devices)) EXCEPT ![c].at = "publish"]
          /\ request[c].op = "lock" /\ pinVerified' = {}
          /\ UNCHANGED <<pinStatus, claim, lockState, verifiedRef, lockFrame, excused>>
      BY <1>8 DEF ClearAll, Waits
    <2>2. /\ request' \in [Requests -> RequestType]
          /\ \A b \in Requests :
               /\ request'[b].op = request[b].op /\ request'[b].of = request[b].of
               /\ request'[b].at = IF b = c THEN "publish" ELSE request[b].at
      <3>1. HaveRow(Devices) \in SUBSET Requests /\ "publish" \in Steps
        BY DEF HaveRow, Steps
      <3> QED
        BY <2>1, <3>1, CrossingStep, ZenonT(40)
    <2>3. LockTypeOK'
      BY <2>1, <2>2 DEF LockInv, LockTypeOK
    <2>4. Publishing'
      BY <2>1, <2>2 DEF Publishing, Waits
    <2> QED
      BY <2>1, <2>3, <2>4 DEF LockInv, VerifiedActive, RefreshTrue, RefBacked
  <1>9. CASE PublishLock(c)
    <2> DEFINE q == request[c]
               r == [q EXCEPT !.at = "answer"]
    <2>1. /\ request' = [request EXCEPT ![c] = r] /\ q.op = "lock" /\ lockFrame' = Devices
          /\ UNCHANGED <<pinStatus, pinVerified, claim, lockState, verifiedRef, excused>>
      BY <1>9 DEF PublishLock, GoTo, Waits
    <2>2. r \in RequestType /\ r.op = "lock" /\ r.of = d
      BY <1>2, <2>1 DEF RequestType, Steps
    <2> HIDE DEF r
    <2>3. /\ request' \in [Requests -> RequestType]
          /\ \A b \in Requests : request'[b] = IF b = c THEN r ELSE request[b]
      BY <2>1, <2>2 DEF LockInv, LockTypeOK
    <2>4. LockTypeOK'
      BY <1>2, <2>1, <2>2, <2>3 DEF LockInv, LockTypeOK
    <2>5. RefreshTrue'
      BY <2>1, <2>2, <2>3 DEF LockInv, RefreshTrue, Waits
    <2>6. RefBacked'
      BY <2>1 DEF LockInv, LockTypeOK, RefBacked
    <2> QED
      BY <2>1, <2>4, <2>5, <2>6 DEF LockInv, VerifiedActive
  <1> QED
    BY <1>3, <1>4, <1>5, <1>6, <1>7, <1>8, <1>9

\* A lock that is not published excuses every device.
LEMMA FailStepInv ==
  ASSUME LockInv, NEW c \in Requests, RequestFails(c)
  PROVE  LockInv'
  <1> DEFINE d == request[c].of
  <1> USE DEF rows, pageVars, Show, LockHere, Leaves
  <1>1. /\ request[c] # NoRequest /\ request' = [request EXCEPT ![c] = NoRequest]
        /\ UNCHANGED <<pinStatus, pinVerified, lockFrame>>
        /\ excused' = IF Waits(c, "lock", "publish") THEN Devices ELSE excused
    BY DEF RequestFails, EndRequest
  <1>2. /\ request' \in [Requests -> RequestType]
        /\ \A b \in Requests : request'[b] = IF b = c THEN NoRequest ELSE request[b]
    BY <1>1, NoRequestType DEF LockInv, LockTypeOK
  <1>3. /\ claim' \in [Devices -> {"setup", "locked", "open", "none"}]
        /\ lockState' \in [Devices -> {"active", "pin_setup", "pin_required", "screenshot_blocked"}]
        /\ verifiedRef' \subseteq verifiedRef
        /\ \A e \in Devices : e \in verifiedRef' => claim'[e] = claim[e]
    <2>1. CASE request[c].op = "lock"
      BY <2>1 DEF RequestFails, LockInv, LockTypeOK
    <2>2. CASE request[c].op = "cancel"
      BY <2>2 DEF RequestFails, LockInv, LockTypeOK
    <2>3. CASE request[c].op \notin {"lock", "cancel"}
      BY <2>3 DEF RequestFails, LockInv, LockTypeOK
    <2> QED
      BY <2>1, <2>2, <2>3
  <1>4. LockTypeOK'
    BY <1>1, <1>2, <1>3, NoRequestType DEF LockInv, LockTypeOK
  <1>5. RefreshTrue'
    BY <1>1, <1>2, NoRequestType DEF LockInv, RefreshTrue, Waits
  <1>6. RefBacked'
    <2>1. CASE Waits(c, "lock", "publish")
      BY <1>1, <1>4, <2>1 DEF LockTypeOK, RefBacked
    <2>2. CASE ~Waits(c, "lock", "publish")
      <3>1. Publishing => Publishing'
        BY <1>2, <2>2 DEF Publishing, Waits
      <3> QED
        BY <1>1, <1>3, <2>2, <3>1 DEF LockInv, LockTypeOK, RefBacked
    <2> QED
      BY <2>1, <2>2
  <1> QED
    BY <1>1, <1>4, <1>5, <1>6 DEF LockInv, VerifiedActive

\* Frames, clocks, screens and reloads.
LEMMA DeviceStepInv ==
  ASSUME LockInv, NEW d \in Devices,
         \/ LockFrame(d) \/ LoseFrame(d) \/ Inactive(d) \/ Lapse(d)
         \/ Screenshot(d) \/ Click(d) \/ Reload(d)
  PROVE  LockInv'
  <1> USE DEF rows, pageVars, Show, LockHere
  <1>1. UNCHANGED <<pinStatus, claim, request>> /\ pinVerified' \subseteq pinVerified
    BY DEF LockFrame, LoseFrame, Inactive, Lapse, Screenshot, Click, Reload
  <1>2. RefreshTrue' /\ Publishing' = Publishing /\ VerifiedActive'
    BY <1>1 DEF LockInv, RefreshTrue, Publishing, VerifiedActive, Waits
  <1> SUFFICES /\ lockState' \in [Devices -> {"active", "pin_setup", "pin_required",
                                              "screenshot_blocked"}]
               /\ verifiedRef' \subseteq Devices /\ excused' \subseteq Devices
               /\ lockFrame' \subseteq Devices
               /\ RefBacked'
    BY <1>1, <1>2 DEF LockInv, LockTypeOK
  <1>3. CASE LockFrame(d)
    BY <1>2, <1>3 DEF LockInv, LockTypeOK, RefBacked, LockFrame
  <1>4. CASE LoseFrame(d)
    BY <1>2, <1>4 DEF LockInv, LockTypeOK, RefBacked, LoseFrame
  <1>5. CASE Inactive(d)
    BY <1>2, <1>5 DEF LockInv, LockTypeOK, RefBacked, Inactive
  <1>6. CASE Lapse(d)
    BY <1>2, <1>6 DEF LockInv, LockTypeOK, RefBacked, Lapse
  <1>7. CASE Screenshot(d)
    BY <1>2, <1>7 DEF LockInv, LockTypeOK, RefBacked, Screenshot
  <1>8. CASE Click(d)
    BY <1>2, <1>8 DEF LockInv, LockTypeOK, RefBacked, Click
  <1>9. CASE Reload(d)
    BY <1>2, <1>9 DEF LockInv, LockTypeOK, RefBacked, Reload
  <1> QED
    BY <1>3, <1>4, <1>5, <1>6, <1>7, <1>8, <1>9

\* Nothing but the first PIN makes a user active, and it crosses whoever found none.
LEMMA ReadsStep ==
  ASSUME LockInv, ReadsTrue, LockNext
  PROVE  ReadsTrue'
  <1> USE DEF rows, pageVars
  <1> DEFINE Still == pinStatus' = "ACTIVE" => pinStatus = "ACTIVE"
  <1>1. \A b \in Requests : request[b] \in RequestType
    BY DEF LockInv, LockTypeOK
  <1>2. ASSUME NEW c \in Requests, NEW q, request' = [request EXCEPT ![c] = q],
               q.op # "refresh" \/ q.at \notin {"row", "answer"}, Still
        PROVE  ReadsTrue'
    <2>1. \A b \in Requests : request'[b] = IF b = c THEN q ELSE request[b]
      BY <1>2 DEF LockInv, LockTypeOK
    <2> QED
      BY <1>2, <2>1 DEF ReadsTrue, FoundNoPin, Waits
  <1>3. ASSUME request' = request, Still
        PROVE  ReadsTrue'
    BY <1>3 DEF ReadsTrue, FoundNoPin, Waits
  <1>4. ASSUME NEW c \in Requests, NEW step, GoTo(c, step), request[c].op # "refresh", Still
        PROVE  ReadsTrue'
    <2> DEFINE k == request[c]
               q == [k EXCEPT !.at = step]
    <2>1. request' = [request EXCEPT ![c] = q]
      BY <1>4 DEF GoTo
    <2>2. q.op # "refresh"
      BY <1>1, <1>4 DEF RequestType
    <2> HIDE DEF q
    <2> QED
      BY <1>2, <1>4, <2>1, <2>2
  <1>5. ASSUME NEW c \in Requests, NEW cs \in SUBSET Requests, NEW step \in Steps,
               request' = [Crossing(cs) EXCEPT ![c].at = step], request[c].op # "refresh",
               Still \/ cs = FoundNoPin
        PROVE  ReadsTrue'
    <2> HIDE DEF Still
    <2>1. /\ request' \in [Requests -> RequestType]
          /\ \A b \in Requests :
               /\ request'[b].op = request[b].op /\ request'[b].of = request[b].of
               /\ request'[b].claim = request[b].claim
               /\ request'[b].at = IF b = c THEN step ELSE request[b].at
               /\ ~request'[b].crossed => ~request[b].crossed /\ b \notin cs
      BY <1>5, CrossingStep
    <2>2. \A b \in Requests :
            /\ Waits(b, "refresh", "row")' => Waits(b, "refresh", "row")
            /\ Waits(b, "refresh", "answer")' => Waits(b, "refresh", "answer")
      BY <1>5, <2>1 DEF Waits
    <2>3. \A b \in Requests : b \in FoundNoPin' => b \in FoundNoPin
      BY <2>1, <2>2 DEF FoundNoPin
    <2> QED
      BY <1>5, <2>1, <2>2, <2>3 DEF ReadsTrue, Still
  <1>6. ASSUME NEW c \in Requests, NEW d \in Devices,
               \/ CheckStatus(c, d) \/ RequestData(c, d) \/ SubmitSetup(c, d) \/ SubmitPin(c, d)
               \/ PressLock(c, d) \/ StartRefresh(c, d) \/ PressCancel(c, d)
        PROVE  ReadsTrue'
    <2>1. PICK op, step : Ask(c, d, op, step) /\ (op # "refresh" \/ step = "read")
      BY <1>6 DEF CheckStatus, RequestData, SubmitSetup, SubmitPin, PressLock, StartRefresh,
                  PressCancel
    <2> DEFINE q == [op |-> op, of |-> d, at |-> step, claim |-> claim[d], crossed |-> FALSE]
    <2>2. /\ request' = [request EXCEPT ![c] = q] /\ pinStatus' = pinStatus
          /\ q.op # "refresh" \/ q.at \notin {"row", "answer"}
      BY <2>1 DEF Ask
    <2> HIDE DEF q
    <2> QED
      BY <1>2, <2>2
  <1>7. ASSUME NEW c \in Requests,
               \/ StatusAnswer(c) \/ DataAnswer(c) \/ EntryAnswer(c) \/ LockAnswer(c)
               \/ RefreshAnswer(c) \/ CancelAnswer(c) \/ RequestFails(c)
        PROVE  ReadsTrue'
    <2>1. EndRequest(c) /\ pinStatus' = pinStatus
      BY <1>7 DEF StatusAnswer, DataAnswer, EntryAnswer, LockAnswer, RefreshAnswer, CancelAnswer,
                  RequestFails
    <2> QED
      BY <1>2, <2>1, NoRequestType DEF EndRequest
  <1>8. ASSUME NEW c \in Requests, CheckCancel(c) \/ DeleteUser(c) \/ PublishLock(c)
        PROVE  ReadsTrue'
    <2>1. PICK step : GoTo(c, step) /\ Still /\ request[c].op # "refresh"
      BY <1>8 DEF CheckCancel, DeleteUser, PublishLock, Waits
    <2> QED
      BY <1>4, <2>1
  <1>9. ASSUME NEW c \in Requests, SetPin(c) \/ SetRow(c) \/ ClearAll(c)
        PROVE  ReadsTrue'
    <2> DEFINE d == request[c].of
    <2>1. /\ FoundNoPin \in SUBSET Requests /\ HaveRow({d}) \in SUBSET Requests
          /\ HaveRow(Devices) \in SUBSET Requests /\ {"row", "answer", "publish"} \subseteq Steps
      BY DEF FoundNoPin, HaveRow, Steps
    <2>2. request[c].op # "refresh"
      BY <1>9 DEF SetPin, SetRow, ClearAll, Waits
    <2>3. CASE SetPin(c)
      <3>1. request' = [Crossing(FoundNoPin) EXCEPT ![c].at = "row"]
        BY <2>3 DEF SetPin
      <3> QED
        BY <1>5, <2>1, <2>2, <3>1
    <2>4. CASE SetRow(c)
      <3>1. request' = [Crossing(HaveRow({d})) EXCEPT ![c].at = "answer"] /\ pinStatus' = pinStatus
        BY <2>4 DEF SetRow
      <3> QED
        BY <1>5, <2>1, <2>2, <3>1
    <2>5. CASE ClearAll(c)
      <3>1. request' = [Crossing(HaveRow(Devices)) EXCEPT ![c].at = "publish"]
            /\ pinStatus' = pinStatus
        BY <2>5 DEF ClearAll
      <3> QED
        BY <1>5, <2>1, <2>2, <3>1
    <2> QED
      BY <1>9, <2>3, <2>4, <2>5
  <1>10. ASSUME NEW c \in Requests, NEW given, NEW step,
                request' = [request EXCEPT ![c].at = step, ![c].claim = given],
                step = "row" => given \in {"setup", "locked"},
                given = "setup" /\ ~request[c].crossed => pinStatus # "ACTIVE",
                pinStatus' = pinStatus
         PROVE  ReadsTrue'
    <2> DEFINE k == request[c]
               q == [k EXCEPT !.at = step, !.claim = given]
    <2>1. request' = [request EXCEPT ![c] = q]
      BY <1>10 DEF LockInv, LockTypeOK
    <2>2. q.at = step /\ q.claim = given /\ q.crossed = k.crossed
      BY <1>1 DEF RequestType
    <2> HIDE DEF q
    <2>3. \A b \in Requests : request'[b] = IF b = c THEN q ELSE request[b]
      BY <2>1 DEF LockInv, LockTypeOK
    <2>4. /\ Waits(c, "refresh", "row")' => request'[c].claim \in {"setup", "locked"}
          /\ c \in FoundNoPin' /\ ~request'[c].crossed => pinStatus' # "ACTIVE"
      BY <1>10, <2>2, <2>3 DEF FoundNoPin, Waits
    <2>5. ASSUME NEW b \in Requests \ {c}
          PROVE  /\ Waits(b, "refresh", "row")' => request'[b].claim \in {"setup", "locked"}
                 /\ b \in FoundNoPin' /\ ~request'[b].crossed => pinStatus' # "ACTIVE"
      BY <1>10, <2>3 DEF ReadsTrue, FoundNoPin, Waits
    <2> QED
      BY <2>4, <2>5 DEF ReadsTrue
  <1>11. ASSUME NEW c \in Requests, ReadUser(c)
         PROVE  ReadsTrue'
    <2>1. PICK found \in {"setup", "locked"} :
             /\ request' = [request EXCEPT ![c].at = "row", ![c].claim = found]
             /\ found = "setup" => pinStatus # "ACTIVE"
      BY <1>11 DEF ReadUser
    <2>2. pinStatus' = pinStatus
      BY <1>11 DEF ReadUser
    <2> QED
      BY <1>10, <2>1, <2>2
  <1>12. ASSUME NEW c \in Requests, RotateRow(c)
         PROVE  ReadsTrue'
    <2>1. PICK given : /\ given = ClaimOf(request[c]) \/ given = "open"
                       /\ request' = [request EXCEPT ![c].at = "answer", ![c].claim = given]
      BY <1>12 DEF RotateRow
    <2>2. given = "setup" => c \in FoundNoPin
      BY <1>12, <2>1 DEF RotateRow, ClaimOf, FoundNoPin
    <2>3. given = "setup" /\ ~request[c].crossed => pinStatus # "ACTIVE"
      BY <2>2 DEF ReadsTrue
    <2>4. pinStatus' = pinStatus /\ "answer" # "row"
      BY <1>12 DEF RotateRow
    <2> QED
      BY <1>10, <2>1, <2>3, <2>4
  <1>13. ASSUME NEW d \in Devices,
                \/ LockFrame(d) \/ LoseFrame(d) \/ Inactive(d) \/ Lapse(d)
                \/ Screenshot(d) \/ Click(d) \/ Reload(d)
         PROVE  ReadsTrue'
    BY <1>3, <1>13 DEF LockFrame, LoseFrame, Inactive, Lapse, Screenshot, Click, Reload
  <1> QED
    BY <1>6, <1>7, <1>8, <1>9, <1>11, <1>12, <1>13 DEF LockNext

LEMMA LockNextInv == LockInv /\ ReadsTrue /\ [LockNext]_lockVars => LockInv' /\ ReadsTrue'
  <1> SUFFICES ASSUME LockInv, ReadsTrue, [LockNext]_lockVars PROVE LockInv' /\ ReadsTrue'
    OBVIOUS
  <1>1. CASE UNCHANGED lockVars
    BY <1>1 DEF lockVars, rows, pageVars, LockInv, LockTypeOK, VerifiedActive, RefreshTrue,
                RefBacked, Publishing, Waits, ReadsTrue, FoundNoPin
  <1>2. CASE LockNext
    <2>1. LockInv'
      BY <1>2, AskStepInv, AnswerStepInv, RowStepInv, FailStepInv, DeviceStepInv DEF LockNext
    <2> QED
      BY <1>2, <2>1, ReadsStep
  <1> QED
    BY <1>1, <1>2

\* What each screen believes is backed by row and cookie, or a lock is on its way, in
\* every reachable state.
THEOREM LockInvariance == LockSpec => [](LockInv /\ ReadsTrue)
  <1>1. LockInit => ReadsTrue
    BY NoRequestType DEF LockInit, ReadsTrue, FoundNoPin, Waits
  <1> QED
    BY <1>1, LockInitInv, LockNextInv, PTL DEF LockSpec

\* Once its requests and the lock frames are over, a page that believes the PIN was
\* entered has gateway and row believe so, whatever requests of whatever devices
\* overlapped.
THEOREM ScreensAgree == LockSpec => []ScreenAgrees
  <1>1. LockInv => ScreenAgrees
    <2> SUFFICES ASSUME LockInv, NEW d \in Devices \ (excused \union lockFrame),
                        d \in verifiedRef, ~ \E e \in Devices : Busy(e, {"lock"})
                 PROVE  d \in pinVerified /\ claim[d] = "open"
      BY DEF ScreenAgrees
    <2>1. ~Publishing
      BY DEF LockInv, LockTypeOK, Publishing, Waits, Busy, Running
    <2> QED
      BY <2>1 DEF LockInv, RefBacked
  <1> QED
    BY <1>1, LockInvariance, PTL

-------------------------------------------------------------------------------
(* Calls: the steps of the browsers.                                       *)

LEMMA BlankEngine ==
  Blank \in Engines /\ Blank.call = None /\ ~Blank.accepted
  BY DEF Blank, Engines

LEMMA CallInitInv == Init => CallInv
  <1> SUFFICES ASSUME Init PROVE CallInv
    OBVIOUS
  <1>1. CallTypeOK
    BY BlankEngine DEF Init, CallTypeOK
  <1>2. \A u \in Users : engine[u].call = None /\ \A f \in Functions : running[u][f] = Done
    BY BlankEngine DEF Init
  <1>3. EngagedPicked
    BY <1>2 DEF EngagedPicked
  <1>4. FunctionsPicked
    BY <1>2 DEF FunctionsPicked, Functions
  <1>5. PickupKept
    BY DEF Init, PickupKept
  <1> QED
    BY <1>1, <1>3, <1>4, <1>5 DEF CallInv

LEMMA FrameType ==
  ASSUME NEW c \in Nat,
         NEW name \in {"call.incoming", "call.accepted", "call.ended", "offer", "answer"}
  PROVE  Frame(name, c) \in Frames
  BY DEF Frame, Frames

\* Frames that are sent are frames.
LEMMA Sent ==
  ASSUME CallTypeOK, NEW v, NEW frames \in Seq(Frames), Tell(v, frames)
  PROVE  wire' \in [Users -> Seq(Frames)]
  <1>1. \A s \in Seq(Frames) : s \o frames \in Seq(Frames)
    BY ConcatProperties
  <1> QED
    BY <1>1 DEF CallTypeOK, Tell
LEMMA Taken ==
  ASSUME CallTypeOK, NEW u \in Users, wire[u] # << >>, Take(u)
  PROVE  wire' \in [Users -> Seq(Frames)]
  BY DEF CallTypeOK, Take
LEMMA TakenAndSent ==
  ASSUME CallTypeOK, NEW u \in Users, wire[u] # << >>, NEW frames \in Seq(Frames),
         TakeAndTell(u, frames)
  PROVE  wire' \in [Users -> Seq(Frames)]
  <1>1. \A s \in Seq(Frames) : s \o frames \in Seq(Frames)
    BY ConcatProperties
  <1>2. Tail(wire[u]) \in Seq(Frames)
    BY DEF CallTypeOK
  <1> DEFINE p == Peer(u)
             w == [v \in Users |-> IF v = u THEN Tail(wire[u]) ELSE wire[v]]
  <1>3. w \in [Users -> Seq(Frames)]
    BY <1>2 DEF CallTypeOK
  <1>4. wire' = [wire EXCEPT ![u] = Tail(@), ![p] = @ \o frames]
    BY DEF TakeAndTell
  <1> HIDE DEF p
  <1>5. wire' = [v \in Users |-> IF v = p THEN w[v] \o frames ELSE w[v]]
    <2>1. CASE p = u
      BY <1>4, <2>1 DEF CallTypeOK
    <2>2. CASE p # u
      <3>1. wire' = [v \in Users |-> wire'[v]]
        BY <1>4 DEF CallTypeOK
      <3>2. \A v \in Users : v # u /\ v # p => wire'[v] = wire[v]
        BY <1>4 DEF CallTypeOK
      <3>3. wire'[u] = Tail(wire[u])
        BY <1>4, <2>2 DEF CallTypeOK
      <3>4. p \in Users => wire'[p] = wire[p] \o frames
        BY <1>4, <2>2 DEF CallTypeOK
      <3> QED
        BY <2>2, <3>1, <3>2, <3>3, <3>4
    <2> QED
      BY <2>1, <2>2
  <1> HIDE DEF w
  <1> QED
    BY <1>1, <1>3, <1>5
LEMMA SignalFrames ==
  ASSUME NEW e \in Engines
  PROVE  OfferFrame(e) \in Seq(Frames) /\ AnswerFrame(e) \in Seq(Frames)
  <1>1. CASE e.call = None
    BY <1>1 DEF OfferFrame, AnswerFrame
  <1>2. CASE e.call # None
    <2>1. e.call \in Nat
      BY <1>2 DEF Engines
    <2>2. Frame("offer", e.call) \in Frames /\ Frame("answer", e.call) \in Frames
      BY <2>1, FrameType
    <2> QED
      BY <1>2, <2>2 DEF OfferFrame, AnswerFrame
  <1> QED
    BY <1>1, <1>2

\* A step of one browser that changes its engine to e and its functions to r keeps
\* the invariant if it keeps what it says of that browser.
LEMMA OneBrowser ==
  ASSUME CallInv, NEW u \in Users, NEW e \in Engines,
         NEW r \in [Functions -> {Done} \union UnderWay],
         engine' = [engine EXCEPT ![u] = e], running' = [running EXCEPT ![u] = r],
         wire' \in [Users -> Seq(Frames)],
         room' \in Seq({"ringing", "active", "ended", "rejected"}),
         picked \subseteq picked', overtaken \subseteq overtaken',
         \A f \in {"start", "accept"} : r[f] # Done => <<u, r[f].call>> \in picked',
         u \notin overtaken' /\ e.call # None
           /\ (e.accepted \/ \E f \in {"start", "accept", "answer"} : r[f].at = "media")
           => <<u, e.call>> \in picked',
         \/ UNCHANGED answered
         \/ /\ answered' = answered \union {<<u, e.call>>}
            /\ u \notin overtaken' => <<u, e.call>> \in picked'
  PROVE  CallInv'
  <1>1. CallTypeOK'
    BY DEF CallInv, CallTypeOK
  <1>2. \A v \in Users : /\ engine'[v] = IF v = u THEN e ELSE engine[v]
                         /\ running'[v] = IF v = u THEN r ELSE running[v]
    BY DEF CallInv, CallTypeOK
  <1>3. EngagedPicked'
    <2> SUFFICES ASSUME NEW v \in Users \ overtaken', Engaged(v)', engine'[v].call # None
                 PROVE  <<v, engine'[v].call>> \in picked'
      BY DEF EngagedPicked
    <2>1. CASE v = u
      BY <1>2, <2>1 DEF Engaged
    <2>2. CASE v # u
      <3>1. engine'[v] = engine[v] /\ running'[v] = running[v] /\ v \in Users \ overtaken
        BY <1>2, <2>2
      <3>2. Engaged(v)
        BY <3>1 DEF Engaged
      <3> QED
        BY <3>1, <3>2 DEF CallInv, EngagedPicked
    <2> QED
      BY <2>1, <2>2
  <1>4. FunctionsPicked'
    <2> SUFFICES ASSUME NEW v \in Users, NEW f \in {"start", "accept"}, running'[v][f] # Done
                 PROVE  <<v, running'[v][f].call>> \in picked'
      BY DEF FunctionsPicked
    <2>1. CASE v = u
      BY <1>2, <2>1
    <2>2. CASE v # u
      BY <1>2, <2>2 DEF CallInv, FunctionsPicked
    <2> QED
      BY <2>1, <2>2
  <1>5. PickupKept'
    <2> SUFFICES ASSUME NEW a \in answered' PROVE a \in picked' \/ a[1] \in overtaken'
      BY DEF PickupKept
    <2>1. CASE a \in answered
      BY <2>1 DEF CallInv, PickupKept
    <2>2. CASE a = <<u, e.call>> /\ (u \notin overtaken' => <<u, e.call>> \in picked')
      BY <2>2
    <2> QED
      BY <2>1, <2>2
  <1> QED
    BY <1>1, <1>3, <1>4, <1>5 DEF CallInv

LEMMA OfBrowser ==
  ASSUME CallInv, NEW u \in Users
  PROVE  /\ engine[u] \in Engines /\ running[u] \in [Functions -> {Done} \union UnderWay]
         /\ engine = [engine EXCEPT ![u] = engine[u]]
         /\ running = [running EXCEPT ![u] = running[u]]
         /\ \A f \in {"start", "accept"} :
              running[u][f] # Done => <<u, running[u][f].call>> \in picked
         /\ u \notin overtaken /\ engine[u].call # None
              /\ (engine[u].accepted
                  \/ \E f \in {"start", "accept", "answer"} : running[u][f].at = "media")
              => <<u, engine[u].call>> \in picked
  BY DEF CallInv, CallTypeOK, EngagedPicked, Engaged, FunctionsPicked

\* A function of a browser goes on, or ends.
LEMMA FunctionMoves ==
  ASSUME CallInv, NEW u \in Users, NEW f \in Functions, NEW x \in {Done} \union UnderWay,
         NEW r, r = [running[u] EXCEPT ![f] = x]
  PROVE  /\ r \in [Functions -> {Done} \union UnderWay]
         /\ \A h \in Functions : r[h] = IF h = f THEN x ELSE running[u][h]
  BY DEF CallInv, CallTypeOK
LEMMA DoneIsOver == Done.at = "done"
  BY DEF Done

\* The status of a call changes.
LEMMA RoomStep ==
  ASSUME CallTypeOK, NEW c, NEW s \in {"ringing", "active", "ended", "rejected"},
         room' = [room EXCEPT ![c] = s]
  PROVE  room' \in Seq({"ringing", "active", "ended", "rejected"})
  <1>1. CASE c \in 1 .. Len(room)
    BY <1>1, ExceptSeq DEF CallTypeOK
  <1>2. CASE c \notin 1 .. Len(room)
    <2>1. room' = room
      BY <1>2 DEF CallTypeOK
    <2> QED
      BY <2>1 DEF CallTypeOK
  <1> QED
    BY <1>1, <1>2

LEMMA EngineSteps ==
  ASSUME NEW e \in Engines, NEW c \in Nat
  PROVE  /\ Offering(e) \in Engines /\ Offering(e).call = e.call /\ Offering(e).accepted = e.accepted
         /\ Answering(e) \in Engines /\ Answering(e).call = e.call
         /\ Answering(e).accepted = e.accepted
         /\ Attach(e, c) \in Engines /\ ~Attach(e, c).accepted
         /\ Cleanup(e) \in Engines /\ Cleanup(e).call = None
  <1>1. Offering(e) \in Engines /\ Offering(e).call = e.call /\ Offering(e).accepted = e.accepted
    BY DEF Offering, Engines
  <1>2. /\ Answering(e) \in Engines /\ Answering(e).call = e.call
        /\ Answering(e).accepted = e.accepted
    BY DEF Answering, Engines
  <1>3. Attach(e, c) \in Engines /\ ~Attach(e, c).accepted
    BY DEF Attach, Engines
  <1>4. Cleanup(e) \in Engines /\ Cleanup(e).call = None
    BY BlankEngine DEF Cleanup
  <1> QED
    BY <1>1, <1>2, <1>3, <1>4

\* Buttons.
LEMMA PressInv ==
  ASSUME CallInv, NEW u \in Users, Start(u) \/ Accept(u) \/ Leave(u)
  PROVE  CallInv'
  <1>1. /\ engine[u] \in Engines /\ running[u] \in [Functions -> {Done} \union UnderWay]
        /\ engine = [engine EXCEPT ![u] = engine[u]]
        /\ \A f \in {"start", "accept"} :
             running[u][f] # Done => <<u, running[u][f].call>> \in picked
        /\ u \notin overtaken /\ engine[u].call # None
             /\ (engine[u].accepted
                 \/ \E f \in {"start", "accept", "answer"} : running[u][f].at = "media")
             => <<u, engine[u].call>> \in picked
    BY OfBrowser
  <1>2. CASE Start(u)
    <2> DEFINE n == Len(room) + 1
               e == [engine[u] EXCEPT !.accepted = TRUE]
               x == [at |-> "creating", call |-> n]
               r == [running[u] EXCEPT !["start"] = x]
    <2>1. /\ engine' = [engine EXCEPT ![u] = e] /\ running' = [running EXCEPT ![u] = r]
          /\ engine[u].call = None
          /\ room' = Append(room, "ringing")
          /\ Tell(Peer(u), << Frame("call.incoming", n) >>)
          /\ picked' = picked \union {<<u, n>>}
          /\ UNCHANGED <<answered, overtaken>>
      BY <1>2 DEF Start, Become, CallInv, CallTypeOK
    <2>2. n \in Nat /\ room' \in Seq({"ringing", "active", "ended", "rejected"})
      BY <2>1 DEF CallInv, CallTypeOK
    <2>3. << Frame("call.incoming", n) >> \in Seq(Frames)
      BY <2>2, FrameType
    <2>4. wire' \in [Users -> Seq(Frames)]
      BY <2>1, <2>3, Sent DEF CallInv
    <2>5. e \in Engines /\ e.call = None
      BY <1>1, <2>1 DEF Engines
    <2>6. x \in UnderWay
      BY <2>2 DEF UnderWay
    <2>7. /\ r \in [Functions -> {Done} \union UnderWay]
          /\ \A f \in {"start", "accept"} : r[f] # Done => <<u, r[f].call>> \in picked'
      BY <1>1, <2>1, <2>6 DEF Functions
    <2> HIDE DEF e, r
    <2> QED
      BY <2>1, <2>2, <2>4, <2>5, <2>7, OneBrowser
  <1>3. CASE Accept(u)
    <2> DEFINE c == engine[u].call
               x == [at |-> "asking", call |-> c]
               r == [running[u] EXCEPT !["accept"] = x]
    <2>1. /\ UNCHANGED engine /\ running' = [running EXCEPT ![u] = r]
          /\ c # None
          /\ room' = [room EXCEPT ![c] = "active"]
          /\ Tell(Peer(u), << Frame("call.accepted", c) >>)
          /\ picked' = picked \union {<<u, c>>}
          /\ UNCHANGED answered /\ overtaken \subseteq overtaken'
      BY <1>3 DEF Accept, Become, Overtake, CallInv, CallTypeOK
    <2>2. c \in Nat /\ room' \in Seq({"ringing", "active", "ended", "rejected"})
      BY <1>1, <2>1, RoomStep DEF CallInv, Engines
    <2>3. << Frame("call.accepted", c) >> \in Seq(Frames)
      BY <2>2, FrameType
    <2>4. wire' \in [Users -> Seq(Frames)]
      BY <2>1, <2>3, Sent DEF CallInv
    <2>5. x \in UnderWay
      BY <2>2 DEF UnderWay
    <2>6. /\ r \in [Functions -> {Done} \union UnderWay]
          /\ \A f \in {"start", "accept"} : r[f] # Done => <<u, r[f].call>> \in picked'
      BY <1>1, <2>1, <2>5 DEF Functions
    <2> HIDE DEF r
    <2> QED
      BY <1>1, <2>1, <2>2, <2>4, <2>6, OneBrowser
  <1>4. CASE Leave(u)
    <2> DEFINE c == engine[u].call
    <2>1. PICK how \in {"ended", "rejected"} :
            /\ Become(u, "leave", how, c)
            /\ IF c = None THEN UNCHANGED <<room, wire, over>>
               ELSE /\ room' = [room EXCEPT ![c] = how]
                    /\ TellBoth(Frame("call.ended", c))
      BY <1>4 DEF Leave
    <2> DEFINE x == [at |-> how, call |-> c]
               r == [running[u] EXCEPT !["leave"] = x]
    <2>2. /\ UNCHANGED <<engine, answered, picked, overtaken>>
          /\ running' = [running EXCEPT ![u] = r]
      BY <1>4, <2>1 DEF Leave, Become, CallInv, CallTypeOK
    <2>3. /\ wire' \in [Users -> Seq(Frames)]
          /\ room' \in Seq({"ringing", "active", "ended", "rejected"})
      <3>1. CASE c = None
        BY <2>1, <3>1 DEF CallInv, CallTypeOK
      <3>2. CASE c # None
        <4>1. c \in Nat
          BY <1>1, <3>2 DEF Engines
        <4>2. Frame("call.ended", c) \in Frames
          BY <4>1, FrameType
        <4>3. room' \in Seq({"ringing", "active", "ended", "rejected"})
          BY <2>1, <3>2, RoomStep DEF CallInv
        <4>4. \A s \in Seq(Frames) : Append(s, Frame("call.ended", c)) \in Seq(Frames)
          BY <4>2
        <4>5. wire' \in [Users -> Seq(Frames)]
          BY <2>1, <3>2, <4>4 DEF CallInv, CallTypeOK, TellBoth
        <4> QED
          BY <4>3, <4>5
      <3> QED
        BY <3>1, <3>2
    <2>4. x \in UnderWay
      BY <1>1 DEF UnderWay, Engines
    <2>5. /\ r \in [Functions -> {Done} \union UnderWay]
          /\ \A f \in {"start", "accept", "answer"} : r[f] = running[u][f]
      BY <1>1, <2>4 DEF Functions
    <2> HIDE DEF r
    <2>6. \A f \in {"start", "accept"} : r[f] # Done => <<u, r[f].call>> \in picked
      BY <1>1, <2>5
    <2>7. (\E f \in {"start", "accept", "answer"} : r[f].at = "media")
            => \E f \in {"start", "accept", "answer"} : running[u][f].at = "media"
      BY <2>5
    <2> QED
      BY <1>1, <2>2, <2>3, <2>5, <2>6, <2>7, OneBrowser
  <1> QED
    BY <1>2, <1>3, <1>4

\* Functions that go on.
LEMMA ProgressInv ==
  ASSUME CallInv, NEW u \in Users, Progress(u)
  PROVE  CallInv'
  <1>1. /\ engine[u] \in Engines /\ running[u] \in [Functions -> {Done} \union UnderWay]
        /\ engine = [engine EXCEPT ![u] = engine[u]]
        /\ \A f \in {"start", "accept"} :
             running[u][f] # Done => <<u, running[u][f].call>> \in picked
        /\ u \notin overtaken /\ engine[u].call # None
             /\ (engine[u].accepted
                 \/ \E f \in {"start", "accept", "answer"} : running[u][f].at = "media")
             => <<u, engine[u].call>> \in picked
        /\ wire \in [Users -> Seq(Frames)]
        /\ room \in Seq({"ringing", "active", "ended", "rejected"})
    BY OfBrowser DEF CallInv, CallTypeOK
  <1>2. ASSUME NEW f \in {"start", "accept"}, NEW from \in {"creating", "asking"}, At(u, f, from),
               engine' = [engine EXCEPT ![u].call = CallOf(u, f)],
               Become(u, f, "media", CallOf(u, f)),
               UNCHANGED <<room, wire, picked, answered, overtaken>>
        PROVE  CallInv'
    <2> DEFINE c == CallOf(u, f)
               e == [engine[u] EXCEPT !.call = c]
               x == [at |-> "media", call |-> c]
               r == [running[u] EXCEPT ![f] = x]
    <2>1. running[u][f] # Done /\ running[u][f] \in UnderWay
      BY <1>1, <1>2, DoneIsOver DEF At, Functions
    <2>2. c \in Nat \union {None} /\ <<u, c>> \in picked
      BY <1>1, <2>1 DEF CallOf, UnderWay
    <2>3. /\ engine' = [engine EXCEPT ![u] = e] /\ running' = [running EXCEPT ![u] = r]
      BY <1>2 DEF Become, CallInv, CallTypeOK
    <2>4. e \in Engines /\ e.call = c
      BY <1>1, <2>2 DEF Engines
    <2>5. x \in UnderWay
      BY <2>2 DEF UnderWay
    <2>6. /\ r \in [Functions -> {Done} \union UnderWay]
          /\ \A h \in {"start", "accept"} : r[h] # Done => <<u, r[h].call>> \in picked
      BY <1>1, <2>2, <2>5 DEF Functions
    <2> HIDE DEF e, r
    <2> QED
      BY <1>1, <1>2, <2>2, <2>3, <2>4, <2>6, OneBrowser
  <1>3. ASSUME NEW f \in Functions, End(u, f)
        PROVE  /\ running' = [running EXCEPT ![u] = [running[u] EXCEPT ![f] = Done]]
               /\ [running[u] EXCEPT ![f] = Done] \in [Functions -> {Done} \union UnderWay]
               /\ \A h \in Functions :
                    [running[u] EXCEPT ![f] = Done][h] = IF h = f THEN Done ELSE running[u][h]
    BY <1>1, <1>3 DEF End, CallInv, CallTypeOK
  <1>4. ASSUME NEW e \in Engines, NEW f \in Functions, NEW frames \in Seq(Frames), End(u, f),
               engine' = [engine EXCEPT ![u] = e], e.call \in {engine[u].call, None},
               f = "leave" => e.call = None,
               f \in {"start", "accept", "answer"} => At(u, f, "media"),
               UNCHANGED wire \/ Tell(Peer(u), frames), UNCHANGED <<room, picked>>,
               overtaken \subseteq overtaken', UNCHANGED answered \/ (Answered(u) /\ f # "leave"),
               e.call = engine[u].call \/ UNCHANGED answered
        PROVE  CallInv'
    <2> DEFINE r == [running[u] EXCEPT ![f] = Done]
    <2>1. /\ running' = [running EXCEPT ![u] = r]
          /\ r \in [Functions -> {Done} \union UnderWay]
          /\ \A h \in Functions : r[h] = IF h = f THEN Done ELSE running[u][h]
      BY <1>3, <1>4
    <2> HIDE DEF r
    <2>2. wire' \in [Users -> Seq(Frames)]
      BY <1>1, <1>4, Sent DEF CallInv
    <2>3. \A h \in {"start", "accept"} : r[h] # Done => <<u, r[h].call>> \in picked
      BY <1>1, <2>1 DEF Functions
    <2>4. u \notin overtaken /\ engine[u].call # None /\ f # "leave" => <<u, engine[u].call>> \in picked
      BY <1>1, <1>4 DEF At, Functions
    <2>5. f = "leave" \/ f \in {"start", "accept", "answer"}
      BY DEF Functions
    <2>6. \/ UNCHANGED answered
          \/ /\ answered' = answered \union {<<u, e.call>>}
             /\ u \notin overtaken' => <<u, e.call>> \in picked
      BY <1>4, <2>4 DEF Answered
    <2>7. u \notin overtaken' /\ e.call # None => <<u, e.call>> \in picked
      BY <1>4, <2>4
    <2> QED
      BY <1>1, <1>4, <2>1, <2>2, <2>3, <2>6, <2>7, OneBrowser
  <1>5. CASE Created(u)
    BY <1>2, <1>5 DEF Created
  <1>6. CASE Accepted(u)
    BY <1>2, <1>6 DEF Accepted
  <1>7. CASE StartMedia(u)
    <2> DEFINE e == [engine[u] EXCEPT !.media = TRUE]
    <2>1. e \in Engines /\ e.call = engine[u].call
      BY <1>1 DEF Engines
    <2>2. /\ At(u, "start", "media") /\ End(u, "start") /\ UNCHANGED <<room, picked, answered, overtaken>>
          /\ IF e.call = None THEN engine' = [engine EXCEPT ![u] = e] /\ UNCHANGED wire
             ELSE engine' = [engine EXCEPT ![u] = Offering(e)] /\ Tell(Peer(u), OfferFrame(e))
      BY <1>7 DEF StartMedia
    <2> HIDE DEF e
    <2>3. Offering(e) \in Engines /\ Offering(e).call = e.call /\ OfferFrame(e) \in Seq(Frames)
      BY <2>1, EngineSteps, SignalFrames
    <2>4. "start" \in Functions /\ "start" # "leave"
      BY DEF Functions
    <2> QED
      BY <1>4, <2>1, <2>2, <2>3, <2>4
  <1>8. CASE AcceptMedia(u)
    <2> DEFINE e == [engine[u] EXCEPT !.media = TRUE, !.accepted = TRUE, !.pendingOffer = FALSE]
    <2>1. e \in Engines /\ e.call = engine[u].call
      BY <1>1 DEF Engines
    <2>2. /\ At(u, "accept", "media") /\ End(u, "accept") /\ UNCHANGED <<room, picked, overtaken>>
          /\ \/ /\ engine' = [engine EXCEPT ![u] = Answering(e)] /\ Tell(Peer(u), AnswerFrame(e))
                /\ Answered(u)
             \/ engine' = [engine EXCEPT ![u] = e] /\ UNCHANGED <<wire, answered>>
      BY <1>8 DEF AcceptMedia
    <2> HIDE DEF e
    <2>3. Answering(e) \in Engines /\ Answering(e).call = e.call /\ AnswerFrame(e) \in Seq(Frames)
      BY <2>1, EngineSteps, SignalFrames
    <2>4. "accept" \in Functions /\ "accept" # "leave"
      BY DEF Functions
    <2> QED
      BY <1>4, <2>1, <2>2, <2>3, <2>4
  <1>9. CASE AnswerMedia(u)
    <2> DEFINE e == engine[u]
    <2>1. /\ At(u, "answer", "media") /\ End(u, "answer") /\ UNCHANGED <<room, picked, overtaken>>
          /\ engine' = [engine EXCEPT ![u] = Answering(e)] /\ Tell(Peer(u), AnswerFrame(e))
          /\ Answered(u)
      BY <1>9 DEF AnswerMedia
    <2>2. Answering(e) \in Engines /\ Answering(e).call = e.call /\ AnswerFrame(e) \in Seq(Frames)
      BY <1>1, EngineSteps, SignalFrames
    <2>3. "answer" \in Functions /\ "answer" # "leave"
      BY DEF Functions
    <2> QED
      BY <1>4, <2>1, <2>2, <2>3
  <1>10. CASE Left(u)
    <2> DEFINE e == Cleanup(engine[u])
    <2>1. /\ End(u, "leave") /\ UNCHANGED <<room, wire, picked, answered>>
          /\ engine' = [engine EXCEPT ![u] = e] /\ overtaken \subseteq overtaken'
      BY <1>10 DEF Left, Overtake
    <2>2. e \in Engines /\ e.call = None
      BY <1>1, EngineSteps
    <2>3. "leave" \in Functions /\ "leave" \notin {"start", "accept", "answer"} /\ << >> \in Seq(Frames)
      BY DEF Functions
    <2> QED
      BY <1>4, <2>1, <2>2, <2>3
  <1> QED
    BY <1>5, <1>6, <1>7, <1>8, <1>9, <1>10 DEF Progress

\* Frames.
LEMMA HandleInv ==
  ASSUME CallInv, NEW u \in Users, Handle(u) \/ Lose(u)
  PROVE  CallInv'
  <1> DEFINE e == engine[u]
             h == Head(wire[u])
  <1>1. /\ e \in Engines /\ running[u] \in [Functions -> {Done} \union UnderWay]
        /\ engine = [engine EXCEPT ![u] = e] /\ running = [running EXCEPT ![u] = running[u]]
        /\ \A f \in {"start", "accept"} :
             running[u][f] # Done => <<u, running[u][f].call>> \in picked
        /\ u \notin overtaken /\ e.call # None
             /\ (e.accepted
                 \/ \E f \in {"start", "accept", "answer"} : running[u][f].at = "media")
             => <<u, e.call>> \in picked
        /\ room \in Seq({"ringing", "active", "ended", "rejected"})
    BY OfBrowser DEF CallInv, CallTypeOK
  <1>2. wire[u] # << >> /\ UNCHANGED <<room, picked>>
    <2>1. CASE CallIncoming(u) \/ CallAccepted(u) \/ BufferOffer(u)
      BY <2>1 DEF CallIncoming, CallAccepted, BufferOffer, Arriving
    <2>2. CASE AnswerOffer(u)
      BY <2>2 DEF AnswerOffer, Arriving
    <2>3. CASE TakeAnswer(u) \/ CallEnded(u) \/ Lose(u)
      BY <2>3 DEF TakeAnswer, CallEnded, Lose, Arriving
    <2> QED
      BY <2>1, <2>2, <2>3 DEF Handle
  <1>3. h \in Frames /\ h.call \in Nat
    <2>1. wire[u] \in Seq(Frames)
      BY DEF CallInv, CallTypeOK
    <2>2. h \in Frames
      BY <1>2, <2>1
    <2> QED
      BY <2>2 DEF Frames
  <1>4. ASSUME NEW x \in Engines, engine' = [engine EXCEPT ![u] = x], UNCHANGED running,
               wire' \in [Users -> Seq(Frames)], overtaken \subseteq overtaken',
               u \notin overtaken' /\ x.call # None
                 /\ (x.accepted
                     \/ \E f \in {"start", "accept", "answer"} : running[u][f].at = "media")
                 => <<u, x.call>> \in picked,
               \/ UNCHANGED answered
               \/ /\ answered' = answered \union {<<u, x.call>>}
                  /\ u \notin overtaken' => <<u, x.call>> \in picked
        PROVE  CallInv'
    BY <1>1, <1>2, <1>4, OneBrowser
  <1>5. Take(u) => wire' \in [Users -> Seq(Frames)]
    BY <1>2, Taken DEF CallInv
  <1>6. \A s \in Seq(Frames) : TakeAndTell(u, s) => wire' \in [Users -> Seq(Frames)]
    BY <1>2, TakenAndSent DEF CallInv
  <1>7. CASE CallIncoming(u)
    <2> DEFINE x == Attach(e, h.call)
    <2>1. /\ engine' = [engine EXCEPT ![u] = x] /\ UNCHANGED <<running, answered>> /\ Take(u)
          /\ overtaken \subseteq overtaken'
          /\ u \notin overtaken' => ~Joining(u)
      BY <1>7 DEF CallIncoming, Overtake
    <2>2. x \in Engines /\ ~x.accepted
      BY <1>1, <1>3, EngineSteps
    <2>3. ~Joining(u) => \A f \in {"start", "accept", "answer"} : running[u][f].at # "media"
      BY DoneIsOver DEF Joining, Functions
    <2> HIDE DEF x
    <2> QED
      BY <1>4, <1>5, <2>1, <2>2, <2>3
  <1>8. CASE CallAccepted(u)
    <2>1. /\ UNCHANGED <<running, answered, overtaken>>
          /\ \/ Take(u) /\ UNCHANGED engine
             \/ engine' = [engine EXCEPT ![u] = Offering(e)] /\ TakeAndTell(u, OfferFrame(e))
      BY <1>8 DEF CallAccepted
    <2>2. Offering(e) \in Engines /\ Offering(e).call = e.call /\ Offering(e).accepted = e.accepted
          /\ OfferFrame(e) \in Seq(Frames)
      BY <1>1, EngineSteps, SignalFrames
    <2>3. wire' \in [Users -> Seq(Frames)]
      BY <1>5, <1>6, <2>1, <2>2
    <2>4. CASE UNCHANGED engine
      BY <1>1, <1>4, <2>1, <2>3, <2>4
    <2>5. CASE engine' = [engine EXCEPT ![u] = Offering(e)]
      BY <1>1, <1>4, <2>1, <2>2, <2>3, <2>5
    <2> QED
      BY <2>1, <2>4, <2>5
  <1>9. CASE BufferOffer(u)
    <2> DEFINE x == [e EXCEPT !.pendingOffer = @ \/ e.call # None]
    <2>1. /\ engine' = [engine EXCEPT ![u] = x] /\ UNCHANGED <<running, answered, overtaken>>
          /\ Take(u)
      BY <1>9 DEF BufferOffer
    <2>2. x \in Engines /\ x.call = e.call /\ x.accepted = e.accepted
      BY <1>1 DEF Engines
    <2> HIDE DEF x
    <2> QED
      BY <1>1, <1>4, <1>5, <2>1, <2>2
  <1>10. CASE AnswerOffer(u)
    <2>1. e.accepted /\ UNCHANGED overtaken
      BY <1>10 DEF AnswerOffer, TakesPart
    <2>2. CASE e.call = None
      <3>1. Take(u) /\ UNCHANGED <<engine, running, answered>>
        BY <1>10, <2>2 DEF AnswerOffer
      <3> QED
        BY <1>1, <1>4, <1>5, <2>1, <2>2, <3>1
    <2>3. CASE e.call # None /\ e.media
      <3>1. /\ engine' = [engine EXCEPT ![u] = Answering(e)]
            /\ TakeAndTell(u, AnswerFrame(e)) /\ Answered(u) /\ UNCHANGED running
        BY <1>10, <2>3 DEF AnswerOffer
      <3>2. /\ Answering(e) \in Engines /\ Answering(e).call = e.call
            /\ Answering(e).accepted = e.accepted /\ AnswerFrame(e) \in Seq(Frames)
        BY <1>1, EngineSteps, SignalFrames
      <3>3. answered' = answered \union {<<u, e.call>>}
        BY <2>3, <3>1 DEF Answered
      <3>4. u \notin overtaken => <<u, e.call>> \in picked
        BY <1>1, <2>1, <2>3
      <3>5. wire' \in [Users -> Seq(Frames)]
        BY <1>6, <3>1, <3>2
      <3> QED
        BY <1>4, <2>1, <3>1, <3>2, <3>3, <3>4, <3>5
    <2>4. CASE e.call # None /\ ~e.media
      <3> DEFINE x == [at |-> "media", call |-> e.call]
                 r == [running[u] EXCEPT !["answer"] = x]
      <3>1. /\ Become(u, "answer", "media", e.call) /\ Take(u) /\ UNCHANGED <<engine, answered>>
        BY <1>10, <2>4 DEF AnswerOffer
      <3>2. running' = [running EXCEPT ![u] = r]
        BY <3>1 DEF Become, CallInv, CallTypeOK
      <3>3. x \in UnderWay
        BY <1>1 DEF UnderWay, Engines
      <3>4. /\ r \in [Functions -> {Done} \union UnderWay]
            /\ \A f \in {"start", "accept"} : r[f] = running[u][f]
        BY <1>1, <3>3 DEF Functions
      <3> HIDE DEF r
      <3>5. u \notin overtaken => <<u, e.call>> \in picked
        BY <1>1, <2>1, <2>4
      <3>6. wire' \in [Users -> Seq(Frames)]
        BY <1>5, <3>1
      <3> QED
        BY <1>1, <1>2, <2>1, <3>1, <3>2, <3>4, <3>5, <3>6, OneBrowser
    <2> QED
      BY <1>1, <2>2, <2>3, <2>4 DEF Engines
  <1>11. CASE TakeAnswer(u)
    <2> DEFINE y == [e EXCEPT !.pc = "stable", !.linked = TRUE]
    <2>1. /\ engine' = [engine EXCEPT ![u] = y] \/ engine' = [engine EXCEPT ![u] = e]
          /\ UNCHANGED <<running, answered, overtaken>> /\ Take(u)
      BY <1>11 DEF TakeAnswer
    <2>2. y \in Engines /\ y.call = e.call /\ y.accepted = e.accepted
      BY <1>1 DEF Engines
    <2> HIDE DEF y
    <2> QED
      BY <1>1, <1>4, <1>5, <2>1, <2>2
  <1>12. CASE CallEnded(u)
    <2>1. /\ engine' = [engine EXCEPT ![u] = Cleanup(e)] /\ UNCHANGED <<running, answered>>
          /\ Take(u) /\ overtaken \subseteq overtaken'
      BY <1>12 DEF CallEnded, Overtake
    <2>2. Cleanup(e) \in Engines /\ Cleanup(e).call = None
      BY <1>1, EngineSteps
    <2> QED
      BY <1>4, <1>5, <2>1, <2>2
  <1>13. CASE Lose(u)
    <2>1. UNCHANGED <<engine, running, answered, overtaken>> /\ Take(u)
      BY <1>13 DEF Lose
    <2> QED
      BY <1>1, <1>4, <1>5, <2>1
  <1> QED
    BY <1>7, <1>8, <1>9, <1>10, <1>11, <1>12, <1>13 DEF Handle

LEMMA CallNextInv == CallInv /\ [Next]_vars => CallInv'
  <1> SUFFICES ASSUME CallInv, [Next]_vars PROVE CallInv'
    OBVIOUS
  <1>1. CASE UNCHANGED vars
    BY <1>1 DEF vars, CallInv, CallTypeOK, EngagedPicked, Engaged, FunctionsPicked, PickupKept
  <1>2. CASE Next
    BY <1>2, PressInv, ProgressInv, HandleInv DEF Next
  <1> QED
    BY <1>1, <1>2

\* A browser that takes part in a call has placed it or accepted it, but where another
\* call overtook it, in every reachable state.
THEOREM CallInvariance == Spec => []CallInv
  BY CallInitInv, CallNextInv, PTL DEF Spec

\* No offer is answered before its call is picked up, but by browsers whose call was
\* overtaken: for any number of calls, frames lost and buttons pressed.
THEOREM PickupHolds == Spec => []PickupKept
  <1>1. CallInv => PickupKept
    BY DEF CallInv
  <1> QED
    BY <1>1, CallInvariance, PTL

-------------------------------------------------------------------------------
(* Calls: what everybody is in at the end.                                 *)

\* Frames that are handled, and frames that come.
LEMMA AfterTail ==
  ASSUME NEW s \in Seq(Frames), s # << >>
  PROVE  /\ Tail(s) \in Seq(Frames)
         /\ \A x : Has(s, x) => Has(Tail(s), x) \/ Head(s) = x
         /\ \A name : HasNamed(s, name) => HasNamed(Tail(s), name) \/ Head(s).name = name
         /\ \A x, name : Followed(s, x, name) =>
              HasNamed(Tail(s), name) /\ (Followed(Tail(s), x, name) \/ Head(s) = x)
         /\ \A n, o : FramesNumbered(s, n, o) =>
              /\ FramesNumbered(Tail(s), n, o) /\ Head(s).call \in 1 .. n
              /\ Head(s).name = "call.ended" => Head(s).call \in o
              /\ Head(s).name = "call.incoming" /\ Head(s).call \in o =>
                   Has(Tail(s), Frame("call.ended", Head(s).call))
  <1> DEFINE t == Tail(s)
  <1>1. /\ t \in Seq(Frames) /\ Len(s) \in Nat \ {0} /\ Len(t) = Len(s) - 1
        /\ \A i \in 1 .. Len(t) : t[i] = s[i + 1]
        /\ Head(s) = s[1]
    OBVIOUS
  <1> HIDE DEF t
  <1>2. \A i \in 2 .. Len(s) : i - 1 \in 1 .. Len(t) /\ t[i - 1] = s[i]
    BY <1>1
  <1>3. \A i \in 1 .. Len(s) : i = 1 \/ i \in 2 .. Len(s)
    BY <1>1
  <1>4. ASSUME NEW x, Has(s, x), Head(s) # x PROVE Has(t, x)
    BY <1>1, <1>2, <1>3, <1>4 DEF Has
  <1>5. ASSUME NEW name, HasNamed(s, name), Head(s).name # name PROVE HasNamed(t, name)
    BY <1>1, <1>2, <1>3, <1>5 DEF HasNamed
  <1>6. ASSUME NEW x, NEW name, Followed(s, x, name)
        PROVE  HasNamed(t, name) /\ (Followed(t, x, name) \/ Head(s) = x)
    <2>1. PICK i \in 1 .. Len(s), j \in 1 .. Len(s) : i < j /\ s[i] = x /\ s[j].name = name
      BY <1>6 DEF Followed
    <2>2. j - 1 \in 1 .. Len(t) /\ t[j - 1].name = name
      BY <1>1, <1>2, <2>1
    <2>3. Head(s) # x => i - 1 \in 1 .. Len(t) /\ t[i - 1] = x /\ i - 1 < j - 1
      BY <1>1, <1>2, <1>3, <2>1
    <2> QED
      BY <2>2, <2>3 DEF HasNamed, Followed
  <1>7. ASSUME NEW n, NEW o, FramesNumbered(s, n, o) PROVE FramesNumbered(t, n, o)
    <2> SUFFICES ASSUME NEW i \in 1 .. Len(t)
                 PROVE  /\ t[i].call \in 1 .. n
                        /\ t[i].name = "call.ended" => t[i].call \in o
                        /\ t[i].name = "call.incoming" /\ t[i].call \in o =>
                             \E j \in 1 .. Len(t) : i < j /\ t[j] = Frame("call.ended", t[i].call)
      BY DEF FramesNumbered
    <2>1. i + 1 \in 1 .. Len(s) /\ t[i] = s[i + 1]
      BY <1>1
    <2>2. /\ t[i].call \in 1 .. n
          /\ t[i].name = "call.ended" => t[i].call \in o
          /\ t[i].name = "call.incoming" /\ t[i].call \in o =>
               \E j \in 1 .. Len(s) : i + 1 < j /\ s[j] = Frame("call.ended", t[i].call)
      BY <1>7, <2>1 DEF FramesNumbered
    <2>3. \A j \in 1 .. Len(s) : i + 1 < j => j - 1 \in 1 .. Len(t) /\ i < j - 1 /\ t[j - 1] = s[j]
      BY <1>1, <1>2
    <2> QED
      BY <2>2, <2>3
  <1>8. ASSUME NEW n, NEW o, FramesNumbered(s, n, o)
        PROVE  /\ Head(s).call \in 1 .. n
               /\ Head(s).name = "call.ended" => Head(s).call \in o
               /\ Head(s).name = "call.incoming" /\ Head(s).call \in o =>
                    Has(t, Frame("call.ended", Head(s).call))
    <2>1. 1 \in 1 .. Len(s)
      BY <1>1
    <2>2. /\ s[1].call \in 1 .. n
          /\ s[1].name = "call.ended" => s[1].call \in o
          /\ s[1].name = "call.incoming" /\ s[1].call \in o =>
               \E j \in 1 .. Len(s) : 1 < j /\ s[j] = Frame("call.ended", s[1].call)
      BY <1>8, <2>1 DEF FramesNumbered
    <2>3. \A j \in 1 .. Len(s) : 1 < j => j - 1 \in 1 .. Len(t) /\ t[j - 1] = s[j]
      BY <1>1, <1>2
    <2> QED
      BY <1>1, <2>2, <2>3 DEF Has
  <1> QED
    BY <1>1, <1>4, <1>5, <1>6, <1>7, <1>8 DEF t

LEMMA AfterMore ==
  ASSUME NEW s \in Seq(Frames), NEW m \in Seq(Frames)
  PROVE  /\ s \o m \in Seq(Frames)
         /\ \A x : Has(s, x) \/ Has(m, x) => Has(s \o m, x)
         /\ \A name : HasNamed(s, name) \/ HasNamed(m, name) => HasNamed(s \o m, name)
         /\ \A x, name : Followed(s, x, name) \/ (Has(s, x) /\ HasNamed(m, name)) =>
              Followed(s \o m, x, name)
         /\ \A n, o : FramesNumbered(s, n, o)
              /\ (\A i \in 1 .. Len(m) :
                    /\ m[i].call \in 1 .. n /\ m[i].name # "call.ended"
                    /\ m[i].name = "call.incoming" => m[i].call \notin o)
              => FramesNumbered(s \o m, n, o)
  <1> DEFINE t == s \o m
  <1>1. /\ t \in Seq(Frames) /\ Len(s) \in Nat /\ Len(m) \in Nat /\ Len(t) = Len(s) + Len(m)
        /\ \A i \in 1 .. Len(t) : t[i] = IF i <= Len(s) THEN s[i] ELSE m[i - Len(s)]
    BY ConcatProperties
  <1> HIDE DEF t
  <1>2. \A i \in 1 .. Len(s) : i \in 1 .. Len(t) /\ t[i] = s[i]
    BY <1>1
  <1>3. \A i \in 1 .. Len(m) : i + Len(s) \in 1 .. Len(t) /\ t[i + Len(s)] = m[i]
    BY <1>1
  <1>4. ASSUME NEW x, Has(s, x) \/ Has(m, x) PROVE Has(t, x)
    BY <1>2, <1>3, <1>4 DEF Has
  <1>5. ASSUME NEW name, HasNamed(s, name) \/ HasNamed(m, name) PROVE HasNamed(t, name)
    BY <1>2, <1>3, <1>5 DEF HasNamed
  <1>6. ASSUME NEW x, NEW name, Followed(s, x, name) PROVE Followed(t, x, name)
    BY <1>2, <1>6 DEF Followed
  <1>7. ASSUME NEW x, NEW name, Has(s, x), HasNamed(m, name) PROVE Followed(t, x, name)
    <2>1. PICK i \in 1 .. Len(s) : s[i] = x
      BY <1>7 DEF Has
    <2>2. PICK j \in 1 .. Len(m) : m[j].name = name
      BY <1>7 DEF HasNamed
    <2>3. i < j + Len(s)
      BY <1>1
    <2> QED
      BY <1>2, <1>3, <2>1, <2>2, <2>3 DEF Followed
  <1>8. ASSUME NEW n, NEW o, FramesNumbered(s, n, o),
               \A i \in 1 .. Len(m) :
                 /\ m[i].call \in 1 .. n /\ m[i].name # "call.ended"
                 /\ m[i].name = "call.incoming" => m[i].call \notin o
        PROVE  FramesNumbered(t, n, o)
    <2> SUFFICES ASSUME NEW i \in 1 .. Len(t)
                 PROVE  /\ t[i].call \in 1 .. n
                        /\ t[i].name = "call.ended" => t[i].call \in o
                        /\ t[i].name = "call.incoming" /\ t[i].call \in o =>
                             \E j \in 1 .. Len(t) : i < j /\ t[j] = Frame("call.ended", t[i].call)
      BY DEF FramesNumbered
    <2>1. CASE i \in 1 .. Len(s)
      <3>1. t[i] = s[i]
        BY <1>2, <2>1
      <3>2. /\ s[i].call \in 1 .. n
            /\ s[i].name = "call.ended" => s[i].call \in o
            /\ s[i].name = "call.incoming" /\ s[i].call \in o =>
                 \E j \in 1 .. Len(s) : i < j /\ s[j] = Frame("call.ended", s[i].call)
        BY <1>8, <2>1 DEF FramesNumbered
      <3> QED
        BY <1>2, <3>1, <3>2
    <2>2. CASE i \notin 1 .. Len(s)
      <3>1. i - Len(s) \in 1 .. Len(m) /\ t[i] = m[i - Len(s)]
        BY <1>1, <2>2
      <3> QED
        BY <1>8, <3>1
    <2> QED
      BY <2>1, <2>2
  <1> QED
    BY <1>1, <1>4, <1>5, <1>6, <1>7, <1>8 DEF t

\* The end of a call comes after whatever is under way of it.
LEMMA AfterEnd ==
  ASSUME NEW s \in Seq(Frames), NEW n \in Nat, NEW o, NEW c \in 1 .. n, FramesNumbered(s, n, o)
  PROVE  /\ FramesNumbered(Append(s, Frame("call.ended", c)), n, o \union {c})
         /\ Has(Append(s, Frame("call.ended", c)), Frame("call.ended", c))
         /\ \A x : Has(s, x) => Has(Append(s, Frame("call.ended", c)), x)
         /\ \A name : HasNamed(s, name) => HasNamed(Append(s, Frame("call.ended", c)), name)
         /\ HasNamed(Append(s, Frame("call.ended", c)), "call.ended")
  <1> DEFINE x == Frame("call.ended", c)
             t == Append(s, x)
  <1>1. /\ Len(s) \in Nat /\ Len(t) = Len(s) + 1 /\ t[Len(t)] = x
        /\ \A i \in 1 .. Len(s) : i \in 1 .. Len(t) /\ t[i] = s[i] /\ i < Len(t)
        /\ Len(t) \in 1 .. Len(t)
    OBVIOUS
  <1>2. x.name = "call.ended" /\ x.call = c
    BY DEF Frame
  <1> HIDE DEF t, x
  <1>3. FramesNumbered(t, n, o \union {c})
    <2> SUFFICES ASSUME NEW i \in 1 .. Len(t)
                 PROVE  /\ t[i].call \in 1 .. n
                        /\ t[i].name = "call.ended" => t[i].call \in o \union {c}
                        /\ t[i].name = "call.incoming" /\ t[i].call \in o \union {c} =>
                             \E j \in 1 .. Len(t) : i < j /\ t[j] = Frame("call.ended", t[i].call)
      BY DEF FramesNumbered
    <2>1. CASE i = Len(t)
      BY <1>1, <1>2, <2>1
    <2>2. CASE i \in 1 .. Len(s)
      <3>1. /\ s[i].call \in 1 .. n
            /\ s[i].name = "call.ended" => s[i].call \in o
            /\ s[i].name = "call.incoming" /\ s[i].call \in o =>
                 \E j \in 1 .. Len(s) : i < j /\ s[j] = Frame("call.ended", s[i].call)
        BY <2>2 DEF FramesNumbered
      <3>2. t[i] = s[i] /\ i < Len(t) /\ t[Len(t)] = Frame("call.ended", c)
        BY <1>1, <2>2 DEF x
      <3>3. CASE s[i].call = c
        BY <1>1, <3>1, <3>2, <3>3
      <3>4. CASE s[i].call # c
        BY <1>1, <3>1, <3>2, <3>4
      <3> QED
        BY <3>3, <3>4
    <2> QED
      BY <1>1, <2>1, <2>2
  <1>4. Has(t, x) /\ HasNamed(t, "call.ended")
    BY <1>1, <1>2 DEF Has, HasNamed
  <1>5. \A y : Has(s, y) => Has(t, y)
    BY <1>1 DEF Has
  <1>6. \A name : HasNamed(s, name) => HasNamed(t, name)
    BY <1>1 DEF HasNamed
  <1> QED
    BY <1>3, <1>4, <1>5, <1>6 DEF t, x

LEMMA TwoUsers ==
  ASSUME NEW u \in Users
  PROVE  /\ Peer(u) \in Users /\ Peer(u) # u /\ Peer(Peer(u)) = u
         /\ \A w \in Users : w = u \/ w = Peer(u)
  <1>1. PICK a \in Users, b \in Users : a # b /\ Users = {a, b}
    BY UsersAssumption
  <1>2. Peer(a) = b /\ Peer(b) = a
    BY <1>1 DEF Peer
  <1> QED
    BY <1>1, <1>2

\* Frames of its own that add nothing but to what comes.
LEMMA MoreComes ==
  ASSUME NEW f, NEW t \in Seq(Frames), NEW m \in Seq(Frames), NEW c
  PROVE  OfferComes(f, t, c) => OfferComes(f, t \o m, c)
  BY AfterMore DEF OfferComes

\* Frames about calls placed that neither begin nor end one.
Signals(m, n) ==
  \A i \in 1 .. Len(m) :
    m[i].call \in 1 .. n /\ m[i].name \in {"call.accepted", "offer", "answer"}

\* What a browser does keeps the invariant, if calls and ends stay what they were: what it
\* says of that browser is to be kept, and of its part in the last call.
LEMMA BrowserStep ==
  ASSUME SettleInv, CallTypeOK, CallTypeOK', NEW u \in Users, NEW v, v = Peer(u),
         NEW e, NEW r, NEW m \in Seq(Frames),
         engine' = [engine EXCEPT ![u] = e], running' = [running EXCEPT ![u] = r],
         wire'[v] = wire[v] \o m, active'[v] = active[v], incoming'[v] = incoming[v],
         Len(room') = Len(room), over' = over, LittleLost' => LittleLost,
         overtaken \subseteq overtaken', overtaken' \subseteq overtaken \union {u},
         Signals(m, Len(room)),
         FramesNumbered(wire'[u], Len(room), over), StateNumbered(e, r, Len(room), over),
         LittleLost' /\ u \notin overtaken' =>
           InStepWithCall(e, r, wire'[u], active'[u], incoming'[u], over),
         LittleLost' /\ overtaken' = {} /\ Len(room) \notin over /\ Len(room) > 0 =>
           /\ PlacedBy(engine[u], running[u], Len(room)) =>
                /\ PlacedBy(e, r, Len(room))
                /\ HasNamed(wire[u], "call.ended") => HasNamed(wire'[u], "call.ended")
                /\ Handshake(engine[u], running[u], incoming[u], wire[u], engine[v], running[v],
                             wire[v], room[Len(room)], Len(room))
                   => \/ HasNamed(wire'[u], "call.ended")
                      \/ Handshake(e, r, incoming'[u], wire'[u], engine[v], running[v],
                                   wire[v] \o m, room'[Len(room)], Len(room))
           /\ PlacedBy(engine[v], running[v], Len(room))
              /\ Handshake(engine[v], running[v], incoming[v], wire[v], engine[u], running[u],
                           wire[u], room[Len(room)], Len(room))
              => Handshake(engine[v], running[v], incoming[v], wire[v] \o m, e, r,
                           wire'[u], room'[Len(room)], Len(room))
  PROVE  SettleInv'
  <1>1. v \in Users /\ v # u /\ Peer(v) = u /\ \A w \in Users : w = u \/ w = v
    BY TwoUsers
  <1>2. /\ engine'[u] = e /\ running'[u] = r /\ engine'[v] = engine[v] /\ running'[v] = running[v]
    BY <1>1 DEF CallTypeOK
  <1>3. wire[v] \in Seq(Frames)
    BY <1>1 DEF CallTypeOK
  <1>4. /\ FramesNumbered(wire[v], Len(room), over)
        /\ StateNumbered(engine[v], running[v], Len(room), over)
        /\ over \subseteq 1 .. Len(room)
    BY <1>1 DEF SettleInv
  <1>5. FramesNumbered(wire[v] \o m, Len(room), over)
    <2>1. \A i \in 1 .. Len(m) :
            m[i].call \in 1 .. Len(room) /\ m[i].name # "call.ended" /\ m[i].name # "call.incoming"
      BY DEF Signals
    <2> QED
      BY <1>3, <1>4, <2>1, AfterMore
  <1>6. \A w \in Users : /\ FramesNumbered(wire'[w], Len(room), over)
                         /\ StateNumbered(engine'[w], running'[w], Len(room), over)
    BY <1>1, <1>2, <1>4, <1>5
  <1>7. ASSUME LittleLost', NEW w \in Users \ overtaken'
        PROVE  InStepWithCall(engine'[w], running'[w], wire'[w], active'[w], incoming'[w], over)
    <2>1. CASE w = u
      BY <1>2, <1>7, <2>1
    <2>2. CASE w = v
      <3>1. InStepWithCall(engine[v], running[v], wire[v], active[v], incoming[v], over)
        BY <1>1, <1>7, <2>2 DEF SettleInv
      <3>2. InStepWithCall(engine[v], running[v], wire[v] \o m, active[v], incoming[v], over)
        BY <1>3, <3>1, AfterMore DEF InStepWithCall
      <3> QED
        BY <1>2, <2>2, <3>2
    <2> QED
      BY <1>1, <2>1, <2>2
  <1>8. ASSUME LittleLost' PROVE LastCall'
    <2> SUFFICES ASSUME Len(room) > 0, Len(room) \notin over, overtaken' = {}
                 PROVE  \E w \in Users : Shaking(w, Peer(w), Len(room))'
      BY DEF LastCall
    <2>1. PICK w \in Users : Shaking(w, Peer(w), Len(room))
      BY <1>8 DEF SettleInv, LastCall
    <2>2. CASE w = u
      <3>1. /\ PlacedBy(engine[u], running[u], Len(room))
            /\ \/ HasNamed(wire[u], "call.ended")
               \/ Handshake(engine[u], running[u], incoming[u], wire[u], engine[v], running[v],
                            wire[v], room[Len(room)], Len(room))
        BY <2>1, <2>2 DEF Shaking
      <3>2. /\ PlacedBy(e, r, Len(room))
            /\ \/ HasNamed(wire'[u], "call.ended")
               \/ Handshake(e, r, incoming'[u], wire'[u], engine[v], running[v],
                            wire[v] \o m, room'[Len(room)], Len(room))
        BY <1>8, <3>1
      <3>3. Shaking(u, Peer(u), Len(room))'
        BY <1>2, <3>2 DEF Shaking
      <3> QED
        BY <3>3
    <2>3. CASE w = v
      <3>1. /\ PlacedBy(engine[v], running[v], Len(room))
            /\ \/ HasNamed(wire[v], "call.ended")
               \/ Handshake(engine[v], running[v], incoming[v], wire[v], engine[u], running[u],
                            wire[u], room[Len(room)], Len(room))
        BY <1>1, <2>1, <2>3 DEF Shaking
      <3>2. \/ HasNamed(wire[v] \o m, "call.ended")
            \/ Handshake(engine[v], running[v], incoming[v], wire[v] \o m, e, r,
                         wire'[u], room'[Len(room)], Len(room))
        BY <1>3, <1>8, <3>1, AfterMore
      <3>3. Shaking(v, Peer(v), Len(room))'
        BY <1>1, <1>2, <3>1, <3>2 DEF Shaking
      <3> QED
        BY <1>1, <3>3
    <2> QED
      BY <1>1, <2>1, <2>2, <2>3
  <1> QED
    BY <1>4, <1>6, <1>7, <1>8 DEF SettleInv

LEMMA Sides ==
  ASSUME SettleInv, CallTypeOK, NEW u \in Users, NEW v, v = Peer(u)
  PROVE  /\ v \in Users /\ v # u /\ engine[u] \in Engines
         /\ running[u] \in [Functions -> {Done} \union UnderWay]
         /\ wire[u] \in Seq(Frames) /\ wire[v] \in Seq(Frames)
         /\ wire[u] \o << >> = wire[u] /\ wire[v] \o << >> = wire[v] /\ Len(room) \in Nat
         /\ over \subseteq 1 .. Len(room)
         /\ FramesNumbered(wire[u], Len(room), over)
         /\ StateNumbered(engine[u], running[u], Len(room), over)
         /\ LittleLost /\ u \notin overtaken =>
              InStepWithCall(engine[u], running[u], wire[u], active[u], incoming[u], over)
         /\ engine = [engine EXCEPT ![u] = engine[u]]
         /\ running = [running EXCEPT ![u] = running[u]]
  <1>1. v \in Users /\ v # u
    BY TwoUsers
  <1>2. /\ engine[u] \in Engines /\ running[u] \in [Functions -> {Done} \union UnderWay]
        /\ wire[u] \in Seq(Frames) /\ wire[v] \in Seq(Frames) /\ Len(room) \in Nat
        /\ engine = [engine EXCEPT ![u] = engine[u]]
        /\ running = [running EXCEPT ![u] = running[u]]
    BY <1>1 DEF CallTypeOK
  <1>3. wire[u] \o << >> = wire[u] /\ wire[v] \o << >> = wire[v]
    BY <1>2
  <1>4. /\ over \subseteq 1 .. Len(room) /\ FramesNumbered(wire[u], Len(room), over)
        /\ StateNumbered(engine[u], running[u], Len(room), over)
        /\ LittleLost /\ u \notin overtaken =>
             InStepWithCall(engine[u], running[u], wire[u], active[u], incoming[u], over)
    BY DEF SettleInv
  <1> QED
    BY <1>1, <1>2, <1>3, <1>4

\* Frames told, and a frame handled.
LEMMA Wires ==
  ASSUME CallTypeOK, NEW u \in Users, NEW v \in Users, v = Peer(u), v # u, NEW m
  PROVE  /\ Tell(v, m) => wire'[u] = wire[u] /\ wire'[v] = wire[v] \o m
         /\ Take(u) => wire'[u] = Tail(wire[u]) /\ wire'[v] = wire[v]
         /\ TakeAndTell(u, m) => wire'[u] = Tail(wire[u]) /\ wire'[v] = wire[v] \o m
  <1>1. wire \in [Users -> Seq(Frames)]
    BY DEF CallTypeOK
  <1>2. Tell(v, m) => wire'[u] = wire[u] /\ wire'[v] = wire[v] \o m
    BY <1>1 DEF Tell
  <1>3. Take(u) => wire'[u] = Tail(wire[u]) /\ wire'[v] = wire[v]
    BY <1>1 DEF Take
  <1>4. ASSUME TakeAndTell(u, m) PROVE wire'[u] = Tail(wire[u]) /\ wire'[v] = wire[v] \o m
    <2>1. wire' = [wire EXCEPT ![u] = Tail(@), ![v] = @ \o m]
      BY <1>4 DEF TakeAndTell
    <2> QED
      BY <1>1, <2>1
  <1> QED
    BY <1>2, <1>3, <1>4

\* What a browser sends about its call.
LEMMA OneFrame ==
  ASSUME NEW n \in Nat, NEW c \in 1 .. n,
         NEW name \in {"call.incoming", "call.accepted", "offer", "answer"}
  PROVE  /\ << Frame(name, c) >> \in Seq(Frames) /\ HasNamed(<< Frame(name, c) >>, name)
         /\ Has(<< Frame(name, c) >>, Frame(name, c))
         /\ name # "call.incoming" => Signals(<< Frame(name, c) >>, n)
  <1> DEFINE x == Frame(name, c)
             m == << x >>
  <1>1. Frame(name, c) \in Frames
    BY FrameType
  <1>2. x.name = name /\ x.call = c
    BY DEF Frame
  <1> HIDE DEF x
  <1>3. m \in Seq(Frames) /\ Len(m) = 1 /\ m[1] = x
    BY <1>1 DEF x
  <1> HIDE DEF m
  <1>4. HasNamed(m, name) /\ Has(m, x) /\ (name # "call.incoming" => Signals(m, n))
    BY <1>2, <1>3 DEF HasNamed, Has, Signals
  <1> QED
    BY <1>3, <1>4 DEF m, x
LEMMA CallFrames ==
  ASSUME NEW n \in Nat, NEW e, e.call \in (1 .. n) \union {None}
  PROVE  /\ OfferFrame(e) \in Seq(Frames) /\ Signals(OfferFrame(e), n)
         /\ AnswerFrame(e) \in Seq(Frames) /\ Signals(AnswerFrame(e), n)
         /\ e.call # None =>
              HasNamed(OfferFrame(e), "offer") /\ HasNamed(AnswerFrame(e), "answer")
         /\ << >> \in Seq(Frames) /\ Signals(<< >>, n)
  <1>1. << >> \in Seq(Frames) /\ Signals(<< >>, n)
    BY DEF Signals
  <1>2. CASE e.call = None
    BY <1>1, <1>2 DEF OfferFrame, AnswerFrame
  <1>3. CASE e.call # None
    BY <1>1, <1>3, OneFrame DEF OfferFrame, AnswerFrame
  <1> QED
    BY <1>2, <1>3

\* The browser that placed the call goes on.
LEMMA PlacerGoesOn ==
  ASSUME NEW e, NEW r, NEW rings, NEW s, NEW f, NEW q, NEW t, NEW status, NEW c,
         Handshake(e, r, rings, s, f, q, t, status, c),
         NEW e2, NEW r2, NEW s2, NEW t2,
         e2.accepted, e.media => e2.media, r2["start"] = r["start"], e.linked => e2.linked,
         e.pc = "have-local-offer" => e2.pc = "have-local-offer" \/ e2.linked,
         HasNamed(s, "answer") => HasNamed(s2, "answer") \/ e2.linked,
         \A x : Has(t, x) => Has(t2, x), OfferComes(f, t, c) => OfferComes(f, t2, c)
  PROVE  Handshake(e2, r2, None, s2, f, q, t2, status, c)
  BY DEF Handshake

\* The other, in no call or in another, goes on.
LEMMA OtherElsewhere ==
  ASSUME NEW e, NEW r, NEW rings, NEW s, NEW f, NEW q, NEW t, NEW status, NEW c,
         Handshake(e, r, rings, s, f, q, t, status, c), f.call # c,
         NEW f2, NEW q2, NEW s2, NEW t2, f2.call # c, q2["start"] = q["start"],
         HasNamed(s, "answer") => HasNamed(s2, "answer"),
         Has(t, Frame("call.incoming", c)) => Has(t2, Frame("call.incoming", c)),
         Followed(t, Frame("call.incoming", c), "offer") =>
           Followed(t2, Frame("call.incoming", c), "offer")
  PROVE  Handshake(e, r, rings, s2, f2, q2, t2, status, c)
  BY DEF Handshake, OfferComes

\* The part of u, and that of v, in the last call, where u has e, r, rings and s now, and
\* v has t on its way to it.
PartsKept(u, v, e, r, rings, s, t) ==
  LET c == Len(room)
  IN /\ PlacedBy(engine[u], running[u], c) =>
          /\ PlacedBy(e, r, c)
          /\ HasNamed(wire[u], "call.ended") => HasNamed(s, "call.ended")
          /\ Handshake(engine[u], running[u], incoming[u], wire[u], engine[v], running[v],
                       wire[v], room[c], c)
             => Handshake(e, r, rings, s, engine[v], running[v], t, room[c], c)
     /\ PlacedBy(engine[v], running[v], c)
        /\ Handshake(engine[v], running[v], incoming[v], wire[v], engine[u], running[u],
                     wire[u], room[c], c)
        => Handshake(engine[v], running[v], incoming[v], t, e, r, s, room[c], c)

\* The same where no call, end or loss is new; when may say that its call is overtaken.
LEMMA BrowserMayTurn ==
  ASSUME SettleInv, CallTypeOK, CallTypeOK', NEW u \in Users, NEW v, v = Peer(u),
         NEW e, NEW r, NEW m \in Seq(Frames), NEW s, NEW t, t = wire[v] \o m,
         NEW shows, NEW rings, NEW when,
         engine' = [engine EXCEPT ![u] = e], running' = [running EXCEPT ![u] = r],
         wire'[u] = s, wire'[v] = t, UNCHANGED <<room, lost, over>>, Overtake(u, when),
         active'[u] = shows, active'[v] = active[v],
         incoming'[u] = rings, incoming'[v] = incoming[v],
         Signals(m, Len(room)),
         FramesNumbered(s, Len(room), over), StateNumbered(e, r, Len(room), over),
         LittleLost /\ ~ when /\ u \notin overtaken => InStepWithCall(e, r, s, shows, rings, over),
         LittleLost /\ ~ when /\ overtaken = {} /\ Len(room) \notin over /\ Len(room) > 0 =>
           PartsKept(u, v, e, r, rings, s, t)
  PROVE  SettleInv'
  <1>1. /\ t = wire[v] \o m /\ room' = room /\ over' = over /\ LittleLost' = LittleLost
        /\ Len(room') = Len(room)
        /\ overtaken' = IF when THEN overtaken \union {u} ELSE overtaken
    BY DEF LittleLost, Overtake
  <1>2. /\ FramesNumbered(wire'[u], Len(room), over)
        /\ LittleLost' /\ u \notin overtaken' =>
             InStepWithCall(e, r, wire'[u], active'[u], incoming'[u], over)
    BY <1>1
  <1>3. LittleLost' /\ overtaken' = {} /\ Len(room) \notin over /\ Len(room) > 0 =>
          /\ PlacedBy(engine[u], running[u], Len(room)) =>
               /\ PlacedBy(e, r, Len(room))
               /\ HasNamed(wire[u], "call.ended") => HasNamed(wire'[u], "call.ended")
               /\ Handshake(engine[u], running[u], incoming[u], wire[u], engine[v], running[v],
                            wire[v], room[Len(room)], Len(room))
                  => \/ HasNamed(wire'[u], "call.ended")
                     \/ Handshake(e, r, incoming'[u], wire'[u], engine[v], running[v],
                                  wire[v] \o m, room'[Len(room)], Len(room))
          /\ PlacedBy(engine[v], running[v], Len(room))
             /\ Handshake(engine[v], running[v], incoming[v], wire[v], engine[u], running[u],
                          wire[u], room[Len(room)], Len(room))
             => Handshake(engine[v], running[v], incoming[v], wire[v] \o m, e, r,
                          wire'[u], room'[Len(room)], Len(room))
    BY <1>1 DEF PartsKept
  <1> QED
    BY <1>1, <1>2, <1>3, BrowserStep

\* The same where no call, end or loss is new and nothing is overtaken.
LEMMA BrowserGoesOn ==
  ASSUME SettleInv, CallTypeOK, CallTypeOK', NEW u \in Users, NEW v, v = Peer(u),
         NEW e, NEW r, NEW m \in Seq(Frames), NEW s, NEW t, t = wire[v] \o m,
         NEW shows, NEW rings,
         engine' = [engine EXCEPT ![u] = e], running' = [running EXCEPT ![u] = r],
         wire'[u] = s, wire'[v] = t, UNCHANGED <<room, lost, overtaken, over>>,
         active'[u] = shows, active'[v] = active[v],
         incoming'[u] = rings, incoming'[v] = incoming[v],
         Signals(m, Len(room)),
         FramesNumbered(s, Len(room), over), StateNumbered(e, r, Len(room), over),
         LittleLost /\ u \notin overtaken => InStepWithCall(e, r, s, shows, rings, over),
         LittleLost /\ overtaken = {} /\ Len(room) \notin over /\ Len(room) > 0 =>
           PartsKept(u, v, e, r, rings, s, t)
  PROVE  SettleInv'
  BY BrowserMayTurn DEF Overtake

\* What the browsers show, and the frames lost.
ShownTypeOK ==
  /\ active \in [Users -> BOOLEAN]
  /\ incoming \in [Users -> Nat \union {None}]
  /\ lost \in Seq(Frames)

LEMMA ShownInv ==
  ASSUME CallTypeOK, ShownTypeOK, [Next]_vars
  PROVE  ShownTypeOK'
  <1>1. CASE UNCHANGED vars
    BY <1>1 DEF vars, ShownTypeOK
  <1>2. \A u \in Users : wire[u] # << >> => Head(wire[u]) \in Frames /\ Head(wire[u]).call \in Nat
    <2> SUFFICES ASSUME NEW u \in Users, wire[u] # << >>
                 PROVE  Head(wire[u]) \in Frames /\ Head(wire[u]).call \in Nat
      OBVIOUS
    <2>1. Head(wire[u]) \in Frames
      BY DEF CallTypeOK
    <2> QED
      BY <2>1 DEF Frames
  <1>3. ASSUME NEW u \in Users, Start(u) \/ Accept(u) \/ Leave(u) PROVE ShownTypeOK'
    BY <1>3 DEF Start, Accept, Leave, ShownTypeOK
  <1>4. ASSUME NEW u \in Users, Progress(u) PROVE ShownTypeOK'
    <2>1. /\ lost' = lost
          /\ active' = active \/ \E x \in BOOLEAN : active' = [active EXCEPT ![u] = x]
          /\ incoming' = incoming \/ incoming' = [incoming EXCEPT ![u] = None]
      BY <1>4 DEF Progress, Created, StartMedia, Accepted, AcceptMedia, Left, AnswerMedia
    <2> QED
      BY <2>1 DEF ShownTypeOK
  <1>5. ASSUME NEW u \in Users, Handle(u) PROVE ShownTypeOK'
    <2>1. /\ lost' = lost
          /\ active' = active \/ \E x \in BOOLEAN : active' = [active EXCEPT ![u] = x]
          /\ \/ incoming' = incoming
             \/ \E c \in Nat \union {None} : incoming' = [incoming EXCEPT ![u] = c]
      BY <1>2, <1>5 DEF Handle, CallIncoming, CallAccepted, BufferOffer, AnswerOffer, TakeAnswer,
                        CallEnded, Arriving
    <2> QED
      BY <2>1 DEF ShownTypeOK
  <1>6. ASSUME NEW u \in Users, Lose(u) PROVE ShownTypeOK'
    BY <1>2, <1>6 DEF Lose, ShownTypeOK
  <1>7. CASE Next
    BY <1>3, <1>4, <1>5, <1>6, <1>7 DEF Next
  <1> QED
    BY <1>1, <1>7

\* Functions that go on.
LEMMA CreatedSettles ==
  ASSUME CallInv, CallInv', ShownTypeOK, SettleInv, NEW u \in Users, Created(u) \/ Accepted(u)
  PROVE  SettleInv'
  <1> DEFINE v == Peer(u)
  <1>1. CallTypeOK /\ CallTypeOK'
    BY DEF CallInv
  <1>2. /\ v \in Users /\ v # u /\ engine[u] \in Engines
        /\ running[u] \in [Functions -> {Done} \union UnderWay]
        /\ wire[u] \in Seq(Frames) /\ wire[v] \o << >> = wire[v]
        /\ FramesNumbered(wire[u], Len(room), over) /\ Len(room) \in Nat
        /\ StateNumbered(engine[u], running[u], Len(room), over)
        /\ LittleLost /\ u \notin overtaken =>
             InStepWithCall(engine[u], running[u], wire[u], active[u], incoming[u], over)
    BY <1>1, Sides
  <1>3. ASSUME NEW f \in {"start", "accept"}, NEW from \in {"creating", "asking"}, At(u, f, from),
               (f = "start") <=> (from = "creating"),
               engine' = [engine EXCEPT ![u].call = CallOf(u, f)],
               Become(u, f, "media", CallOf(u, f)),
               UNCHANGED <<room, incoming, active, wire, lost, overtaken, over>>
        PROVE  SettleInv'
    <2> DEFINE c == CallOf(u, f)
               e == [engine[u] EXCEPT !.call = c]
               x == [at |-> "media", call |-> c]
               r == [running[u] EXCEPT ![f] = x]
    <2>1. engine' = [engine EXCEPT ![u] = e] /\ running' = [running EXCEPT ![u] = r]
      BY <1>1, <1>3 DEF Become, CallTypeOK
    <2>2. /\ running[u][f] # Done /\ running[u][f].at = from /\ running[u][f].call = c
          /\ f \in Functions
      BY <1>3, DoneIsOver DEF At, CallOf, Functions
    <2>3. /\ e.call = c /\ e.accepted = engine[u].accepted /\ e.media = engine[u].media
          /\ e.pc = engine[u].pc /\ e.linked = engine[u].linked
          /\ e.pendingOffer = engine[u].pendingOffer
      BY <1>2 DEF Engines
    <2>4. /\ \A h \in Functions : r[h] = IF h = f THEN x ELSE running[u][h]
          /\ x # Done /\ x.at = "media" /\ x.call = c
      BY <1>2, DoneIsOver
    <2> HIDE DEF e, r, x, c
    <2>5. StateNumbered(e, r, Len(room), over)
      BY <1>2, <2>2, <2>3, <2>4 DEF StateNumbered, Functions
    <2>6. ASSUME LittleLost, u \notin overtaken
          PROVE  /\ InStepWithCall(e, r, wire[u], active[u], incoming[u], over)
                 /\ f = "start" => engine[u].call = None
                 /\ f = "accept" => engine[u].call = c
      BY <1>2, <1>3, <2>2, <2>3, <2>4, <2>6 DEF InStepWithCall, PlacedBy, StateNumbered, Functions
    <2>8. ASSUME LittleLost, overtaken = {}, Len(room) \notin over
          PROVE  PartsKept(u, v, e, r, incoming[u], wire[u], wire[v])
      <3>1. LittleLost /\ u \notin overtaken
        BY <2>8
      <3>2. PlacedBy(engine[u], running[u], Len(room)) => PlacedBy(e, r, Len(room))
        <4>1. Len(room) # None
          BY <1>2, UsersAssumption
        <4>2. CASE f = "start"
          BY <2>2, <2>3, <2>4, <2>6, <3>1, <4>1, <4>2 DEF PlacedBy, Functions
        <4>3. CASE f = "accept"
          BY <2>2, <2>3, <2>4, <2>6, <3>1, <4>3 DEF PlacedBy, Functions
        <4> QED
          BY <4>2, <4>3
      <3>3. r["start"] # Done <=> running[u]["start"] # Done
        BY <2>2, <2>4 DEF Functions
      <3>4. Handshake(engine[u], running[u], incoming[u], wire[u], engine[v], running[v], wire[v],
                      room[Len(room)], Len(room))
            => Handshake(e, r, incoming[u], wire[u], engine[v], running[v], wire[v],
                         room[Len(room)], Len(room))
        BY <2>3, <3>3 DEF Handshake
      <3>5. ASSUME Handshake(engine[v], running[v], incoming[v], wire[v], engine[u], running[u],
                             wire[u], room[Len(room)], Len(room))
            PROVE  Handshake(engine[v], running[v], incoming[v], wire[v], e, r,
                             wire[u], room[Len(room)], Len(room))
        <4>1. CASE f = "start"
          <5>1. c # Len(room)
            BY <1>3, <2>2, <3>5, <4>1 DEF Handshake
          <5>2. engine[u].call # Len(room) /\ r["accept"] = running[u]["accept"]
            BY <1>2, <2>4, <2>6, <3>1, <4>1, UsersAssumption DEF Functions
          <5> QED
            BY <2>3, <2>4, <3>5, <4>1, <5>1, <5>2 DEF Handshake, OfferComes, Functions
        <4>2. CASE f = "accept"
          <5>1. engine[u].call = c /\ r["start"] = running[u]["start"] /\ r["accept"] # Done
            BY <2>4, <2>6, <3>1, <4>2 DEF Functions
          <5> QED
            BY <2>3, <3>5, <5>1 DEF Handshake, OfferComes
        <4> QED
          BY <4>1, <4>2
      <3> QED
        BY <3>2, <3>4, <3>5 DEF PartsKept
    <2> HIDE DEF v
    <2>9. /\ << >> \in Seq(Frames) /\ v = Peer(u) /\ Signals(<< >>, Len(room))
          /\ wire[v] = wire[v] \o << >> /\ wire'[v] = wire[v] /\ wire'[u] = wire[u]
          /\ active'[v] = active[v]
          /\ active'[u] = active[u] /\ incoming'[v] = incoming[v] /\ incoming'[u] = incoming[u]
      BY <1>2, <1>3 DEF v, Signals
    <2>10. /\ UNCHANGED <<room, lost, overtaken, over>>
           /\ LittleLost /\ u \notin overtaken =>
                InStepWithCall(e, r, wire[u], active[u], incoming[u], over)
           /\ LittleLost /\ overtaken = {} /\ Len(room) \notin over /\ Len(room) > 0 =>
                PartsKept(u, v, e, r, incoming[u], wire[u], wire[v])
      BY <1>3, <2>6, <2>8, <2>9
    <2> QED
      BY <1>1, <1>2, <2>1, <2>5, <2>9, <2>10, BrowserGoesOn
  <1> QED
    BY <1>3 DEF Created, Accepted

LEMMA MediaSettles ==
  ASSUME CallInv, CallInv', ShownTypeOK, SettleInv, NEW u \in Users,
         StartMedia(u) \/ AcceptMedia(u) \/ AnswerMedia(u)
  PROVE  SettleInv'
  <1> DEFINE v == Peer(u)
             c == Len(room)
  <1>1. CallTypeOK /\ CallTypeOK'
    BY DEF CallInv
  <1>2. /\ v \in Users /\ v # u /\ engine[u] \in Engines /\ v = Peer(u)
        /\ running[u] \in [Functions -> {Done} \union UnderWay]
        /\ wire[u] \in Seq(Frames) /\ wire[v] \in Seq(Frames) /\ wire[v] \o << >> = wire[v]
        /\ FramesNumbered(wire[u], Len(room), over) /\ Len(room) \in Nat
        /\ StateNumbered(engine[u], running[u], Len(room), over)
        /\ LittleLost /\ u \notin overtaken =>
             InStepWithCall(engine[u], running[u], wire[u], active[u], incoming[u], over)
    BY <1>1, Sides
  <1> HIDE DEF v
  <1>3. /\ engine[u].call \in (1 .. Len(room)) \union {None}
        /\ << >> \in Seq(Frames) /\ Signals(<< >>, Len(room))
        /\ \A e : e.call = engine[u].call =>
             /\ OfferFrame(e) \in Seq(Frames) /\ Signals(OfferFrame(e), Len(room))
             /\ AnswerFrame(e) \in Seq(Frames) /\ Signals(AnswerFrame(e), Len(room))
             /\ e.call # None =>
                  HasNamed(OfferFrame(e), "offer") /\ HasNamed(AnswerFrame(e), "answer")
    <2>1. engine[u].call \in (1 .. Len(room)) \union {None}
      BY <1>2 DEF StateNumbered
    <2> QED
      BY <1>2, <2>1, CallFrames
  <1>4. ASSUME NEW f \in {"start", "accept", "answer"}, At(u, f, "media"), End(u, f),
               NEW e, NEW m \in Seq(Frames), engine' = [engine EXCEPT ![u] = e],
               wire'[u] = wire[u], wire'[v] = wire[v] \o m,
               UNCHANGED <<room, lost, overtaken, over>>, active'[v] = active[v],
               incoming'[v] = incoming[v], incoming'[u] \in {incoming[u], None},
               Signals(m, Len(room)),
               e.call = engine[u].call, engine[u].accepted => e.accepted, e.media,
               engine[u].linked => e.linked,
               f \in {"start", "answer"} => e.accepted = engine[u].accepted
                                            /\ e.pendingOffer = engine[u].pendingOffer,
               f = "start" /\ e.call # None => e.pc = "have-local-offer" /\ HasNamed(m, "offer"),
               f = "answer" => e.linked,
               f = "accept" => /\ e.accepted /\ ~ e.pendingOffer
                               /\ engine[u].pendingOffer => e.linked
                               /\ engine[u].pendingOffer /\ e.call # None => HasNamed(m, "answer")
                               /\ ~ engine[u].pendingOffer => e.pc = engine[u].pc
        PROVE  SettleInv'
    <2> DEFINE r == [running[u] EXCEPT ![f] = Done]
               t == wire[v] \o m
    <2>1. running' = [running EXCEPT ![u] = r]
      BY <1>1, <1>4 DEF End, CallTypeOK
    <2>2. running[u][f] # Done /\ running[u][f].at = "media" /\ f \in Functions
      BY <1>4, DoneIsOver DEF At, Functions
    <2>3. \A h \in Functions : r[h] = IF h = f THEN Done ELSE running[u][h]
      BY <1>2
    <2>4. /\ \A x : Has(wire[v], x) => Has(t, x)
          /\ \A name : HasNamed(wire[v], name) \/ HasNamed(m, name) => HasNamed(t, name)
          /\ \A x, name : Followed(wire[v], x, name) \/ (Has(wire[v], x) /\ HasNamed(m, name)) =>
               Followed(t, x, name)
          /\ OfferComes(engine[v], wire[v], c) => OfferComes(engine[v], t, c)
      BY <1>2, <1>4, AfterMore, MoreComes
    <2> HIDE DEF r, t
    <2>5. StateNumbered(e, r, Len(room), over)
      BY <1>2, <1>4, <2>2, <2>3 DEF StateNumbered, Functions
    <2>6. ASSUME LittleLost, u \notin overtaken
          PROVE  /\ InStepWithCall(e, r, wire[u], active'[u], incoming'[u], over)
                 /\ e.call # None
                 /\ f = "start" => engine[u].call = running[u]["start"].call
      <3>1. /\ f \in {"accept", "answer"} => e.call # None
            /\ f = "start" => engine[u].call = running[u]["start"].call /\ e.call # None
        BY <1>2, <1>4, <2>2, <2>6 DEF InStepWithCall, StateNumbered, Functions
      <3>2. InStepWithCall(e, r, wire[u], active'[u], incoming'[u], over)
        BY <1>2, <1>4, <2>3, <2>6, <3>1, DoneIsOver
           DEF InStepWithCall, PlacedBy, Functions
      <3> QED
        BY <3>1, <3>2
    <2>7. ASSUME LittleLost, overtaken = {}, Len(room) \notin over
          PROVE  PartsKept(u, v, e, r, incoming'[u], wire[u], t)
      <3>1. e.call # None /\ (f = "start" => engine[u].call = running[u]["start"].call)
        BY <2>6, <2>7
      <3>2. PlacedBy(engine[u], running[u], c) => PlacedBy(e, r, c)
        BY <1>4, <2>2, <2>3, <3>1 DEF PlacedBy, Functions
      <3>3. ASSUME PlacedBy(engine[u], running[u], c),
                   Handshake(engine[u], running[u], incoming[u], wire[u], engine[v], running[v],
                             wire[v], room[c], c)
            PROVE  Handshake(e, r, incoming'[u], wire[u], engine[v], running[v], t, room[c], c)
        <4>1. incoming'[u] = None
          BY <1>4, <3>3 DEF Handshake
        <4>2. CASE f = "start"
          <5>1. e.pc = "have-local-offer" /\ HasNamed(m, "offer")
            BY <1>4, <3>1, <4>2
          <5>2. engine[v].call = c \/ Has(wire[v], Frame("call.incoming", c))
            BY <3>3 DEF Handshake
          <5>3. OfferComes(engine[v], t, c)
            BY <2>4, <5>1, <5>2 DEF OfferComes
          <5> QED
            BY <1>4, <2>4, <3>3, <4>1, <5>1, <5>3 DEF Handshake
        <4>3. CASE f # "start"
          <5>1. /\ r["start"] = running[u]["start"]
                /\ engine[u].pc = "have-local-offer" => e.pc = "have-local-offer" \/ e.linked
            BY <1>4, <2>3, <4>3 DEF Functions
          <5> QED
            BY <1>4, <2>4, <3>3, <4>1, <5>1, PlacerGoesOn DEF Handshake
        <4> QED
          BY <4>2, <4>3
      <3>4. ASSUME Handshake(engine[v], running[v], incoming[v], wire[v], engine[u], running[u],
                             wire[u], room[c], c)
            PROVE  Handshake(engine[v], running[v], incoming[v], t, e, r, wire[u], room[c], c)
        <4>1. /\ r["start"].at = "creating" => r["start"] = running[u]["start"]
              /\ r["accept"] = running[u]["accept"] \/ f = "accept"
          BY <2>3, DoneIsOver DEF Functions
        <4>2. e.call = c =>
                /\ e.accepted => e.media /\ ~ e.pendingOffer
                /\ room[c] = "active" => r["accept"] # Done \/ e.accepted
          BY <1>4, <3>4, <4>1 DEF Handshake
        <4>3. OfferComes(engine[u], wire[u], c) =>
                \/ OfferComes(e, wire[u], c)
                \/ e.call = c /\ e.linked /\ HasNamed(t, "answer")
          BY <1>4, <2>4, <3>1 DEF OfferComes
        <4> QED
          BY <1>4, <2>4, <3>4, <4>1, <4>2, <4>3 DEF Handshake
      <3> QED
        BY <3>2, <3>3, <3>4 DEF PartsKept
    <2>8. t = wire[v] \o m /\ wire'[v] = t
      BY <1>4 DEF t
    <2> HIDE DEF c
    <2> QED
      BY <1>1, <1>2, <1>4, <2>1, <2>5, <2>6, <2>7, <2>8, BrowserGoesOn
  <1>5. \A m : Tell(v, m) => wire'[u] = wire[u] /\ wire'[v] = wire[v] \o m
    BY <1>1, <1>2, Wires
  <1>6. /\ \A x : active' = [active EXCEPT ![u] = x] => active'[v] = active[v]
        /\ \A x : incoming' = [incoming EXCEPT ![u] = x] => incoming'[v] = incoming[v]
    BY <1>2 DEF ShownTypeOK
  <1>7. CASE StartMedia(u)
    <2> DEFINE e == [engine[u] EXCEPT !.media = TRUE]
    <2>1. /\ e.call = engine[u].call /\ e.media /\ e.accepted = engine[u].accepted
          /\ e.linked = engine[u].linked /\ e.pendingOffer = engine[u].pendingOffer
          /\ LET o == Offering(e)
             IN /\ o.call = e.call /\ o.media /\ o.accepted = e.accepted
                /\ o.linked = e.linked /\ o.pendingOffer = e.pendingOffer
                /\ o.pc = "have-local-offer"
      BY <1>2 DEF Engines, Offering
    <2>2. /\ At(u, "start", "media") /\ End(u, "start")
          /\ UNCHANGED <<room, incoming, lost, overtaken, over>>
          /\ IF e.call = None THEN engine' = [engine EXCEPT ![u] = e] /\ UNCHANGED <<wire, active>>
             ELSE /\ engine' = [engine EXCEPT ![u] = Offering(e)] /\ Tell(v, OfferFrame(e))
                  /\ active' = [active EXCEPT ![u] = TRUE]
      BY <1>2, <1>7 DEF StartMedia
    <2> HIDE DEF e
    <2>3. CASE e.call = None
      BY <1>2, <1>3, <1>4, <2>1, <2>2, <2>3
    <2>4. CASE e.call # None
      <3> DEFINE o == Offering(e)
      <3>1. /\ o.call = e.call /\ o.media /\ o.accepted = e.accepted
            /\ o.linked = e.linked /\ o.pendingOffer = e.pendingOffer
            /\ o.pc = "have-local-offer" /\ engine' = [engine EXCEPT ![u] = o]
        BY <2>1, <2>2, <2>4
      <3>2. /\ OfferFrame(e) \in Seq(Frames) /\ Signals(OfferFrame(e), Len(room))
            /\ HasNamed(OfferFrame(e), "offer")
            /\ wire'[u] = wire[u] /\ wire'[v] = wire[v] \o OfferFrame(e)
            /\ active'[v] = active[v]
        BY <1>3, <1>5, <1>6, <2>1, <2>2, <2>4
      <3> HIDE DEF o
      <3> QED
        BY <1>4, <2>1, <2>2, <3>1, <3>2
    <2> QED
      BY <2>3, <2>4
  <1>8. CASE AcceptMedia(u)
    <2> DEFINE e == [engine[u] EXCEPT !.media = TRUE, !.accepted = TRUE, !.pendingOffer = FALSE]
               o == IF engine[u].pendingOffer THEN Answering(e) ELSE e
               m == IF engine[u].pendingOffer THEN AnswerFrame(e) ELSE << >>
    <2>1. /\ e.call = engine[u].call
          /\ o.call = engine[u].call /\ o.media /\ o.accepted /\ ~ o.pendingOffer
          /\ engine[u].linked => o.linked
          /\ engine[u].pendingOffer => o.linked
          /\ ~ engine[u].pendingOffer => o.pc = engine[u].pc
      BY <1>2 DEF Engines, Answering
    <2>2. /\ At(u, "accept", "media") /\ End(u, "accept")
          /\ UNCHANGED <<room, lost, overtaken, over>>
          /\ engine' = [engine EXCEPT ![u] = o]
          /\ IF engine[u].pendingOffer THEN Tell(v, AnswerFrame(e)) ELSE UNCHANGED wire
          /\ incoming' = [incoming EXCEPT ![u] = None] /\ active' = [active EXCEPT ![u] = TRUE]
      BY <1>2, <1>8 DEF AcceptMedia, Replayed
    <2>3. /\ m \in Seq(Frames) /\ Signals(m, Len(room))
          /\ engine[u].pendingOffer /\ o.call # None => HasNamed(m, "answer")
          /\ wire'[u] = wire[u] /\ wire'[v] = wire[v] \o m
      BY <1>2, <1>3, <1>5, <2>1, <2>2
    <2>4. /\ active'[v] = active[v] /\ incoming'[v] = incoming[v]
          /\ incoming'[u] \in {incoming[u], None}
      BY <1>2, <2>2 DEF ShownTypeOK
    <2>5. "accept" \in {"start", "accept", "answer"} /\ "accept" \notin {"start", "answer"}
      OBVIOUS
    <2> HIDE DEF e, o, m
    <2> QED
      BY <1>4, <2>1, <2>2, <2>3, <2>4, <2>5
  <1>9. CASE AnswerMedia(u)
    <2> DEFINE o == Answering(engine[u])
    <2>1. /\ o.call = engine[u].call /\ o.media /\ o.accepted = engine[u].accepted
          /\ o.pendingOffer = engine[u].pendingOffer /\ o.linked
      BY <1>2 DEF Engines, Answering
    <2>2. /\ At(u, "answer", "media") /\ End(u, "answer")
          /\ UNCHANGED <<room, incoming, active, lost, overtaken, over>>
          /\ engine' = [engine EXCEPT ![u] = o] /\ Tell(v, AnswerFrame(engine[u]))
      BY <1>2, <1>9 DEF AnswerMedia
    <2>3. /\ AnswerFrame(engine[u]) \in Seq(Frames) /\ Signals(AnswerFrame(engine[u]), Len(room))
          /\ wire'[u] = wire[u] /\ wire'[v] = wire[v] \o AnswerFrame(engine[u])
      BY <1>3, <1>5, <2>2
    <2> HIDE DEF o
    <2> QED
      BY <1>4, <2>1, <2>2, <2>3
  <1> QED
    BY <1>7, <1>8, <1>9

\* A call that is over, or none, ends.
LEMMA EndedSettles ==
  ASSUME CallInv, CallInv', ShownTypeOK, SettleInv, NEW u \in Users, Left(u) \/ CallEnded(u)
  PROVE  SettleInv'
  <1> DEFINE v == Peer(u)
             c == Len(room)
             e == Cleanup(engine[u])
  <1>1. CallTypeOK /\ CallTypeOK'
    BY DEF CallInv
  <1>2. /\ v \in Users /\ v # u /\ engine[u] \in Engines /\ v = Peer(u)
        /\ running[u] \in [Functions -> {Done} \union UnderWay]
        /\ wire[u] \in Seq(Frames) /\ wire[v] \in Seq(Frames) /\ wire[v] = wire[v] \o << >>
        /\ FramesNumbered(wire[u], Len(room), over) /\ Len(room) \in Nat
        /\ StateNumbered(engine[u], running[u], Len(room), over)
        /\ LittleLost /\ u \notin overtaken =>
             InStepWithCall(engine[u], running[u], wire[u], active[u], incoming[u], over)
        /\ running = [running EXCEPT ![u] = running[u]]
    BY <1>1, Sides
  <1>3. /\ e.call = None /\ ~ e.media
        /\ << >> \in Seq(Frames) /\ Signals(<< >>, Len(room)) /\ None # c /\ None \notin 1 .. c
    BY <1>2, UsersAssumption DEF Cleanup, Blank, Signals
  <1> HIDE DEF v, e
  <1>4. ASSUME NEW when, NEW r, NEW s, engine' = [engine EXCEPT ![u] = e],
               running' = [running EXCEPT ![u] = r], wire'[u] = s, wire'[v] = wire[v],
               UNCHANGED <<room, lost, over>>, Overtake(u, when),
               active'[v] = active[v], incoming'[v] = incoming[v],
               \A f \in Functions : r[f] = running[u][f] \/ (f = "leave" /\ r[f] = Done),
               FramesNumbered(s, Len(room), over),
               ~ when => ~ Joining(u) /\ engine[u].call \in over \union {None},
               LittleLost /\ ~ when /\ u \notin overtaken =>
                 (active'[u] \/ incoming'[u] # None => HasNamed(s, "call.ended")),
               \A x : Has(wire[u], x) => Has(s, x) \/ x.name = "call.ended",
               \A x, name : Followed(wire[u], x, name) =>
                 Followed(s, x, name) \/ x.name = "call.ended"
        PROVE  SettleInv'
    <2>1. StateNumbered(e, r, Len(room), over)
      BY <1>2, <1>3, <1>4 DEF StateNumbered, Functions
    <2>2. ~ when => \A f \in Functions \ {"leave"} : running[u][f] = Done /\ r[f] = Done
      BY <1>4 DEF Joining
    <2>3. LittleLost /\ ~ when /\ u \notin overtaken =>
            InStepWithCall(e, r, s, active'[u], incoming'[u], over)
      <3> SUFFICES ASSUME LittleLost, ~ when, u \notin overtaken
                   PROVE  InStepWithCall(e, r, s, active'[u], incoming'[u], over)
        OBVIOUS
      <3>1. None \notin over
        BY <1>3 DEF SettleInv
      <3> QED
        BY <1>3, <1>4, <2>2, <3>1, DoneIsOver DEF InStepWithCall, PlacedBy, Functions
    <2>4. ASSUME LittleLost, ~ when, overtaken = {}, Len(room) \notin over
          PROVE  PartsKept(u, v, e, r, incoming'[u], s, wire[v])
      <3>1. engine[u].call # c /\ e.call # c /\ running[u]["start"] = Done /\ r["start"] = Done
        BY <1>3, <1>4, <2>2, <2>4 DEF Functions
      <3>2. ~ PlacedBy(engine[u], running[u], c)
        BY <3>1, DoneIsOver DEF PlacedBy
      <3>3. ASSUME Handshake(engine[v], running[v], incoming[v], wire[v], engine[u], running[u],
                             wire[u], room[c], c)
            PROVE  Handshake(engine[v], running[v], incoming[v], wire[v], e, r, s, room[c], c)
        <4>1. Frame("call.incoming", c).name = "call.incoming"
          BY DEF Frame
        <4>2. /\ Has(wire[u], Frame("call.incoming", c)) => Has(s, Frame("call.incoming", c))
              /\ Followed(wire[u], Frame("call.incoming", c), "offer") =>
                   Followed(s, Frame("call.incoming", c), "offer")
          BY <1>4, <4>1
        <4>3. engine[u].call # c /\ e.call # c /\ r["start"] = running[u]["start"]
          BY <3>1
        <4> HIDE DEF c
        <4> QED
          BY <3>3, <4>2, <4>3, OtherElsewhere
      <3> QED
        BY <3>2, <3>3 DEF PartsKept
    <2> HIDE DEF c
    <2>5. /\ v = Peer(u) /\ << >> \in Seq(Frames) /\ wire[v] = wire[v] \o << >>
          /\ Signals(<< >>, Len(room)) /\ FramesNumbered(s, Len(room), over)
      BY <1>2, <1>3, <1>4
    <2>6. /\ engine' = [engine EXCEPT ![u] = e] /\ running' = [running EXCEPT ![u] = r]
          /\ wire'[u] = s /\ wire'[v] = wire[v] /\ UNCHANGED <<room, lost, over>>
          /\ Overtake(u, when)
          /\ active'[v] = active[v] /\ incoming'[v] = incoming[v]
      BY <1>4
    <2> QED
      BY <1>1, <2>1, <2>3, <2>4, <2>5, <2>6, BrowserMayTurn
  <1>5. CASE Left(u)
    <2> DEFINE r == [running[u] EXCEPT !["leave"] = Done]
               when == Joining(u) \/ engine[u].call \notin {CallOf(u, "leave"), None}
    <2>1. /\ running[u]["leave"] # Done /\ engine' = [engine EXCEPT ![u] = e]
          /\ running' = [running EXCEPT ![u] = r] /\ UNCHANGED <<room, lost, over>>
          /\ wire' = wire /\ Overtake(u, when)
          /\ IF At(u, "leave", "ended")
             THEN active' = [active EXCEPT ![u] = FALSE] /\ incoming' = incoming
             ELSE incoming' = [incoming EXCEPT ![u] = None] /\ active' = active
      BY <1>1, <1>5 DEF Left, End, CallTypeOK, e
    <2>2. \A f \in Functions : r[f] = running[u][f] \/ (f = "leave" /\ r[f] = Done)
      BY <1>2 DEF Functions
    <2>3. ~ when => ~ Joining(u) /\ engine[u].call \in over \union {None}
      BY <1>2, <2>1 DEF StateNumbered, CallOf
    <2>4. /\ active'[v] = active[v] /\ incoming'[v] = incoming[v]
          /\ active'[u] \/ incoming'[u] # None => active[u] \/ incoming[u] # None
      BY <1>2, <2>1 DEF ShownTypeOK
    <2> HIDE DEF r, when
    <2>5. LittleLost /\ ~ when /\ u \notin overtaken =>
            (active'[u] \/ incoming'[u] # None => HasNamed(wire[u], "call.ended"))
      <3> SUFFICES ASSUME LittleLost, ~ when, u \notin overtaken, active[u] \/ incoming[u] # None
                   PROVE  HasNamed(wire[u], "call.ended")
        BY <2>4
      <3>1. CASE engine[u].call = None
        BY <1>2, <3>1 DEF InStepWithCall
      <3>2. CASE engine[u].call \in over
        <4>1. Has(wire[u], Frame("call.ended", engine[u].call))
          BY <1>2, <3>2 DEF InStepWithCall, PlacedBy
        <4> QED
          BY <4>1 DEF Has, HasNamed, Frame
      <3> QED
        BY <2>3, <3>1, <3>2
    <2> QED
      BY <1>2, <1>4, <2>1, <2>2, <2>3, <2>4, <2>5
  <1>6. CASE CallEnded(u)
    <2> DEFINE when == Joining(u) \/ engine[u].call \notin {Head(wire[u]).call, None}
    <2>1. /\ wire[u] # << >> /\ Head(wire[u]).name = "call.ended"
          /\ engine' = [engine EXCEPT ![u] = e] /\ running' = running
          /\ UNCHANGED <<room, lost, over>> /\ Take(u) /\ Overtake(u, when)
          /\ incoming' = [incoming EXCEPT ![u] = None] /\ active' = [active EXCEPT ![u] = FALSE]
      BY <1>6 DEF CallEnded, Arriving, e
    <2>2. wire'[u] = Tail(wire[u]) /\ wire'[v] = wire[v]
      BY <1>1, <1>2, <2>1, Wires
    <2>3. /\ FramesNumbered(Tail(wire[u]), Len(room), over) /\ Head(wire[u]).call \in over
          /\ \A x : Has(wire[u], x) => Has(Tail(wire[u]), x) \/ x.name = "call.ended"
          /\ \A x, name : Followed(wire[u], x, name) =>
               Followed(Tail(wire[u]), x, name) \/ x.name = "call.ended"
      BY <1>2, <2>1, AfterTail
    <2>4. ~ when => ~ Joining(u) /\ engine[u].call \in over \union {None}
      BY <2>3
    <2>5. /\ active'[v] = active[v] /\ incoming'[v] = incoming[v]
          /\ ~ (active'[u] \/ incoming'[u] # None)
      BY <1>2, <2>1 DEF ShownTypeOK
    <2> HIDE DEF when
    <2> QED
      BY <1>2, <1>4, <2>1, <2>2, <2>3, <2>4, <2>5
  <1> QED
    BY <1>5, <1>6

\* A call comes.
LEMMA IncomingSettles ==
  ASSUME CallInv, CallInv', ShownTypeOK, SettleInv, NEW u \in Users, CallIncoming(u)
  PROVE  SettleInv'
  <1> DEFINE v == Peer(u)
             c == Len(room)
             d == Head(wire[u]).call
             e == Attach(engine[u], d)
             s == Tail(wire[u])
             when == Joining(u) \/ engine[u].call # None
  <1>1. CallTypeOK /\ CallTypeOK'
    BY DEF CallInv
  <1>2. /\ v \in Users /\ v # u /\ engine[u] \in Engines /\ v = Peer(u)
        /\ running[u] \in [Functions -> {Done} \union UnderWay]
        /\ wire[u] \in Seq(Frames) /\ wire[v] \in Seq(Frames) /\ wire[v] = wire[v] \o << >>
        /\ FramesNumbered(wire[u], Len(room), over) /\ Len(room) \in Nat
        /\ StateNumbered(engine[u], running[u], Len(room), over)
        /\ LittleLost /\ u \notin overtaken =>
             InStepWithCall(engine[u], running[u], wire[u], active[u], incoming[u], over)
        /\ running = [running EXCEPT ![u] = running[u]]
    BY <1>1, Sides
  <1>3. /\ wire[u] # << >> /\ Head(wire[u]).name = "call.incoming"
        /\ engine' = [engine EXCEPT ![u] = e] /\ running' = running
        /\ UNCHANGED <<room, active, lost, over>> /\ Take(u) /\ Overtake(u, when)
        /\ incoming' = [incoming EXCEPT ![u] = d]
    BY DEF CallIncoming, Arriving
  <1>4. /\ wire'[u] = s /\ wire'[v] = wire[v] /\ active'[v] = active[v]
        /\ incoming'[v] = incoming[v] /\ active'[u] = active[u]
        /\ << >> \in Seq(Frames) /\ Signals(<< >>, Len(room)) /\ None # c /\ None \notin 1 .. c
    BY <1>1, <1>2, <1>3, Wires, UsersAssumption DEF Signals, ShownTypeOK
  <1>5. /\ FramesNumbered(s, Len(room), over) /\ d \in 1 .. c
        /\ d \in over => Has(s, Frame("call.ended", d))
        /\ \A x : Has(wire[u], x) => Has(s, x) \/ Head(wire[u]) = x
        /\ \A x, name : Followed(wire[u], x, name) =>
             HasNamed(s, name) /\ (Followed(s, x, name) \/ Head(wire[u]) = x)
    BY <1>2, <1>3, AfterTail
  <1>6. e.call = d /\ ~ e.accepted /\ ~ e.pendingOffer /\ e.media = engine[u].media
    BY <1>2 DEF Attach, Engines
  <1>7. Frame("call.incoming", c).call = c
    BY DEF Frame
  <1> HIDE DEF v, d, e, s, when
  <1>8. StateNumbered(e, running[u], Len(room), over)
    BY <1>2, <1>5, <1>6 DEF StateNumbered
  <1>9. ~ when => /\ \A f \in Functions \ {"leave"} : running[u][f] = Done
                  /\ engine[u].call = None
    BY DEF when, Joining
  <1>10. LittleLost /\ ~ when /\ u \notin overtaken =>
           InStepWithCall(e, running[u], s, active[u], incoming'[u], over)
    BY <1>4, <1>5, <1>6, <1>9, DoneIsOver DEF InStepWithCall, PlacedBy, Functions
  <1>11. ASSUME LittleLost, ~ when, overtaken = {}, Len(room) \notin over
         PROVE  PartsKept(u, v, e, running[u], incoming'[u], s, wire[v])
    <2>1. ~ PlacedBy(engine[u], running[u], c)
      BY <1>4, <1>9, <1>11, DoneIsOver DEF PlacedBy, Functions
    <2>2. ASSUME Handshake(engine[v], running[v], incoming[v], wire[v], engine[u], running[u],
                           wire[u], room[c], c)
          PROVE  Handshake(engine[v], running[v], incoming[v], wire[v], e, running[u], s,
                           room[c], c)
      <3>1. CASE d # c
        <4>1. Head(wire[u]) # Frame("call.incoming", c) /\ engine[u].call # c
          BY <1>4, <1>7, <1>9, <1>11, <3>1 DEF d
        <4> QED
          BY <1>5, <1>6, <2>2, <3>1, <4>1, OtherElsewhere
      <3>2. CASE d = c
        <4>1. /\ room[c] = "ringing" /\ engine[u].call # c
              /\ OfferComes(engine[u], wire[u], c) => OfferComes(e, s, c)
          BY <1>4, <1>5, <1>6, <1>9, <1>11, <2>2, <3>2 DEF Handshake, OfferComes
        <4> QED
          BY <1>6, <2>2, <3>2, <4>1 DEF Handshake
      <3> QED
        BY <3>1, <3>2
    <2> QED
      BY <2>1, <2>2 DEF PartsKept
  <1> HIDE DEF c
  <1>12. /\ v = Peer(u) /\ engine' = [engine EXCEPT ![u] = e]
         /\ running' = [running EXCEPT ![u] = running[u]]
         /\ wire'[u] = s /\ wire'[v] = wire[v] /\ wire[v] = wire[v] \o << >>
         /\ UNCHANGED <<room, lost, over>> /\ Overtake(u, when)
         /\ active'[v] = active[v] /\ incoming'[v] = incoming[v] /\ active'[u] = active[u]
         /\ << >> \in Seq(Frames) /\ Signals(<< >>, Len(room))
         /\ FramesNumbered(s, Len(room), over)
    BY <1>2, <1>3, <1>4, <1>5
  <1> QED
    BY <1>1, <1>8, <1>10, <1>11, <1>12, BrowserMayTurn

\* Offers, answers and call.accepted.
LEMMA SignalSettles ==
  ASSUME CallInv, CallInv', ShownTypeOK, SettleInv, NEW u \in Users,
         CallAccepted(u) \/ BufferOffer(u) \/ AnswerOffer(u) \/ TakeAnswer(u)
  PROVE  SettleInv'
  <1> DEFINE v == Peer(u)
             c == Len(room)
             b == engine[u]
             s == Tail(wire[u])
             named == Head(wire[u]).name
  <1>1. CallTypeOK /\ CallTypeOK'
    BY DEF CallInv
  <1>2. /\ v \in Users /\ v # u /\ b \in Engines /\ v = Peer(u)
        /\ running[u] \in [Functions -> {Done} \union UnderWay]
        /\ wire[u] \in Seq(Frames) /\ wire[v] \in Seq(Frames) /\ wire[v] \o << >> = wire[v]
        /\ FramesNumbered(wire[u], Len(room), over) /\ Len(room) \in Nat
        /\ StateNumbered(b, running[u], Len(room), over)
        /\ LittleLost /\ u \notin overtaken =>
             InStepWithCall(b, running[u], wire[u], active[u], incoming[u], over)
        /\ engine = [engine EXCEPT ![u] = b] /\ running = [running EXCEPT ![u] = running[u]]
    BY <1>1, Sides
  <1>3. /\ wire[u] # << >> /\ named \in {"call.accepted", "offer", "answer"}
        /\ UNCHANGED <<room, incoming, active, lost, over, overtaken>>
    BY DEF CallAccepted, BufferOffer, AnswerOffer, TakeAnswer, Arriving
  <1>4. /\ b.call \in (1 .. Len(room)) \union {None} /\ None # c
        /\ << >> \in Seq(Frames) /\ Signals(<< >>, Len(room))
        /\ OfferFrame(b) \in Seq(Frames) /\ Signals(OfferFrame(b), Len(room))
        /\ AnswerFrame(b) \in Seq(Frames) /\ Signals(AnswerFrame(b), Len(room))
        /\ b.call # None => HasNamed(OfferFrame(b), "offer") /\ HasNamed(AnswerFrame(b), "answer")
    <2>1. b.call \in (1 .. Len(room)) \union {None} /\ None # c
      BY <1>2, UsersAssumption DEF StateNumbered
    <2> QED
      BY <1>2, <2>1, CallFrames
  <1>5. /\ FramesNumbered(s, Len(room), over)
        /\ \A x : Has(wire[u], x) => Has(s, x) \/ x.name = named
        /\ \A name : HasNamed(wire[u], name) => HasNamed(s, name) \/ named = name
        /\ \A x, name : Followed(wire[u], x, name) => Followed(s, x, name) \/ x.name = named
    BY <1>2, <1>3, AfterTail
  <1>6. \A x : Frame("call.incoming", x).name = "call.incoming"
               /\ Frame("call.ended", x).name = "call.ended"
    BY DEF Frame
  <1>7. /\ Take(u) => wire'[u] = s /\ wire'[v] = wire[v] \o << >>
        /\ \A m : TakeAndTell(u, m) => wire'[u] = s /\ wire'[v] = wire[v] \o m
    BY <1>1, <1>2, Wires
  <1> HIDE DEF v, b, s, named
  <1>8. ASSUME NEW e, NEW r, NEW m \in Seq(Frames), engine' = [engine EXCEPT ![u] = e],
               running' = [running EXCEPT ![u] = r], wire'[u] = s, wire'[v] = wire[v] \o m,
               Signals(m, Len(room)), e.call = b.call, e.accepted = b.accepted,
               b.media => e.media, e.media => b.media \/ b.call # None,
               b.linked => e.linked, b.pendingOffer => e.pendingOffer,
               e.accepted => e.pendingOffer = b.pendingOffer,
               b.pc = "have-local-offer" => e.pc = "have-local-offer" \/ e.linked,
               \A f \in Functions : \/ r[f] = running[u][f]
                                    \/ /\ f = "answer" /\ r[f].call = b.call /\ r[f] # Done
                                       /\ ~ b.media /\ b.accepted /\ b.call # None,
               \* what an offer leads to
               named = "offer" /\ b.call # None =>
                 e.pendingOffer \/ e.linked \/ (b.accepted /\ ~ b.media),
               named = "answer" /\ b.call # None /\ b.pc = "have-local-offer" => e.linked,
               b.call = None => e = b,
               b.call # None => \/ e.pc = b.pc \/ e.linked
                                \/ e.pc = "have-local-offer" /\ HasNamed(m, "offer"),
               named = "offer" /\ ~ e.pendingOffer /\ b.call # None =>
                 HasNamed(m, "answer") \/ (b.accepted /\ ~ b.media)
        PROVE  SettleInv'
    <2> DEFINE t == wire[v] \o m
    <2>1. StateNumbered(e, r, Len(room), over)
      BY <1>2, <1>4, <1>8 DEF StateNumbered, Functions
    <2>2. ASSUME LittleLost, u \notin overtaken
          PROVE  InStepWithCall(e, r, s, active[u], incoming[u], over)
      <3>1. InStepWithCall(b, running[u], wire[u], active[u], incoming[u], over)
        BY <1>2, <2>2
      <3>2. /\ e.call = b.call /\ r["start"] = running[u]["start"]
            /\ e.call = None => (e.media => b.media)
        BY <1>8 DEF Functions
      <3>3. \A f \in {"accept", "answer"} : r[f] # Done => e.call = r[f].call /\ e.call # None
        BY <1>8, <3>1 DEF InStepWithCall, Functions
      <3>4. /\ HasNamed(wire[u], "call.ended") => HasNamed(s, "call.ended")
            /\ \A x : Has(wire[u], Frame("call.ended", x)) => Has(s, Frame("call.ended", x))
        BY <1>3, <1>5, <1>6
      <3> QED
        BY <3>1, <3>2, <3>3, <3>4 DEF InStepWithCall, PlacedBy
    <2>3. /\ \A x : Has(wire[v], x) => Has(t, x)
          /\ \A name : HasNamed(wire[v], name) \/ HasNamed(m, name) => HasNamed(t, name)
          /\ \A x, name : Followed(wire[v], x, name) \/ (Has(wire[v], x) /\ HasNamed(m, name)) =>
               Followed(t, x, name)
          /\ OfferComes(engine[v], wire[v], c) => OfferComes(engine[v], t, c)
      BY <1>2, <1>8, AfterMore, MoreComes
    <2> HIDE DEF t
    <2>4. ASSUME LittleLost, overtaken = {}, Len(room) \notin over
          PROVE  PartsKept(u, v, e, r, incoming[u], s, t)
      <3>1. InStepWithCall(b, running[u], wire[u], active[u], incoming[u], over)
        BY <1>2, <2>4
      <3>2. PlacedBy(b, running[u], c) => PlacedBy(e, r, c)
        BY <1>8 DEF PlacedBy, Functions
      <3>3. r["start"] = running[u]["start"] /\ r["accept"] = running[u]["accept"]
        BY <1>8 DEF Functions
      <3>4. ASSUME PlacedBy(b, running[u], c),
                   Handshake(b, running[u], incoming[u], wire[u], engine[v], running[v],
                             wire[v], room[c], c)
            PROVE  Handshake(e, r, incoming[u], s, engine[v], running[v], t, room[c], c)
        <4>1. b.accepted /\ incoming[u] = None
          BY <3>4 DEF Handshake
        <4>2. HasNamed(wire[u], "answer") =>
                HasNamed(s, "answer") \/ e.linked \/ b.pc # "have-local-offer" \/ b.call = None
          BY <1>5, <1>8
        <4>3. b.call = None => running[u]["start"] # Done
          BY <1>4, <3>4, DoneIsOver DEF PlacedBy
        <4> QED
          BY <1>8, <2>3, <3>3, <3>4, <4>1, <4>2, <4>3 DEF Handshake
      <3>5. ASSUME Handshake(engine[v], running[v], incoming[v], wire[v], b, running[u],
                             wire[u], room[c], c)
            PROVE  Handshake(engine[v], running[v], incoming[v], t, e, r, s, room[c], c)
        <4>1. CASE b.call # c
          <5>1. /\ Has(wire[u], Frame("call.incoming", c)) => Has(s, Frame("call.incoming", c))
                /\ Followed(wire[u], Frame("call.incoming", c), "offer") =>
                     Followed(s, Frame("call.incoming", c), "offer")
            BY <1>3, <1>5, <1>6
          <5> QED
            BY <1>8, <2>3, <3>3, <3>5, <4>1, <5>1, OtherElsewhere
        <4>2. CASE b.call = c
          <5>1. b.call # None /\ (b.accepted => b.media)
            BY <1>4, <3>5, <4>2 DEF Handshake
          <5>2. OfferComes(b, wire[u], c) =>
                  OfferComes(e, s, c) \/ (e.linked /\ HasNamed(t, "answer"))
            BY <1>5, <1>8, <2>3, <4>2, <5>1 DEF OfferComes
          <5> QED
            BY <1>8, <2>3, <3>3, <3>5, <4>2, <5>1, <5>2 DEF Handshake
        <4> QED
          BY <4>1, <4>2
      <3>6. HasNamed(wire[u], "call.ended") => HasNamed(s, "call.ended")
        BY <1>3, <1>5
      <3> QED
        BY <3>2, <3>4, <3>5, <3>6 DEF PartsKept, b
    <2>5. t = wire[v] \o m /\ wire'[v] = t
      BY <1>8 DEF t
    <2> HIDE DEF c
    <2>6. /\ active'[u] = active[u] /\ active'[v] = active[v]
          /\ incoming'[u] = incoming[u] /\ incoming'[v] = incoming[v]
      BY <1>3
    <2>7. /\ v = Peer(u) /\ engine' = [engine EXCEPT ![u] = e]
          /\ running' = [running EXCEPT ![u] = r]
          /\ wire'[u] = s /\ Signals(m, Len(room)) /\ UNCHANGED <<room, lost, overtaken, over>>
          /\ FramesNumbered(s, Len(room), over) /\ m \in Seq(Frames)
      BY <1>2, <1>3, <1>5, <1>8
    <2> QED
      BY <1>1, <2>1, <2>2, <2>4, <2>5, <2>6, <2>7, BrowserGoesOn
  <1>9. CASE CallAccepted(u)
    <2>1. /\ named = "call.accepted" /\ running' = running
          /\ IF b.call = None THEN Take(u) /\ engine' = engine
             ELSE /\ engine' = [engine EXCEPT ![u] = Offering(b)]
                  /\ TakeAndTell(u, OfferFrame(b))
      BY <1>9 DEF CallAccepted, Arriving, b, named
    <2> DEFINE e == Offering(b)
    <2>2. /\ e.call = b.call /\ e.accepted = b.accepted /\ e.media = b.media
          /\ e.linked = b.linked /\ e.pendingOffer = b.pendingOffer /\ e.pc = "have-local-offer"
      BY <1>2 DEF Engines, Offering
    <2> HIDE DEF e
    <2>3. CASE b.call = None
      BY <1>2, <1>4, <1>7, <1>8, <2>1, <2>3
    <2>4. CASE b.call # None
      BY <1>2, <1>4, <1>7, <1>8, <2>1, <2>2, <2>4 DEF e
    <2> QED
      BY <2>3, <2>4
  <1>10. CASE BufferOffer(u)
    <2> DEFINE e == [b EXCEPT !.pendingOffer = @ \/ b.call # None]
    <2>1. /\ named = "offer" /\ running' = running /\ Take(u) /\ ~ b.accepted
          /\ engine' = [engine EXCEPT ![u] = e]
      BY <1>10 DEF BufferOffer, Arriving, TakesPart, b, named
    <2>2. /\ e.call = b.call /\ e.accepted = b.accepted /\ e.media = b.media
          /\ e.linked = b.linked /\ e.pc = b.pc
          /\ e.pendingOffer <=> b.pendingOffer \/ b.call # None
          /\ b.call = None => e = b
      BY <1>2 DEF Engines
    <2> HIDE DEF e
    <2> QED
      BY <1>2, <1>4, <1>7, <1>8, <2>1, <2>2
  <1>11. CASE AnswerOffer(u)
    <2>1. named = "offer" /\ b.accepted
      BY <1>11 DEF AnswerOffer, Arriving, TakesPart, b, named
    <2>2. CASE b.call = None
      <3>1. Take(u) /\ engine' = engine /\ running' = running
        BY <1>11, <2>2 DEF AnswerOffer, b
      <3> QED
        BY <1>2, <1>4, <1>7, <1>8, <2>2, <3>1
    <2>3. CASE b.call # None /\ b.media
      <3> DEFINE e == Answering(b)
      <3>1. /\ engine' = [engine EXCEPT ![u] = e] /\ running' = running
            /\ TakeAndTell(u, AnswerFrame(b))
        BY <1>11, <2>3 DEF AnswerOffer, b
      <3>2. /\ e.call = b.call /\ e.accepted = b.accepted /\ e.media /\ e.linked
            /\ e.pendingOffer = b.pendingOffer
        BY <1>2 DEF Engines, Answering
      <3> HIDE DEF e
      <3> QED
        BY <1>2, <1>4, <1>7, <1>8, <2>1, <2>3, <3>1, <3>2
    <2>4. CASE b.call # None /\ ~ b.media
      <3> DEFINE x == [at |-> "media", call |-> b.call]
                 r == [running[u] EXCEPT !["answer"] = x]
      <3>1. Become(u, "answer", "media", b.call) /\ Take(u) /\ engine' = engine
        BY <1>11, <2>4 DEF AnswerOffer, b
      <3>2. running' = [running EXCEPT ![u] = r]
        BY <1>1, <3>1 DEF Become, CallTypeOK
      <3>3. x.call = b.call /\ x # Done
        <4>1. x.at # Done.at /\ x.call = b.call
          BY DoneIsOver
        <4> QED
          BY <4>1
      <3>4. \A f \in Functions : r[f] = IF f = "answer" THEN x ELSE running[u][f]
        BY <1>2
      <3> HIDE DEF x, r
      <3>5. \A f \in Functions : \/ r[f] = running[u][f]
                                 \/ /\ f = "answer" /\ r[f].call = b.call /\ r[f] # Done
                                    /\ ~ b.media /\ b.accepted /\ b.call # None
        BY <2>1, <2>4, <3>3, <3>4
      <3>6. /\ engine' = [engine EXCEPT ![u] = b] /\ wire'[u] = s /\ wire'[v] = wire[v] \o << >>
            /\ << >> \in Seq(Frames) /\ Signals(<< >>, Len(room))
        BY <1>2, <1>4, <1>7, <3>1
      <3> QED
        BY <1>8, <2>1, <2>4, <3>2, <3>5, <3>6
    <2> QED
      BY <1>2, <2>2, <2>3, <2>4 DEF Engines
  <1>12. CASE TakeAnswer(u)
    <2> DEFINE e == IF b.call # None /\ b.pc = "have-local-offer"
                    THEN [b EXCEPT !.pc = "stable", !.linked = TRUE] ELSE b
    <2>1. /\ named = "answer" /\ running' = running /\ Take(u)
          /\ engine' = [engine EXCEPT ![u] = e]
      BY <1>12 DEF TakeAnswer, Arriving, b, named
    <2>2. /\ e.call = b.call /\ e.accepted = b.accepted /\ e.media = b.media
          /\ b.linked => e.linked
          /\ e.pendingOffer = b.pendingOffer
          /\ e.pc = b.pc \/ e.linked
          /\ b.call # None /\ b.pc = "have-local-offer" => e.linked
          /\ b.call = None => e = b
      BY <1>2 DEF Engines
    <2> HIDE DEF e
    <2> QED
      BY <1>2, <1>4, <1>7, <1>8, <2>1, <2>2
  <1> QED
    BY <1>9, <1>10, <1>11, <1>12

\* A frame is lost.
LEMMA LoseSettles ==
  ASSUME CallInv, CallInv', ShownTypeOK, SettleInv, NEW u \in Users, Lose(u)
  PROVE  SettleInv'
  <1> DEFINE v == Peer(u)
             c == Len(room)
             s == Tail(wire[u])
             x == Head(wire[u])
  <1>1. CallTypeOK /\ CallTypeOK'
    BY DEF CallInv
  <1>2. /\ v \in Users /\ v # u /\ v = Peer(u)
        /\ wire[u] \in Seq(Frames) /\ wire[v] \in Seq(Frames) /\ wire[v] \o << >> = wire[v]
        /\ FramesNumbered(wire[u], Len(room), over) /\ Len(room) \in Nat
        /\ StateNumbered(engine[u], running[u], Len(room), over)
        /\ LittleLost /\ u \notin overtaken =>
             InStepWithCall(engine[u], running[u], wire[u], active[u], incoming[u], over)
        /\ engine = [engine EXCEPT ![u] = engine[u]]
        /\ running = [running EXCEPT ![u] = running[u]]
    BY <1>1, Sides
  <1>3. /\ wire[u] # << >> /\ lost' = Append(lost, x) /\ Take(u)
        /\ UNCHANGED <<room, engine, incoming, active, running, overtaken, over>>
    BY DEF Lose
  <1>4. LittleLost' => LittleLost /\ x.name = "call.accepted"
    <2>1. /\ Len(lost') = Len(lost) + 1 /\ Len(lost) \in Nat /\ lost'[Len(lost) + 1] = x
          /\ \A i \in 1 .. Len(lost) : lost'[i] = lost[i]
      BY <1>3 DEF ShownTypeOK
    <2> QED
      BY <2>1 DEF LittleLost
  <1>5. /\ FramesNumbered(s, Len(room), over)
        /\ \A y : Has(wire[u], y) => Has(s, y) \/ y.name = x.name
        /\ \A name : HasNamed(wire[u], name) => HasNamed(s, name) \/ x.name = name
        /\ \A y, name : Followed(wire[u], y, name) => Followed(s, y, name) \/ y.name = x.name
    BY <1>2, <1>3, AfterTail
  <1>6. \A d : Frame("call.incoming", d).name = "call.incoming"
               /\ Frame("call.ended", d).name = "call.ended"
    BY DEF Frame
  <1>7. wire'[u] = s /\ wire'[v] = wire[v] \o << >>
    BY <1>1, <1>2, <1>3, Wires
  <1>8. /\ << >> \in Seq(Frames) /\ Signals(<< >>, Len(room))
    BY DEF Signals
  <1> HIDE DEF v, s, x
  <1>9. ASSUME LittleLost', u \notin overtaken'
        PROVE  InStepWithCall(engine[u], running[u], s, active[u], incoming[u], over)
    BY <1>2, <1>3, <1>4, <1>5, <1>6, <1>9 DEF InStepWithCall
  <1>10. ASSUME LittleLost'
         PROVE  PartsKept(u, v, engine[u], running[u], incoming[u], s, wire[v])
    <2>1. /\ Has(wire[u], Frame("call.incoming", c)) => Has(s, Frame("call.incoming", c))
          /\ HasNamed(wire[u], "call.ended") => HasNamed(s, "call.ended")
          /\ HasNamed(wire[u], "answer") => HasNamed(s, "answer")
          /\ HasNamed(wire[u], "offer") => HasNamed(s, "offer")
          /\ Followed(wire[u], Frame("call.incoming", c), "offer") =>
               Followed(s, Frame("call.incoming", c), "offer")
      BY <1>4, <1>5, <1>6, <1>10
    <2> QED
      BY <2>1 DEF PartsKept, Handshake, OfferComes
  <1> HIDE DEF c
  <1>11. /\ engine' = [engine EXCEPT ![u] = engine[u]]
         /\ running' = [running EXCEPT ![u] = running[u]]
         /\ active' = active /\ incoming' = incoming /\ room' = room /\ over' = over
         /\ overtaken' = overtaken /\ Len(room') = Len(room)
    BY <1>2, <1>3
  <1>12. LittleLost' =>
           /\ PlacedBy(engine[u], running[u], Len(room)) =>
                /\ PlacedBy(engine[u], running[u], Len(room))
                /\ HasNamed(wire[u], "call.ended") => HasNamed(wire'[u], "call.ended")
                /\ Handshake(engine[u], running[u], incoming[u], wire[u], engine[v], running[v],
                             wire[v], room[Len(room)], Len(room))
                   => Handshake(engine[u], running[u], incoming'[u], wire'[u], engine[v],
                                running[v], wire[v] \o << >>, room'[Len(room)], Len(room))
           /\ PlacedBy(engine[v], running[v], Len(room))
              /\ Handshake(engine[v], running[v], incoming[v], wire[v], engine[u], running[u],
                           wire[u], room[Len(room)], Len(room))
              => Handshake(engine[v], running[v], incoming[v], wire[v] \o << >>, engine[u],
                           running[u], wire'[u], room'[Len(room)], Len(room))
    BY <1>2, <1>7, <1>10, <1>11 DEF PartsKept
  <1>13. /\ FramesNumbered(wire'[u], Len(room), over)
         /\ LittleLost' /\ u \notin overtaken' =>
              InStepWithCall(engine[u], running[u], wire'[u], active'[u], incoming'[u], over)
    BY <1>5, <1>7, <1>9, <1>11
  <1> QED
    BY <1>1, <1>2, <1>4, <1>7, <1>8, <1>11, <1>12, <1>13, BrowserStep

\* A call is accepted.
LEMMA AcceptSettles ==
  ASSUME CallInv, CallInv', ShownTypeOK, SettleInv, NEW u \in Users, Accept(u)
  PROVE  SettleInv'
  <1> DEFINE v == Peer(u)
             c == Len(room)
             d == engine[u].call
             m == << Frame("call.accepted", d) >>
             x == [at |-> "asking", call |-> d]
             r == [running[u] EXCEPT !["accept"] = x]
             t == wire[v] \o m
  <1>1. CallTypeOK /\ CallTypeOK'
    BY DEF CallInv
  <1>2. /\ v \in Users /\ v # u /\ v = Peer(u) /\ engine[u] \in Engines
        /\ running[u] \in [Functions -> {Done} \union UnderWay]
        /\ wire[u] \in Seq(Frames) /\ wire[v] \in Seq(Frames)
        /\ FramesNumbered(wire[u], Len(room), over) /\ Len(room) \in Nat
        /\ StateNumbered(engine[u], running[u], Len(room), over)
        /\ LittleLost /\ u \notin overtaken =>
             InStepWithCall(engine[u], running[u], wire[u], active[u], incoming[u], over)
        /\ engine = [engine EXCEPT ![u] = engine[u]]
    BY <1>1, Sides
  <1>3. /\ incoming[u] # None /\ d # None /\ room' = [room EXCEPT ![d] = "active"]
        /\ Tell(v, m) /\ running' = [running EXCEPT ![u] = r]
        /\ overtaken \subseteq overtaken' /\ overtaken' \subseteq overtaken \union {u}
        /\ UNCHANGED <<engine, incoming, active, lost, over>>
    BY <1>1 DEF Accept, Become, Overtake, CallTypeOK
  <1>4. d \in 1 .. c
    BY <1>2, <1>3 DEF StateNumbered
  <1>5. m \in Seq(Frames) /\ Signals(m, Len(room))
    BY <1>2, <1>4, OneFrame
  <1>6. wire'[u] = wire[u] /\ wire'[v] = t
    <2> HIDE DEF v, m, t
    <2> QED
      BY <1>1, <1>2, <1>3, Wires DEF t
  <1>7. /\ \A f \in Functions : r[f] = IF f = "accept" THEN x ELSE running[u][f]
        /\ x.call = d /\ x.at = "asking"
    BY <1>2
  <1>8. x # Done
    BY <1>7, DoneIsOver
  <1> HIDE DEF v, m, x, r, t
  <1>9. /\ Len(room') = Len(room)
        /\ \A i \in 1 .. Len(room) : room'[i] = IF i = d THEN "active" ELSE room[i]
    BY <1>1, <1>3 DEF CallTypeOK
  <1>10. StateNumbered(engine[u], r, Len(room), over)
    BY <1>2, <1>4, <1>7 DEF StateNumbered, Functions
  <1>11. ASSUME LittleLost', u \notin overtaken'
         PROVE  InStepWithCall(engine[u], r, wire[u], active[u], incoming[u], over)
    <2>1. LittleLost
      BY <1>3, <1>11 DEF LittleLost
    <2> QED
      BY <1>2, <1>3, <1>7, <1>8, <1>11, <2>1 DEF InStepWithCall, PlacedBy, Functions
  <1>12. /\ \A y : Has(wire[v], y) => Has(t, y)
         /\ \A name : HasNamed(wire[v], name) => HasNamed(t, name)
         /\ OfferComes(engine[v], wire[v], c) => OfferComes(engine[v], t, c)
    BY <1>2, <1>5, AfterMore, MoreComes DEF t
  <1>13. ASSUME PlacedBy(engine[u], running[u], c) PROVE PlacedBy(engine[u], r, c)
    BY <1>7, <1>13 DEF PlacedBy, Functions
  <1>14. ~ Handshake(engine[u], running[u], incoming[u], wire[u], engine[v], running[v], wire[v],
                     room[c], c)
    BY <1>3 DEF Handshake
  <1>15. ASSUME c > 0, Handshake(engine[v], running[v], incoming[v], wire[v], engine[u], running[u],
                                 wire[u], room[c], c)
         PROVE  Handshake(engine[v], running[v], incoming[v], t, engine[u], r, wire[u], room'[c], c)
    <2>1. c \in 1 .. c /\ r["start"] = running[u]["start"] /\ r["accept"] # Done
      BY <1>2, <1>7, <1>8, <1>15 DEF Functions
    <2>2. d # c => room'[c] = room[c]
      BY <1>9, <2>1
    <2> QED
      BY <1>12, <1>15, <2>1, <2>2 DEF Handshake
  <1>16. t = wire[v] \o m
    BY DEF t
  <1> HIDE DEF c, d
  <1>17. /\ engine' = [engine EXCEPT ![u] = engine[u]]
         /\ active' = active /\ incoming' = incoming /\ over' = over
         /\ LittleLost' => LittleLost
    BY <1>2, <1>3 DEF LittleLost
  <1>18. Len(room) > 0 =>
           /\ PlacedBy(engine[u], running[u], Len(room)) =>
                /\ PlacedBy(engine[u], r, Len(room))
                /\ HasNamed(wire[u], "call.ended") => HasNamed(wire'[u], "call.ended")
                /\ Handshake(engine[u], running[u], incoming[u], wire[u], engine[v], running[v],
                             wire[v], room[Len(room)], Len(room))
                   => Handshake(engine[u], r, incoming'[u], wire'[u], engine[v],
                                running[v], wire[v] \o m, room'[Len(room)], Len(room))
           /\ PlacedBy(engine[v], running[v], Len(room))
              /\ Handshake(engine[v], running[v], incoming[v], wire[v], engine[u], running[u],
                           wire[u], room[Len(room)], Len(room))
              => Handshake(engine[v], running[v], incoming[v], wire[v] \o m, engine[u],
                           r, wire'[u], room'[Len(room)], Len(room))
    BY <1>6, <1>13, <1>14, <1>15, <1>16, <1>17 DEF c
  <1>19. /\ FramesNumbered(wire'[u], Len(room), over) /\ wire'[v] = wire[v] \o m
         /\ LittleLost' /\ u \notin overtaken' =>
              InStepWithCall(engine[u], r, wire'[u], active'[u], incoming'[u], over)
    BY <1>2, <1>6, <1>11, <1>16, <1>17
  <1>20. /\ v = Peer(u) /\ running' = [running EXCEPT ![u] = r]
         /\ overtaken \subseteq overtaken' /\ overtaken' \subseteq overtaken \union {u}
    BY <1>2, <1>3
  <1> QED
    BY <1>1, <1>5, <1>9, <1>10, <1>17, <1>18, <1>19, <1>20, BrowserStep

\* A call is placed: it is the last from here on.
LEMMA StartSettles ==
  ASSUME CallInv, CallInv', ShownTypeOK, SettleInv, NEW u \in Users, Start(u)
  PROVE  SettleInv'
  <1>0. PICK n : n = Len(room)
    OBVIOUS
  <1> DEFINE v == Peer(u)
             c == n + 1
             e == [engine[u] EXCEPT !.accepted = TRUE]
             m == << Frame("call.incoming", c) >>
             x == [at |-> "creating", call |-> c]
             r == [running[u] EXCEPT !["start"] = x]
             t == wire[v] \o m
  <1>1. CallTypeOK /\ CallTypeOK'
    BY DEF CallInv
  <1>2. /\ v \in Users /\ v # u /\ v = Peer(u) /\ Peer(v) = u /\ engine[u] \in Engines
        /\ \A w \in Users : w = u \/ w = v
        /\ running[u] \in [Functions -> {Done} \union UnderWay]
        /\ wire[u] \in Seq(Frames) /\ wire[v] \in Seq(Frames) /\ n \in Nat
        /\ over \subseteq 1 .. n
        /\ FramesNumbered(wire[u], n, over) /\ StateNumbered(engine[u], running[u], n, over)
        /\ LittleLost /\ u \notin overtaken =>
             InStepWithCall(engine[u], running[u], wire[u], active[u], incoming[u], over)
    BY <1>0, <1>1, Sides, TwoUsers
  <1>3. /\ FramesNumbered(wire[v], n, over) /\ StateNumbered(engine[v], running[v], n, over)
        /\ LittleLost /\ v \notin overtaken =>
             InStepWithCall(engine[v], running[v], wire[v], active[v], incoming[v], over)
    BY <1>0, <1>2 DEF SettleInv
  <1>4. /\ engine[u].call = None /\ \A f \in Functions : running[u][f] = Done
        /\ engine' = [engine EXCEPT ![u] = e] /\ running' = [running EXCEPT ![u] = r]
        /\ room' = Append(room, "ringing") /\ Tell(v, m)
        /\ UNCHANGED <<incoming, active, lost, overtaken, over>>
    BY <1>0, <1>1 DEF Start, Become, CallTypeOK
  <1>5. m \in Seq(Frames) /\ Has(m, Frame("call.incoming", c)) /\ c \in 1 .. c /\ c \in Nat
    <2>1. c \in 1 .. c /\ c \in Nat
      BY <1>2
    <2> HIDE DEF c
    <2> QED
      BY <2>1, OneFrame
  <1>6. wire'[u] = wire[u] /\ wire'[v] = t
    <2> HIDE DEF v, m, t
    <2> QED
      BY <1>1, <1>2, <1>4, Wires DEF t
  <1>7. /\ \A f \in Functions : r[f] = IF f = "start" THEN x ELSE Done
        /\ x.call = c /\ x.at = "creating" /\ x.at # Done.at
    BY <1>2, <1>4, DoneIsOver
  <1>8. e.call = None /\ e.accepted /\ e.media = engine[u].media
    BY <1>2, <1>4 DEF Engines
  <1>9. Len(room') = c /\ room'[c] = "ringing"
    BY <1>0, <1>1, <1>4 DEF CallTypeOK
  <1>10. /\ engine'[u] = e /\ running'[u] = r /\ engine'[v] = engine[v] /\ running'[v] = running[v]
    BY <1>1, <1>2, <1>4 DEF CallTypeOK
  <1>11. Len(m) = 1 /\ m[1].call = c /\ m[1].name = "call.incoming"
    BY DEF Frame
  <1>12. c \notin over /\ None # c /\ None \notin over
    <2>1. None \notin Nat
      BY UsersAssumption
    <2>2. over \subseteq 1 .. n /\ n \in Nat
      BY <1>2
    <2>3. \A d \in over : d \in 1 .. n
      BY <2>2
    <2>4. \A d \in 1 .. n : d # c /\ d \in Nat
      BY <2>2
    <2>5. c \in Nat
      BY <2>2
    <2> HIDE DEF v, c, e, m, x, r, t
    <2> QED
      BY <2>1, <2>3, <2>4, <2>5
  <1> HIDE DEF v, e, m, x, r, t
  <1>13. \A s : FramesNumbered(s, n, over) => FramesNumbered(s, c, over)
    BY <1>2 DEF FramesNumbered
  <1>14. FramesNumbered(t, c, over)
    <2>1. \A i \in 1 .. Len(m) :
            /\ m[i].call \in 1 .. c /\ m[i].name # "call.ended"
            /\ m[i].name = "call.incoming" => m[i].call \notin over
      BY <1>5, <1>11, <1>12
    <2> QED
      BY <1>2, <1>3, <1>5, <1>13, <2>1, AfterMore DEF t
  <1>15. StateNumbered(engine[v], running[v], c, over)
    BY <1>2, <1>3 DEF StateNumbered
  <1>16. StateNumbered(e, r, c, over)
    BY <1>5, <1>7, <1>8, <1>12 DEF StateNumbered, Functions
  <1>17. \A w \in Users : /\ FramesNumbered(wire'[w], c, over)
                          /\ StateNumbered(engine'[w], running'[w], c, over)
    BY <1>2, <1>6, <1>10, <1>13, <1>14, <1>15, <1>16
  <1>18. ASSUME LittleLost', NEW w \in Users \ overtaken'
         PROVE  InStepWithCall(engine'[w], running'[w], wire'[w], active'[w], incoming'[w], over')
    <2>1. LittleLost
      BY <1>4, <1>18 DEF LittleLost
    <2>2. CASE w = u
      <3>1. InStepWithCall(engine[u], running[u], wire[u], active[u], incoming[u], over)
        BY <1>2, <1>4, <1>18, <2>1, <2>2
      <3>2. InStepWithCall(e, r, wire[u], active[u], incoming[u], over)
        BY <1>4, <1>7, <1>8, <1>12, <3>1 DEF InStepWithCall, PlacedBy, Functions
      <3> QED
        BY <1>4, <1>6, <1>10, <2>2, <3>2
    <2>3. CASE w = v
      <3>1. InStepWithCall(engine[v], running[v], wire[v], active[v], incoming[v], over)
        BY <1>3, <1>4, <1>18, <2>1, <2>3
      <3>2. /\ \A y : Has(wire[v], y) => Has(t, y)
            /\ \A name : HasNamed(wire[v], name) => HasNamed(t, name)
        BY <1>2, <1>5, AfterMore DEF t
      <3>3. InStepWithCall(engine[v], running[v], t, active[v], incoming[v], over)
        BY <3>1, <3>2 DEF InStepWithCall
      <3> QED
        BY <1>4, <1>6, <1>10, <2>3, <3>3
    <2> QED
      BY <1>2, <2>2, <2>3
  <1>19. ASSUME LittleLost' PROVE LastCall'
    <2> SUFFICES ASSUME overtaken' = {} PROVE \E w \in Users : Shaking(w, Peer(w), c)'
      BY <1>9 DEF LastCall
    <2>1. LittleLost /\ overtaken = {}
      BY <1>4, <1>19 DEF LittleLost
    <2>2. InStepWithCall(engine[u], running[u], wire[u], active[u], incoming[u], over)
      BY <1>2, <2>1
    <2>3. PlacedBy(e, r, c)
      BY <1>7 DEF PlacedBy, Functions
    <2>4. CASE incoming[u] # None
      <3>1. HasNamed(wire[u], "call.ended")
        BY <1>4, <2>2, <2>4 DEF InStepWithCall
      <3>2. Shaking(u, Peer(u), c)'
        BY <1>6, <1>10, <2>3, <3>1 DEF Shaking
      <3> QED
        BY <3>2
    <2>5. CASE incoming[u] = None
      <3>1. engine[v].call # c /\ (running[v]["start"].at = "creating" => running[v]["start"].call # c)
        <4>1. "start" \in Functions /\ c \notin (1 .. n) \union {None}
          BY <1>2, <1>12 DEF Functions
        <4> QED
          BY <1>3, <4>1, DoneIsOver DEF StateNumbered
      <3>2. Has(t, Frame("call.incoming", c))
        BY <1>2, <1>5, AfterMore DEF t
      <3>3. r["start"] # Done
        BY <1>7 DEF Functions
      <3>4. Handshake(e, r, None, wire[u], engine[v], running[v], t, "ringing", c)
        BY <1>8, <3>1, <3>2, <3>3 DEF Handshake
      <3>5. Shaking(u, Peer(u), c)'
        BY <1>2, <1>4, <1>6, <1>9, <1>10, <2>3, <2>5, <3>4 DEF Shaking
      <3> QED
        BY <3>5
    <2> QED
      BY <2>4, <2>5
  <1>20. over' \subseteq 1 .. Len(room') /\ over' = over /\ Len(room') = c
    BY <1>2, <1>4, <1>9
  <1> HIDE DEF c
  <1> QED
    BY <1>17, <1>18, <1>19, <1>20 DEF SettleInv

\* A call is left: both are told.
LEMMA LeaveSettles ==
  ASSUME CallInv, CallInv', ShownTypeOK, SettleInv, NEW u \in Users, Leave(u)
  PROVE  SettleInv'
  <1>0. PICK n, c : n = Len(room) /\ c = engine[u].call
    OBVIOUS
  <1>1. CallTypeOK /\ CallTypeOK'
    BY DEF CallInv
  <1>2. /\ running[u] \in [Functions -> {Done} \union UnderWay] /\ n \in Nat
        /\ \A w \in Users : wire[w] \in Seq(Frames) /\ Peer(w) \in Users
        /\ c \in (1 .. n) \union {None}
    <2>1. StateNumbered(engine[u], running[u], n, over)
      BY <1>0 DEF SettleInv
    <2> QED
      BY <1>0, <1>1, <2>1, TwoUsers DEF CallTypeOK, StateNumbered
  <1>3. PICK how \in {"ended", "rejected"} :
          /\ Become(u, "leave", how, c)
          /\ IF c = None THEN UNCHANGED <<room, wire, over>>
             ELSE /\ room' = [room EXCEPT ![c] = how]
                  /\ TellBoth(Frame("call.ended", c))
                  /\ over' = over \union {c}
    BY <1>0 DEF Leave
  <1>4. UNCHANGED <<engine, incoming, active, lost, overtaken>>
    BY DEF Leave
  <1> DEFINE x == [at |-> how, call |-> c]
             r == [running[u] EXCEPT !["leave"] = x]
  <1>5. \A w \in Users : running'[w] = IF w = u THEN r ELSE running[w]
    BY <1>1, <1>3 DEF Become, CallTypeOK
  <1>6. /\ \A f \in Functions : r[f] = IF f = "leave" THEN x ELSE running[u][f]
        /\ x.call = c
    BY <1>2
  <1>7. Len(room') = n
    BY <1>0, <1>1, <1>3 DEF CallTypeOK
  <1> HIDE DEF x, r
  <1>8. \A w \in Users : \A f \in Functions \ {"leave"} : running'[w][f] = running[w][f]
    BY <1>5, <1>6
  <1>9. over \subseteq over' /\ (c # None => c \in over' /\ over' = over \union {c})
        /\ (c = None => over' = over)
    BY <1>3
  <1>10. \A w \in Users : StateNumbered(engine'[w], running'[w], n, over')
    <2> SUFFICES ASSUME NEW w \in Users PROVE StateNumbered(engine[w], running'[w], n, over')
      BY <1>4
    <2>1. StateNumbered(engine[w], running[w], n, over)
      BY <1>0 DEF SettleInv
    <2>2. running'[w]["leave"] # Done => running'[w]["leave"].call \in over' \union {None}
      <3>1. CASE w = u
        BY <1>5, <1>6, <1>9, <3>1 DEF Functions
      <3>2. CASE w # u
        BY <1>5, <1>9, <2>1, <3>2 DEF StateNumbered
      <3> QED
        BY <3>1, <3>2
    <2>3. \A f \in Functions : running'[w][f] # Done => running'[w][f].call \in (1 .. n) \union {None}
      BY <1>2, <1>5, <1>6, <2>1 DEF StateNumbered
    <2> QED
      BY <1>8, <2>1, <2>2, <2>3 DEF StateNumbered, Functions
  <1>11. \A w \in Users :
           /\ FramesNumbered(wire'[w], n, over')
           /\ \A y : Has(wire[w], y) => Has(wire'[w], y)
           /\ \A name : HasNamed(wire[w], name) => HasNamed(wire'[w], name)
           /\ c # None => /\ Has(wire'[w], Frame("call.ended", c))
                          /\ HasNamed(wire'[w], "call.ended")
           /\ c = None => wire'[w] = wire[w]
    <2> SUFFICES ASSUME NEW w \in Users
                 PROVE  /\ FramesNumbered(wire'[w], n, over')
                        /\ \A y : Has(wire[w], y) => Has(wire'[w], y)
                        /\ \A name : HasNamed(wire[w], name) => HasNamed(wire'[w], name)
                        /\ c # None => /\ Has(wire'[w], Frame("call.ended", c))
                                       /\ HasNamed(wire'[w], "call.ended")
                        /\ c = None => wire'[w] = wire[w]
      OBVIOUS
    <2>1. FramesNumbered(wire[w], n, over)
      BY <1>0 DEF SettleInv
    <2>2. CASE c = None
      BY <1>3, <2>1, <2>2
    <2>3. CASE c # None
      <3>1. wire'[w] = Append(wire[w], Frame("call.ended", c)) /\ over' = over \union {c}
        BY <1>3, <2>3 DEF TellBoth
      <3>2. c \in 1 .. n
        BY <1>2, <2>3
      <3>3. n \in Nat /\ wire[w] \in Seq(Frames)
        BY <1>2
      <3> DEFINE s == Append(wire[w], Frame("call.ended", c))
                 o == over \union {c}
      <3>4. /\ FramesNumbered(s, n, o) /\ Has(s, Frame("call.ended", c))
            /\ \A y : Has(wire[w], y) => Has(s, y)
            /\ \A name : HasNamed(wire[w], name) => HasNamed(s, name)
            /\ HasNamed(s, "call.ended")
        BY <2>1, <3>2, <3>3, AfterEnd
      <3>5. wire'[w] = s /\ over' = o
        BY <3>1
      <3> HIDE DEF s, o
      <3> QED
        BY <2>3, <3>4, <3>5
    <2> QED
      BY <2>2, <2>3
  <1>12. LittleLost' => LittleLost
    BY <1>4 DEF LittleLost
  <1>13. ASSUME LittleLost', NEW w \in Users \ overtaken'
         PROVE  InStepWithCall(engine'[w], running'[w], wire'[w], active'[w], incoming'[w], over')
    <2>1. InStepWithCall(engine[w], running[w], wire[w], active[w], incoming[w], over)
      BY <1>4, <1>12, <1>13 DEF SettleInv
    <2>2. \A d \in over' : d \in over \/ Has(wire'[w], Frame("call.ended", d))
      BY <1>9, <1>11, <1>13
    <2> QED
      BY <1>4, <1>8, <1>11, <1>13, <2>1, <2>2 DEF InStepWithCall, PlacedBy, Functions
  <1>14. ASSUME LittleLost' PROVE LastCall'
    <2> SUFFICES ASSUME n > 0, n \notin over', overtaken' = {}
                 PROVE  \E w \in Users : Shaking(w, Peer(w), n)'
      BY <1>7 DEF LastCall
    <2>1. PICK w \in Users : Shaking(w, Peer(w), n)
      BY <1>0, <1>4, <1>9, <1>12, <1>14 DEF SettleInv, LastCall
    <2>2. PlacedBy(engine'[w], running'[w], n)
      BY <1>4, <1>8, <2>1 DEF Shaking, PlacedBy, Functions
    <2>3. \/ HasNamed(wire'[w], "call.ended")
          \/ Handshake(engine'[w], running'[w], incoming'[w], wire'[w], engine'[Peer(w)],
                       running'[Peer(w)], wire'[Peer(w)], room'[n], n)
      <3>1. CASE c # None
        BY <1>11, <3>1
      <3>2. CASE c = None
        <4>1. /\ wire'[w] = wire[w] /\ wire'[Peer(w)] = wire[Peer(w)] /\ room' = room
              /\ running'[w]["start"] = running[w]["start"]
              /\ running'[Peer(w)]["start"] = running[Peer(w)]["start"]
              /\ running'[Peer(w)]["accept"] = running[Peer(w)]["accept"]
          BY <1>2, <1>3, <1>8, <1>11, <3>2 DEF Functions
        <4> QED
          BY <1>4, <2>1, <4>1 DEF Shaking, Handshake
      <3> QED
        BY <3>1, <3>2
    <2>4. Shaking(w, Peer(w), n)'
      BY <2>2, <2>3 DEF Shaking
    <2> QED
      BY <2>4
  <1>15. over' \subseteq 1 .. n
    BY <1>0, <1>2, <1>3 DEF SettleInv
  <1> QED
    BY <1>7, <1>10, <1>11, <1>13, <1>14, <1>15 DEF SettleInv

LEMMA SettleInitInv == Init => SettleInv /\ ShownTypeOK
  <1> SUFFICES ASSUME Init PROVE SettleInv /\ ShownTypeOK
    OBVIOUS
  <1>1. ShownTypeOK
    BY DEF Init, ShownTypeOK
  <1>2. /\ room = << >> /\ Len(room) = 0 /\ over = {}
        /\ \A u \in Users : /\ engine[u].call = None /\ ~ engine[u].media
                            /\ \A f \in Functions : running[u][f] = Done
                            /\ wire[u] = << >> /\ Len(wire[u]) = 0
                            /\ ~ active[u] /\ incoming[u] = None
    BY DEF Init, Blank
  <1>3. \A u \in Users : /\ FramesNumbered(wire[u], Len(room), over)
                         /\ StateNumbered(engine[u], running[u], Len(room), over)
    <2> SUFFICES ASSUME NEW u \in Users
                 PROVE  /\ FramesNumbered(wire[u], Len(room), over)
                        /\ StateNumbered(engine[u], running[u], Len(room), over)
      OBVIOUS
    <2>1. FramesNumbered(wire[u], Len(room), over)
      BY <1>2 DEF FramesNumbered
    <2>2. engine[u].call = None /\ \A f \in Functions : running[u][f] = Done
      BY <1>2
    <2>3. StateNumbered(engine[u], running[u], Len(room), over)
      BY <2>2 DEF StateNumbered, Functions
    <2> QED
      BY <2>1, <2>3
  <1>4. \A u \in Users :
          InStepWithCall(engine[u], running[u], wire[u], active[u], incoming[u], over)
    BY <1>2, DoneIsOver DEF InStepWithCall, Functions
  <1>5. LastCall
    BY <1>2 DEF LastCall
  <1> QED
    BY <1>1, <1>2, <1>3, <1>4, <1>5 DEF SettleInv

LEMMA SettleNextInv ==
  ASSUME CallInv, ShownTypeOK, SettleInv, [Next]_vars
  PROVE  SettleInv' /\ ShownTypeOK'
  <1>1. CallInv' /\ ShownTypeOK'
    BY CallNextInv, ShownInv DEF CallInv
  <1>2. CASE UNCHANGED vars
    <2>1. /\ room' = room /\ engine' = engine /\ incoming' = incoming /\ active' = active
          /\ running' = running /\ wire' = wire /\ lost' = lost /\ over' = over
          /\ overtaken' = overtaken
      BY <1>2 DEF vars
    <2>2. LittleLost' = LittleLost
      BY <2>1 DEF LittleLost
    <2>3. LastCall' = LastCall
      BY <2>1 DEF LastCall, Shaking
    <2> QED
      BY <1>1, <2>1, <2>2, <2>3 DEF SettleInv
  <1>3. CASE Next
    <2> SUFFICES ASSUME NEW u \in Users,
                        Start(u) \/ Accept(u) \/ Leave(u) \/ Progress(u) \/ Handle(u) \/ Lose(u)
                 PROVE  SettleInv'
      BY <1>1, <1>3 DEF Next
    <2>1. CASE Start(u) \/ Accept(u) \/ Leave(u) \/ Lose(u)
      BY <1>1, <2>1, StartSettles, AcceptSettles, LeaveSettles, LoseSettles
    <2>2. CASE Progress(u)
      BY <1>1, <2>2, CreatedSettles, MediaSettles, EndedSettles DEF Progress
    <2>3. CASE Handle(u)
      BY <1>1, <2>3, IncomingSettles, SignalSettles, EndedSettles DEF Handle
    <2> QED
      BY <2>1, <2>2, <2>3
  <1> QED
    BY <1>1, <1>2, <1>3

LEMMA SettledIsSettled ==
  ASSUME CallTypeOK, ShownTypeOK, SettleInv
  PROVE  CallsSettle
  <1>1. /\ \A i \in 1 .. Len(lost) : i \in DOMAIN lost
        /\ lost = << >> => LittleLost
    BY DEF ShownTypeOK, LittleLost
  <1>2. ASSUME Quiet, NEW u \in Users
        PROVE  /\ \A x : ~ Has(wire[u], x)
               /\ \A name : ~ HasNamed(wire[u], name)
               /\ \A x, name : ~ Followed(wire[u], x, name)
               /\ \A f \in Functions : running[u][f] = Done
    BY <1>2 DEF Quiet, Has, HasNamed, Followed
  <1>3. NobodyLeftBehind
    <2> SUFFICES ASSUME Quiet, lost = << >>, NEW u \in Users \ overtaken
                 PROVE  LET c == engine[u].call
                        IN IF c = None THEN ~engine[u].media /\ ~active[u] ELSE c \notin over
      BY DEF NobodyLeftBehind
    <2>1. InStepWithCall(engine[u], running[u], wire[u], active[u], incoming[u], over)
      BY <1>1 DEF SettleInv
    <2> QED
      BY <1>2, <2>1 DEF InStepWithCall, PlacedBy
  <1>4. PickedUpConnects
    <2> SUFFICES ASSUME Quiet, NEW c \in Calls, Undisturbed(c)
                 PROVE  Connected(c)
      BY DEF PickedUpConnects
    <2>1. Len(room) = c /\ room[c] = "active" /\ c \notin over /\ overtaken = {} /\ LittleLost /\ c > 0
      BY <1>1 DEF Undisturbed, LittleLost, Calls
    <2>2. PICK u \in Users : Shaking(u, Peer(u), c)
      BY <2>1 DEF SettleInv, LastCall
    <2>3. /\ Peer(u) \in Users /\ \A w \in Users : w = u \/ w = Peer(u)
      BY TwoUsers
    <2> DEFINE v == Peer(u)
    <2>4. /\ PlacedBy(engine[u], running[u], c)
          /\ Handshake(engine[u], running[u], incoming[u], wire[u], engine[v], running[v], wire[v],
                       room[c], c)
      BY <1>2, <2>2 DEF Shaking
    <2> HIDE DEF v
    <2>5. /\ running[u]["start"] = Done /\ running[v]["accept"] = Done
          /\ engine[u].call = c
      BY <1>2, <2>3, <2>4, DoneIsOver DEF PlacedBy, Functions, v
    <2>6. v \in Users /\ \A w \in Users : w = u \/ w = v
      BY <2>3 DEF v
    <2>7. /\ engine[u].media /\ engine[v].call = c /\ engine[v].accepted /\ engine[v].media
          /\ ~ engine[v].pendingOffer
      BY <1>2, <2>1, <2>4, <2>5, <2>6 DEF Handshake
    <2>8. ~ OfferComes(engine[v], wire[v], c)
      BY <1>2, <2>6, <2>7 DEF OfferComes
    <2>9. engine[u].linked /\ engine[v].linked
      BY <1>2, <2>4, <2>5, <2>6, <2>8 DEF Handshake
    <2> QED
      BY <2>5, <2>6, <2>7, <2>9 DEF Connected
  <1> QED
    BY <1>3, <1>4 DEF CallsSettle

\* Once everything has settled nobody is in a call that is over, nobody's microphone is
\* open outside a call, and the call picked up is connected both ways.
THEOREM CallsHold == Spec => []CallsSettle
  <1>1. Init => CallInv /\ ShownTypeOK /\ SettleInv
    BY CallInitInv, SettleInitInv
  <1>2. CallInv /\ ShownTypeOK /\ SettleInv /\ [Next]_vars => (CallInv /\ ShownTypeOK /\ SettleInv)'
    BY CallNextInv, SettleNextInv
  <1>3. CallInv /\ ShownTypeOK /\ SettleInv => CallsSettle
    BY SettledIsSettled DEF CallInv
  <1> QED
    BY <1>1, <1>2, <1>3, PTL DEF Spec

-------------------------------------------------------------------------------
(* Recording: what the operators do to a take.                              *)

\* What Unmount makes of a take: no recorder on the screen any more.
IsUnmount(w, t) ==
  /\ w.here = t.here
  /\ w.at = IF t.at = "loading" THEN "over"
            ELSE IF t.at = "recording" /\ t.shown THEN "stopping" ELSE t.at
  /\ w.shown = IF t.at = "loading" THEN t.shown ELSE FALSE
  /\ w.discard = IF t.at = "recording" /\ t.shown THEN TRUE ELSE t.discard

LEMMA UnmountFields ==
  ASSUME NEW t \in TakeType
  PROVE  Unmount(t) \in TakeType /\ IsUnmount(Unmount(t), t)
  <1>1. CASE t.at = "loading"
    BY <1>1 DEF Unmount, TakeType, IsUnmount
  <1>2. CASE t.at = "recording" /\ t.shown
    <2> DEFINE w == [t EXCEPT !.at = "stopping", !.shown = FALSE, !.discard = TRUE]
    <2>1. Unmount(t) = w
      BY <1>2 DEF Unmount
    <2>2. /\ w \in TakeType /\ w.here = t.here
          /\ w.at = "stopping" /\ w.shown = FALSE /\ w.discard = TRUE
      BY DEF TakeType
    <2> HIDE DEF w
    <2> QED
      BY <1>2, <2>1, <2>2 DEF IsUnmount
  <1>3. CASE t.at # "loading" /\ ~(t.at = "recording" /\ t.shown)
    <2> DEFINE w == [t EXCEPT !.shown = FALSE]
    <2>1. Unmount(t) = w
      BY <1>3 DEF Unmount
    <2>2. /\ w \in TakeType /\ w.here = t.here
          /\ w.at = t.at /\ w.shown = FALSE /\ w.discard = t.discard
      BY DEF TakeType
    <2> HIDE DEF w
    <2> QED
      BY <1>3, <2>1, <2>2 DEF IsUnmount
  <1> QED
    BY <1>1, <1>2, <1>3

LEMMA AllUnmountedFields ==
  ASSUME NEW ts \in [Takes -> TakeType]
  PROVE  /\ AllUnmounted(ts) \in [Takes -> TakeType]
         /\ \A m \in Takes : IsUnmount(AllUnmounted(ts)[m], ts[m])
  BY UnmountFields DEF AllUnmounted

LEMMA StoppedFields ==
  ASSUME RecorderTypeOK, NEW n \in Takes, NEW discard \in BOOLEAN
  PROVE  LET s == Stopped(n, discard) IN
         /\ s \in [Takes -> TakeType]
         /\ \A m \in Takes \ {n} : s[m] = take[m]
         /\ s[n].here = take[n].here /\ s[n].shown = take[n].shown
         /\ s[n].at = IF take[n].at = "recording" THEN "stopping" ELSE take[n].at
         /\ s[n].discard = discard
  <1> DEFINE t == take[n]
             at1 == IF t.at = "recording" THEN "stopping" ELSE t.at
             w == [t EXCEPT !.at = at1, !.discard = discard]
  <1>1. t \in TakeType
    BY DEF RecorderTypeOK
  <1>2. at1 \in {"none", "loading", "asking", "recording", "stopping", "over"}
    BY <1>1 DEF TakeType
  <1>3. Stopped(n, discard) = [take EXCEPT ![n] = w]
    BY DEF Stopped, RecorderTypeOK
  <1> HIDE DEF at1
  <1>4. /\ w \in TakeType /\ w.here = t.here /\ w.shown = t.shown /\ w.at = at1
        /\ w.discard = discard
    BY <1>1, <1>2 DEF TakeType
  <1> HIDE DEF w
  <1>5. /\ [take EXCEPT ![n] = w] \in [Takes -> TakeType]
        /\ \A m \in Takes \ {n} : [take EXCEPT ![n] = w][m] = take[m]
        /\ [take EXCEPT ![n] = w][n] = w
    BY <1>4 DEF RecorderTypeOK
  <1> QED
    BY <1>3, <1>4, <1>5 DEF at1

LEMMA MovedTake ==
  ASSUME RecorderTypeOK, NEW n \in Takes, NEW where \in {"recording", "over"}
  PROVE  LET s == [take EXCEPT ![n].at = where] IN
         /\ s \in [Takes -> TakeType]
         /\ \A m \in Takes \ {n} : s[m] = take[m]
         /\ s[n].here = take[n].here /\ s[n].shown = take[n].shown
         /\ s[n].at = where /\ s[n].discard = take[n].discard
  <1> DEFINE t == take[n]
             w == [t EXCEPT !.at = where]
  <1>1. t \in TakeType
    BY DEF RecorderTypeOK
  <1>2. /\ w \in TakeType /\ w.here = t.here /\ w.shown = t.shown /\ w.at = where
        /\ w.discard = t.discard
    BY <1>1 DEF TakeType
  <1>3. [take EXCEPT ![n].at = where] = [take EXCEPT ![n] = w]
    BY DEF RecorderTypeOK
  <1> HIDE DEF w
  <1>4. /\ [take EXCEPT ![n] = w] \in [Takes -> TakeType]
        /\ \A m \in Takes \ {n} : [take EXCEPT ![n] = w][m] = take[m]
        /\ [take EXCEPT ![n] = w][n] = w
    BY <1>2 DEF RecorderTypeOK
  <1> QED
    BY <1>2, <1>3, <1>4

LEMMA NoTakeType ==
  /\ NoTake \in TakeType /\ NoTake.at = "none" /\ NoTake.here /\ ~NoTake.shown /\ ~NoTake.discard
  BY DEF NoTake, TakeType
LEMMA UpIsUp == Up.at = "up" /\ Up.take = 0
  BY DEF Up

LEMMA RecorderInitInv == RecorderInit => RecorderInv
  <1> SUFFICES ASSUME RecorderInit PROVE RecorderInv
    OBVIOUS
  <1>1. \A n \in Takes : take[n] = NoTake
    BY DEF RecorderInit
  <1>2. RecorderTypeOK
    <2>1. press \in [at: {"up", "down", "held", "long"}, take: Nat]
      BY DEF RecorderInit, Up
    <2>2. take \in [Takes -> TakeType]
      BY NoTakeType DEF RecorderInit
    <2>3. takes \in 0 .. MaxTakes /\ review \in 0 .. MaxTakes
      BY TakesAssumption DEF RecorderInit
    <2> QED
      BY <2>1, <2>2, <2>3 DEF RecorderInit, RecorderTypeOK
  <1>3. PressSound
    BY UpIsUp DEF RecorderInit, PressSound
  <1>4. NewTakes
    BY <1>1, NoTakeType DEF RecorderInit, NewTakes, Takes
  <1>5. OneLive
    BY <1>1, NoTakeType DEF OneLive, Live
  <1>6. ActiveHeld
    BY <1>1, NoTakeType, UpIsUp DEF RecorderInit, ActiveHeld, Active
  <1>7. RefusedUnsent
    BY DEF RecorderInit, RefusedUnsent
  <1> QED
    BY <1>2, <1>3, <1>4, <1>5, <1>6, <1>7 DEF RecorderInv

\* Where the recorders left the screen, and nothing that was not let go may record.
LEMMA Cleared ==
  ASSUME RecorderInv, RecorderTypeOK', press' = Up \/ UNCHANGED press, Reset, UNCHANGED takes,
         \A m \in Takes :
           /\ ~take'[m].shown /\ take'[m].at # "loading"
           /\ press' # Up => take'[m].here = take[m].here
           /\ m > takes => take'[m].at = "none" /\ m \notin refused' \union early'
           /\ take'[m].at # "over" => m \notin sentTakes' /\ review' # m
           /\ review' = m => m \notin sentTakes'
           /\ m \notin early' => take'[m].at \notin {"asking", "recording"}
           /\ m \in refused' \ early' =>
                /\ take'[m].at = "over" \/ (take'[m].at = "stopping" /\ take'[m].discard)
                /\ m \notin sentTakes' /\ review' # m
  PROVE  RecorderInv'
  <1>1. ~recordingMode' /\ ~recordingRef' /\ ~lockedRef'
    BY DEF Reset
  <1>2. PressSound'
    <2>1. CASE press' = Up
      BY <1>1, <2>1, UpIsUp DEF PressSound
    <2>2. CASE press' = press /\ press' # Up
      <3>1. 1 .. takes \subseteq Takes
        BY TakesAssumption DEF RecorderInv, RecorderTypeOK, Takes
      <3> QED
        BY <1>1, <2>2, <3>1 DEF RecorderInv, PressSound
    <2> QED
      BY <2>1, <2>2
  <1>3. NewTakes'
    BY DEF NewTakes
  <1>4. OneLive'
    BY DEF OneLive, Live
  <1>5. ActiveHeld'
    <2>1. \A m \in Takes \ early' : ~Active(m)'
      BY DEF Active
    <2> QED
      BY <1>1, <2>1 DEF ActiveHeld
  <1>6. RefusedUnsent'
    <2>1. refused' \subseteq Takes
      BY DEF RecorderTypeOK
    <2> QED
      BY <2>1 DEF RefusedUnsent
  <1> QED
    BY <1>2, <1>3, <1>4, <1>5, <1>6 DEF RecorderInv

\* The press and the review alone.
LEMMA PressStepInv ==
  ASSUME RecorderInv, PointerDown \/ LongHold \/ SlideUp \/ ReleaseTap
  PROVE  RecorderInv'
  <1> USE DEF composer, outcome
  <1>1. /\ UNCHANGED <<recordingMode, recordingRef, take, takes, review, sentTakes, refused, early>>
        /\ 1 .. takes \subseteq Takes
    BY TakesAssumption
    DEF PointerDown, LongHold, SlideUp, ReleaseTap, RecorderInv, RecorderTypeOK, Takes
  <1>2. NewTakes' /\ OneLive'
    BY <1>1 DEF RecorderInv, NewTakes, OneLive, Live
  <1>3. CASE PointerDown
    <2>1. press' = [at |-> "down", take |-> 0] /\ press = Up /\ ~recordingMode /\ ~lockedRef
          /\ UNCHANGED <<lockedRef, videoMode>>
      BY <1>3 DEF PointerDown
    <2>2. press'.at = "down" /\ press'.take = 0
          /\ press' \in [at: {"up", "down", "held", "long"}, take: Nat]
      BY <2>1
    <2>3. RecorderTypeOK' /\ PressSound'
      BY <1>1, <2>1, <2>2 DEF RecorderInv, RecorderTypeOK, PressSound
    <2>4. \A n \in Takes : ~Held(n)
      BY <2>1 DEF Held
    <2>5. \A n \in Takes : ~Held(n)'
      BY <2>2 DEF Held, Takes
    <2>6. ActiveHeld'
      BY <1>1, <2>1, <2>2, <2>4 DEF RecorderInv, ActiveHeld, Active, Live
    <2>7. RefusedUnsent'
      <3>1. refused \subseteq Takes
        BY DEF RecorderInv, RecorderTypeOK
      <3> QED
        BY <1>1, <2>5, <3>1 DEF RecorderInv, RefusedUnsent
    <2> QED
      BY <1>2, <2>3, <2>6, <2>7 DEF RecorderInv
  <1>4. CASE LongHold
    <2>1. /\ press' = [press EXCEPT !.at = "long"] /\ press.at = "held"
          /\ UNCHANGED <<lockedRef, videoMode>>
      BY <1>4 DEF LongHold
    <2>2. /\ press'.at = "long" /\ press'.take = press.take
          /\ press' \in [at: {"up", "down", "held", "long"}, take: Nat] /\ press # Up /\ press' # Up
      BY <2>1, UpIsUp DEF RecorderInv, RecorderTypeOK
    <2>3. RecorderTypeOK' /\ PressSound'
      BY <1>1, <2>1, <2>2 DEF RecorderInv, RecorderTypeOK, PressSound
    <2>4. \A n \in Takes : Held(n)' = Held(n)
      BY <2>2 DEF Held
    <2>5. ActiveHeld'
      BY <1>1, <2>1, <2>2, <2>4 DEF RecorderInv, ActiveHeld, Active, Live
    <2>6. RefusedUnsent'
      <3>1. refused \subseteq Takes
        BY DEF RecorderInv, RecorderTypeOK
      <3> QED
        BY <1>1, <2>4, <3>1 DEF RecorderInv, RefusedUnsent
    <2> QED
      BY <1>2, <2>3, <2>5, <2>6 DEF RecorderInv
  <1>5. CASE SlideUp \/ ReleaseTap
    <2>1. press' = Up /\ videoMode' \in BOOLEAN /\ lockedRef' \in BOOLEAN
      BY <1>5 DEF SlideUp, ReleaseTap, RecorderInv, RecorderTypeOK
    <2>2. Up \in [at: {"up", "down", "held", "long"}, take: Nat]
      BY DEF Up
    <2>3. RecorderTypeOK' /\ PressSound'
      BY <1>1, <2>1, <2>2, UpIsUp DEF RecorderInv, RecorderTypeOK, PressSound
    <2>4. RefusedUnsent'
      BY <1>1, <2>1 DEF RecorderInv, RefusedUnsent, Held
    <2>5. lockedRef' \/ (UNCHANGED lockedRef /\ ~recordingRef)
      BY <1>5 DEF SlideUp, ReleaseTap
    <2>6. ActiveHeld'
      BY <1>1, <2>1, <2>5, UpIsUp DEF RecorderInv, ActiveHeld, Active, Live
    <2> QED
      BY <1>2, <2>3, <2>4, <2>6 DEF RecorderInv
  <1> QED
    BY <1>3, <1>4, <1>5

LEMMA ReviewStepInv ==
  ASSUME RecorderInv, SendReview \/ DiscardReview
  PROVE  RecorderInv'
  <1> USE DEF composer
  <1>1. /\ UNCHANGED <<press, videoMode, recordingMode, recordingRef, lockedRef, take, takes, early>>
        /\ review # 0 /\ review' = 0 /\ review \in Takes
    BY DEF SendReview, DiscardReview, RecorderInv, RecorderTypeOK, Takes
  <1>2. take[review].at = "over" /\ review \notin sentTakes /\ ~take[review].shown
    BY <1>1 DEF RecorderInv, NewTakes
  <1>3. \/ sentTakes' = sentTakes \union {review} /\ UNCHANGED refused
        \/ refused' = refused \union {review} /\ UNCHANGED sentTakes
    BY DEF SendReview, DiscardReview
  <1>4. RecorderTypeOK'
    <2>1. review' \in 0 .. MaxTakes
      BY <1>1, TakesAssumption
    <2>2. sentTakes' \subseteq Takes /\ refused' \subseteq Takes
      BY <1>1, <1>3 DEF RecorderInv, RecorderTypeOK
    <2> QED
      BY <1>1, <2>1, <2>2 DEF RecorderInv, RecorderTypeOK
  <1>5. PressSound' /\ OneLive' /\ ActiveHeld'
    BY <1>1 DEF RecorderInv, PressSound, OneLive, Live, ActiveHeld, Active, Held
  <1>6. \A m \in Takes : m # 0
    BY DEF Takes
  <1>7. NewTakes'
    BY <1>1, <1>2, <1>3, <1>6 DEF RecorderInv, NewTakes
  <1>8. RefusedUnsent'
    <2>1. refused' \subseteq Takes
      BY <1>4 DEF RecorderTypeOK
    <2> QED
      BY <1>1, <1>2, <1>3, <1>6, <2>1 DEF RecorderInv, RefusedUnsent, Held
  <1> QED
    BY <1>4, <1>5, <1>7, <1>8 DEF RecorderInv

LEMMA HoldTimerInv ==
  ASSUME RecorderInv, HoldTimer
  PROVE  RecorderInv'
  <1> USE DEF outcome
  <1> PICK n : n = takes + 1
    OBVIOUS
  <1> DEFINE o == NoTake
             w == [o EXCEPT !.at = "loading", !.video = videoMode]
  <1>1. /\ press.at = "down" /\ takes' = n /\ press' = [at |-> "held", take |-> n]
        /\ take' = [take EXCEPT ![n] = w]
        /\ recordingMode' /\ recordingRef' /\ ~lockedRef' /\ UNCHANGED lockedRef
        /\ UNCHANGED <<videoMode, review, sentTakes, refused, early>>
        /\ recordingMode' \in BOOLEAN /\ recordingRef' \in BOOLEAN /\ lockedRef' \in BOOLEAN
    BY UpIsUp DEF HoldTimer, RecorderInv, RecorderTypeOK, PressSound
  <1>2. n \in Takes /\ n \in 0 .. MaxTakes /\ takes \in Nat
    BY TakesAssumption DEF HoldTimer, RecorderInv, RecorderTypeOK, Takes
  <1>3. /\ o \in TakeType /\ o.here /\ ~o.shown
    BY NoTakeType
  <1> HIDE DEF o
  <1>4. /\ w \in TakeType /\ w.at = "loading" /\ w.here /\ ~w.shown
    BY <1>3 DEF TakeType, RecorderInv, RecorderTypeOK
  <1> HIDE DEF w
  <1>5. /\ take' \in [Takes -> TakeType] /\ take'[n] = w
        /\ \A m \in Takes \ {n} : take'[m] = take[m]
    BY <1>1, <1>2, <1>4 DEF RecorderInv, RecorderTypeOK
  <1>6. press'.at = "held" /\ press'.take = n /\ press' # Up
        /\ press' \in [at: {"up", "down", "held", "long"}, take: Nat]
    BY <1>1, <1>2, UpIsUp
  <1>7. RecorderTypeOK'
    BY <1>1, <1>2, <1>5, <1>6 DEF RecorderInv, RecorderTypeOK
  <1>8. \A m \in Takes : ~Live(m)
    BY <1>1 DEF RecorderInv, PressSound, OneLive
  <1>9. \A m \in Takes \ early : ~Active(m)
    BY <1>8 DEF RecorderInv, ActiveHeld
  <1>10. take[n].at = "none" /\ n \notin refused /\ n \notin early /\ n \notin sentTakes /\ review # n
    BY <1>2 DEF RecorderInv, NewTakes
  <1>11. PressSound'
    BY <1>1, <1>2, <1>4, <1>5, <1>6 DEF PressSound
  <1>12. NewTakes'
    <2>1. \A m \in Takes : m > takes' => m > takes /\ m # n
      BY <1>1, <1>2 DEF Takes
    <2> QED
      BY <1>1, <1>4, <1>5, <1>10, <2>1 DEF RecorderInv, NewTakes
  <1>13. OneLive'
    <2>1. \A m \in Takes \ {n} : ~Live(m)'
      BY <1>5, <1>8 DEF Live
    <2> QED
      BY <1>1, <1>4, <1>5, <2>1 DEF OneLive
  <1>14. ActiveHeld'
    <2>1. \A m \in Takes \ early' : m # n => ~Active(m)' /\ press'.take # m
      <3> SUFFICES ASSUME NEW m \in Takes \ early, m # n PROVE ~Active(m)'
        BY <1>1, <1>6
      <3> QED
        BY <1>5, <1>9 DEF Active
    <2>2. Active(n)' /\ Live(n)' /\ Held(n)'
      BY <1>4, <1>5, <1>6 DEF Active, Live, Held
    <2> QED
      BY <1>1, <1>2, <2>1, <2>2 DEF ActiveHeld
  <1>15. RefusedUnsent'
    <2>1. \A m \in refused' \ early' : m \in Takes /\ m # n /\ take'[m] = take[m]
      BY <1>1, <1>5, <1>10 DEF RecorderInv, RecorderTypeOK
    <2>2. \A m \in refused' \ early' : ~Held(m)'
      BY <1>6, <2>1 DEF Held
    <2> QED
      BY <1>1, <2>1, <2>2 DEF RecorderInv, RefusedUnsent
  <1> QED
    BY <1>7, <1>11, <1>12, <1>13, <1>14, <1>15 DEF RecorderInv

\* A take moves on and nothing else changes but what the user let go.
LEMMA OneTake ==
  ASSUME RecorderInv, NEW n \in Takes, take' \in [Takes -> TakeType],
         \A m \in Takes \ {n} : take'[m] = take[m],
         UNCHANGED <<videoMode, recordingMode, recordingRef, lockedRef, takes, review, sentTakes>>,
         n <= takes, take'[n].here = take[n].here, take[n].at # "over",
         take'[n].at \notin {"none", "loading", "over"},
         take'[n].shown => Live(n),
         UNCHANGED early, UNCHANGED press,
         refused' = refused \/ refused' = refused \ {n} \/ refused' = refused \union {n},
         n \notin early =>
           /\ take'[n].at \in {"asking", "recording"} =>
                Active(n) /\ take'[n].shown /\ n \notin refused'
           /\ n \in refused' => take'[n].at = "stopping" /\ take'[n].discard
                                /\ (take'[n].shown => ~Held(n))
  PROVE  RecorderInv'
  <1>1. n \notin sentTakes /\ review # n
    BY DEF RecorderInv, NewTakes
  <1>2. RecorderTypeOK'
    BY DEF RecorderInv, RecorderTypeOK
  <1>3. PressSound'
    <2>1. 1 .. takes \subseteq Takes
      BY TakesAssumption DEF RecorderInv, RecorderTypeOK, Takes
    <2> QED
      BY <2>1 DEF RecorderInv, PressSound
  <1>4. NewTakes'
    <2> SUFFICES ASSUME NEW m \in Takes
                 PROVE  /\ m > takes => take'[m].at = "none" /\ m \notin refused' \union early
                        /\ take'[m].at \in {"none", "loading", "over"} => ~take'[m].shown
                        /\ take'[m].at # "over" => m \notin sentTakes /\ review # m
                        /\ review = m => m \notin sentTakes
      BY DEF NewTakes
    <2>1. CASE m = n
      <3>1. ~(n > takes)
        BY DEF RecorderInv, RecorderTypeOK, Takes
      <3> QED
        BY <1>1, <2>1, <3>1
    <2>2. CASE m # n
      BY <2>2 DEF RecorderInv, NewTakes
    <2> QED
      BY <2>1, <2>2
  <1>5. OneLive'
    <2>1. \A m \in Takes : Live(m)' => Live(m)
      BY DEF Live
    <2> QED
      BY <2>1 DEF RecorderInv, OneLive
  <1>6. ActiveHeld'
    <2> SUFFICES ASSUME NEW m \in Takes \ early
                 PROVE  /\ Active(m)' => Live(m)' /\ (Held(m) \/ lockedRef) /\ recordingRef
                        /\ press.at \in {"held", "long"} /\ press.take = m /\ recordingRef
                             => Active(m)' \/ take'[m].at = "stopping"
      BY DEF ActiveHeld, Held
    <2>1. CASE m = n
      <3>1. Active(n)' => take'[n].at \in {"asking", "recording"}
        BY DEF Active
      <3>2. Active(n)' \/ take'[n].at = "stopping"
        BY DEF Active, TakeType
      <3> QED
        BY <2>1, <3>1, <3>2 DEF RecorderInv, ActiveHeld, Live
    <2>2. CASE m # n
      BY <2>2 DEF RecorderInv, ActiveHeld, Active, Live
    <2> QED
      BY <2>1, <2>2
  <1>7. RefusedUnsent'
    <2> SUFFICES ASSUME NEW m \in refused' \ early
                 PROVE  /\ take'[m].at = "over" \/ (take'[m].at = "stopping" /\ take'[m].discard)
                        /\ m \notin sentTakes /\ review # m
                        /\ take'[m].shown => ~Held(m)
      BY DEF RefusedUnsent, Held
    <2>1. CASE m = n
      BY <1>1, <2>1
    <2>2. CASE m # n
      <3>1. m \in refused /\ m \in Takes
        BY <2>2 DEF RecorderInv, RecorderTypeOK
      <3> QED
        BY <2>2, <3>1 DEF RecorderInv, RefusedUnsent
    <2> QED
      BY <2>1, <2>2
  <1> QED
    BY <1>2, <1>3, <1>4, <1>5, <1>6, <1>7 DEF RecorderInv

\* The recorder's own steps, and the buttons that leave it on the screen.
LEMMA TakeStepInv ==
  ASSUME RecorderInv, NEW n \in Takes,
         \/ Load(n) \/ Grant(n) \/ Cap(n) \/ PressStop(n)
         \/ PressCancelTake(n) /\ take[n].at = "recording"
  PROVE  RecorderInv'
  <1> USE DEF composer, outcome
  <1>1. /\ RecorderTypeOK /\ take[n] \in TakeType
        /\ UNCHANGED <<press, videoMode, recordingMode, recordingRef, lockedRef, takes, review,
                       sentTakes, early>>
    BY DEF Load, Grant, Cap, PressStop, PressCancelTake, CancelTake, RecorderInv, RecorderTypeOK
  <1>2. take[n].at \in {"loading", "asking", "recording", "stopping"}
    BY DEF Load, Grant, Cap, PressStop, PressCancelTake
  <1>3. n <= takes
    BY <1>2 DEF RecorderInv, NewTakes, RecorderTypeOK, Takes
  <1>4. take[n].shown => Live(n)
    BY DEF Live
  <1>5. n \notin early /\ n \in refused =>
          take[n].at = "stopping" /\ take[n].discard /\ (take[n].shown => ~Held(n))
    BY <1>2 DEF RecorderInv, RefusedUnsent
  <1>6. n \notin early /\ Active(n) => Live(n)
    BY DEF RecorderInv, ActiveHeld
  <1>7. lockedRef => ~Held(n)
    BY DEF RecorderInv, PressSound, Held
  <1>8. CASE Load(n)
    <2> DEFINE w == [take[n] EXCEPT !.at = "asking", !.shown = TRUE]
    <2>1. take' = [take EXCEPT ![n] = w] /\ take[n].at = "loading" /\ UNCHANGED refused
      BY <1>1, <1>8 DEF Load, RecorderTypeOK
    <2>2. w \in TakeType /\ w.at = "asking" /\ w.shown /\ w.here = take[n].here
      BY <1>1 DEF TakeType
    <2> HIDE DEF w
    <2>3. /\ take' \in [Takes -> TakeType] /\ take'[n] = w
          /\ \A m \in Takes \ {n} : take'[m] = take[m]
      BY <1>1, <2>1, <2>2 DEF RecorderTypeOK
    <2> QED
      BY <1>1, <1>3, <1>5, <2>1, <2>2, <2>3, OneTake DEF Live, Active
  <1>9. CASE Grant(n)
    <2>1. take' = [take EXCEPT ![n].at = "recording"] /\ take[n].at = "asking" /\ UNCHANGED refused
      BY <1>9 DEF Grant
    <2>2. /\ take' \in [Takes -> TakeType]
          /\ \A m \in Takes \ {n} : take'[m] = take[m]
          /\ take'[n].here = take[n].here /\ take'[n].shown = take[n].shown
          /\ take'[n].at = "recording"
      BY <1>1, <2>1, MovedTake
    <2> QED
      BY <1>1, <1>3, <1>4, <1>5, <1>6, <2>1, <2>2, OneTake DEF Live, Active
  <1>10. ASSUME NEW discard \in BOOLEAN, take' = Stopped(n, discard),
                take[n].at \in {"recording", "stopping"}
         PROVE  /\ take' \in [Takes -> TakeType]
                /\ \A m \in Takes \ {n} : take'[m] = take[m]
                /\ take'[n].here = take[n].here /\ take'[n].shown = take[n].shown
                /\ take'[n].at = "stopping" /\ take'[n].discard = discard
    BY <1>1, <1>10, StoppedFields
  <1>11. CASE Cap(n)
    <2>1. take' = Stopped(n, FALSE) /\ take[n].at = "recording" /\ UNCHANGED refused
      BY <1>11 DEF Cap
    <2> QED
      BY <1>1, <1>3, <1>4, <1>5, <1>10, <2>1, OneTake
  <1>12. CASE PressStop(n)
    <2>1. /\ take' = Stopped(n, FALSE) /\ take[n].at \in {"recording", "stopping"}
          /\ refused' = refused \ {n}
      BY <1>12 DEF PressStop
    <2> QED
      BY <1>1, <1>3, <1>4, <1>10, <2>1, OneTake
  <1>13. CASE PressCancelTake(n) /\ take[n].at = "recording"
    <2>1. /\ take' = Stopped(n, TRUE) /\ take[n].at = "recording" /\ lockedRef
          /\ refused' = refused \union {n}
      BY <1>13 DEF PressCancelTake, CancelTake
    <2> QED
      BY <1>1, <1>3, <1>4, <1>7, <1>10, <2>1, OneTake
  <1> QED
    BY <1>8, <1>9, <1>11, <1>12, <1>13

\* While a take is held no other that was not let go may record.
LEMMA OthersIdle ==
  ASSUME RecorderInv, press.at \in {"held", "long"}
  PROVE  /\ press.take \in Takes /\ press.take <= takes /\ ~lockedRef /\ Held(press.take)
         /\ take[press.take].here
         /\ \A m \in Takes \ early : m # press.take => ~Active(m)
         /\ press.take \notin early /\ recordingRef =>
              /\ take[press.take].at \in {"loading", "asking", "recording", "stopping"}
              /\ take[press.take].at = "recording" => take[press.take].shown
              /\ press.take \in refused => take[press.take].at = "stopping" /\ ~take[press.take].shown
  <1> DEFINE n == press.take
  <1>1. n \in Takes /\ n <= takes /\ take[n].here
    BY TakesAssumption DEF RecorderInv, RecorderTypeOK, PressSound, Takes
  <1>2. ~lockedRef /\ Held(n)
    BY UpIsUp DEF RecorderInv, PressSound, Held
  <1>3. \A m \in Takes \ early : m # n => ~Active(m)
    BY <1>2 DEF RecorderInv, ActiveHeld, Held
  <1>4. n \notin early /\ recordingRef => Active(n) \/ take[n].at = "stopping"
    BY <1>1 DEF RecorderInv, ActiveHeld
  <1>5. n \notin early /\ Active(n) => Live(n)
    BY <1>1 DEF RecorderInv, ActiveHeld
  <1>6. n \notin early /\ n \in refused =>
          (take[n].at = "over" \/ take[n].at = "stopping") /\ ~take[n].shown
    BY <1>2 DEF RecorderInv, RefusedUnsent
  <1> QED
    BY <1>1, <1>2, <1>3, <1>4, <1>5, <1>6 DEF Active, Live

LEMMA ReleaseLongInv ==
  ASSUME RecorderInv, ReleaseLong
  PROVE  RecorderInv'
  <1> USE DEF composer, outcome
  <1> PICK n : n = press.take
    OBVIOUS
  <1>1. /\ press.at = "long" /\ recordingRef /\ press' = Up
        /\ early' = IF Unready(n) THEN early \union {n} ELSE early
        /\ refused' = refused
        /\ take' = IF take[n].shown THEN Stopped(n, FALSE) ELSE take
        /\ UNCHANGED <<videoMode, recordingMode, recordingRef, lockedRef, takes, review, sentTakes>>
    BY DEF ReleaseLong, LetGo
  <1>2. /\ n \in Takes /\ n <= takes /\ ~lockedRef /\ Held(n)
        /\ \A m \in Takes \ early : m # n => ~Active(m)
        /\ n \notin early =>
             /\ take[n].at \in {"loading", "asking", "recording", "stopping"}
             /\ take[n].at = "recording" => take[n].shown
             /\ n \in refused => take[n].at = "stopping" /\ ~take[n].shown
    BY <1>1, OthersIdle
  <1>3. /\ take' \in [Takes -> TakeType]
        /\ \A m \in Takes \ {n} : take'[m] = take[m]
        /\ take'[n].here = take[n].here /\ take'[n].shown = take[n].shown
        /\ take'[n].at = IF take[n].at = "recording" /\ take[n].shown THEN "stopping" ELSE take[n].at
        /\ ~take[n].shown => take'[n] = take[n]
    <2>1. CASE take[n].shown
      BY <1>1, <1>2, <2>1, StoppedFields, ZenonT(40) DEF RecorderInv
    <2>2. CASE ~take[n].shown
      BY <1>1, <1>2, <2>2 DEF RecorderInv, RecorderTypeOK
    <2> QED
      BY <2>1, <2>2
  <1>4. RecorderTypeOK'
    <2>1. Up \in [at: {"up", "down", "held", "long"}, take: Nat]
      BY DEF Up
    <2> QED
      BY <1>1, <1>2, <1>3, <2>1 DEF RecorderInv, RecorderTypeOK
  <1>5. PressSound'
    BY <1>1, <1>2, UpIsUp DEF PressSound
  <1>6. NewTakes'
    <2> SUFFICES ASSUME NEW m \in Takes
                 PROVE  /\ m > takes => take'[m].at = "none" /\ m \notin refused \union early'
                        /\ take'[m].at \in {"none", "loading", "over"} => ~take'[m].shown
                        /\ take'[m].at # "over" => m \notin sentTakes /\ review # m
                        /\ review = m => m \notin sentTakes
      BY <1>1 DEF NewTakes
    <2>1. CASE m = n
      <3>1. ~(n > takes)
        BY <1>2 DEF RecorderInv, RecorderTypeOK, Takes
      <3> QED
        BY <1>3, <2>1, <3>1 DEF RecorderInv, NewTakes
    <2>2. CASE m # n
      <3>1. take'[m] = take[m] /\ (m \in early' => m \in early)
        BY <1>1, <1>3, <2>2
      <3> QED
        BY <1>1, <3>1 DEF RecorderInv, NewTakes
    <2> QED
      BY <2>1, <2>2
  <1>7. OneLive'
    <2>1. \A m \in Takes : (Live(m)' => Live(m)) /\ take'[m].here = take[m].here
      BY <1>2, <1>3 DEF Live
    <2> QED
      BY <1>1, <2>1 DEF RecorderInv, OneLive
  <1>8. ActiveHeld'
    <2>1. \A m \in Takes \ early' : ~Active(m)'
      <3> SUFFICES ASSUME NEW m \in Takes \ early' PROVE ~Active(m)'
        OBVIOUS
      <3>1. CASE m = n
        BY <1>1, <1>2, <1>3, <3>1 DEF Active, Unready
      <3>2. CASE m # n
        BY <1>1, <1>2, <1>3, <3>2 DEF Active
      <3> QED
        BY <3>1, <3>2
    <2> QED
      BY <1>1, <2>1, UpIsUp DEF ActiveHeld
  <1>9. RefusedUnsent'
    <2> SUFFICES ASSUME NEW m \in refused \ early
                 PROVE  /\ take'[m].at = "over" \/ (take'[m].at = "stopping" /\ take'[m].discard)
                        /\ m \notin sentTakes /\ review # m
      BY <1>1 DEF RefusedUnsent, Held
    <2>1. m \in Takes /\ (m = n => ~take[n].shown)
      BY <1>2 DEF RecorderInv, RecorderTypeOK
    <2>2. take'[m] = take[m]
      BY <1>3, <2>1
    <2> QED
      BY <2>2 DEF RecorderInv, RefusedUnsent
  <1> QED
    BY <1>4, <1>5, <1>6, <1>7, <1>8, <1>9 DEF RecorderInv

\* The take is given up and its recorder leaves the screen.
LEMMA GiveUpInv ==
  ASSUME RecorderInv, SlideLeft \/ ReleaseShort
  PROVE  RecorderInv'
  <1> USE DEF outcome
  <1> PICK n : n = press.take
    OBVIOUS
  <1> PICK ts : /\ take' = AllUnmounted(ts)
                /\ \/ ts = take /\ ~(take[n].shown /\ ~take[n].video)
                   \/ ts = Stopped(n, TRUE)
    BY DEF SlideLeft, ReleaseShort
  <1>1. /\ press.at \in {"held", "long"} /\ recordingRef /\ press' = Up /\ Reset
        /\ early' = IF Unready(n) THEN early \union {n} ELSE early
        /\ refused' = IF take[n].at # "stopping" THEN refused \union {n} ELSE refused
        /\ UNCHANGED <<videoMode, takes, review, sentTakes>>
    BY DEF SlideLeft, ReleaseShort, LetGo
  <1>2. /\ n \in Takes /\ n <= takes
        /\ \A m \in Takes \ early : m # n => ~Active(m)
        /\ n \notin early =>
             /\ take[n].at \in {"loading", "asking", "recording", "stopping"}
             /\ take[n].at = "recording" => take[n].shown
             /\ n \in refused => take[n].at = "stopping" /\ ~take[n].shown
    BY <1>1, OthersIdle
  <1>3. /\ ts \in [Takes -> TakeType]
        /\ \A m \in Takes \ {n} : ts[m] = take[m]
        /\ ts[n].shown = take[n].shown
        /\ \/ ts[n] = take[n]
           \/ /\ ts[n].at = IF take[n].at = "recording" THEN "stopping" ELSE take[n].at
              /\ ts[n].discard
    <2>1. CASE ts = take
      BY <1>2, <2>1 DEF RecorderInv, RecorderTypeOK
    <2>2. CASE ts = Stopped(n, TRUE)
      BY <1>2, <2>2, StoppedFields DEF RecorderInv
    <2> QED
      BY <2>1, <2>2
  <1>4. /\ take' \in [Takes -> TakeType]
        /\ \A m \in Takes : IsUnmount(take'[m], ts[m])
    BY <1>3, AllUnmountedFields
  <1>5. RecorderTypeOK'
    <2>1. Up \in [at: {"up", "down", "held", "long"}, take: Nat]
      BY DEF Up
    <2>2. refused' \subseteq Takes /\ early' \subseteq Takes
      BY <1>1, <1>2 DEF RecorderInv, RecorderTypeOK
    <2> QED
      BY <1>1, <1>4, <2>1, <2>2 DEF RecorderInv, RecorderTypeOK, Reset
  <1>6. ASSUME NEW m \in Takes
        PROVE  /\ ~take'[m].shown /\ take'[m].at # "loading"
               /\ m > takes => take'[m].at = "none" /\ m \notin refused' \union early'
               /\ take'[m].at # "over" => m \notin sentTakes /\ review # m
               /\ review = m => m \notin sentTakes
               /\ m \notin early' => take'[m].at \notin {"asking", "recording"}
               /\ m \in refused' \ early' =>
                    /\ take'[m].at = "over" \/ (take'[m].at = "stopping" /\ take'[m].discard)
                    /\ m \notin sentTakes /\ review # m
    <2>1. /\ take[m].at \in {"none", "loading", "over"} => ~take[m].shown
          /\ m > takes => take[m].at = "none" /\ m \notin refused \union early
          /\ take[m].at # "over" => m \notin sentTakes /\ review # m
          /\ review = m => m \notin sentTakes
          /\ m \notin early /\ take[m].at = "recording" => take[m].shown
      BY DEF RecorderInv, NewTakes, ActiveHeld, Active, Live
    <2>2. m \in refused \ early =>
            /\ take[m].at = "over" \/ (take[m].at = "stopping" /\ take[m].discard)
            /\ m \notin sentTakes /\ review # m
      BY DEF RecorderInv, RefusedUnsent
    <2>3. CASE m # n
      <3>1. ts[m] = take[m] /\ (m \notin early => ~Active(m))
        BY <1>2, <1>3, <2>3
      <3> QED
        BY <1>1, <1>4, <2>1, <2>2, <2>3, <3>1 DEF Active, IsUnmount
    <2>4. CASE m = n
      <3>1. ~(m > takes)
        BY <1>2, <2>4 DEF RecorderInv, RecorderTypeOK, Takes
      <3>2. take[n] \in TakeType
        BY <1>2 DEF RecorderInv, RecorderTypeOK
      <3>3. m \notin early' => m \notin early /\ take[n].at \in {"recording", "stopping"}
        BY <1>1, <1>2, <2>4 DEF Unready
      <3>4. IsUnmount(take'[n], ts[n])
        BY <1>2, <1>4
      <3>5. ~take'[n].shown /\ take'[n].at # "loading"
        BY <1>3, <2>1, <2>4, <3>4 DEF IsUnmount
      <3>6. /\ take[n].at = "over" => take'[n].at = "over"
            /\ take[n].at = "stopping" => take'[n].at = "stopping"
        BY <1>3, <3>4 DEF IsUnmount
      <3>7. m \notin early' /\ take[n].at = "recording" => take'[n].at = "stopping" /\ take'[n].discard
        BY <1>2, <1>3, <2>4, <3>3, <3>4 DEF IsUnmount
      <3>8. m \in refused' /\ m \notin early' /\ take[n].at = "stopping" =>
              take'[n].at = "stopping" /\ take'[n].discard
        BY <1>1, <1>2, <1>3, <2>2, <2>4, <3>3, <3>4 DEF IsUnmount
      <3> QED
        BY <1>1, <2>1, <2>2, <2>4, <3>1, <3>3, <3>5, <3>6, <3>7, <3>8
    <2> QED
      BY <2>3, <2>4
  <1> QED
    BY <1>1, <1>5, <1>6, Cleared

\* Cancel is pressed while the locked recorder is stopping already.
LEMMA CancelStoppingInv ==
  ASSUME RecorderInv, NEW n \in Takes, PressCancelTake(n), take[n].at = "stopping"
  PROVE  RecorderInv'
  <1> USE DEF outcome
  <1> PICK ts : ts = Stopped(n, TRUE)
    OBVIOUS
  <1>1. /\ take[n].shown /\ press' = press /\ Reset /\ take' = AllUnmounted(ts)
        /\ refused' = refused \union {n}
        /\ UNCHANGED <<press, videoMode, takes, review, sentTakes, early>>
    BY DEF PressCancelTake, CancelTake
  <1>2. n <= takes /\ n \notin sentTakes /\ review # n
    BY DEF RecorderInv, NewTakes, RecorderTypeOK, Takes
  <1>3. \A m \in Takes \ early : m # n => ~Active(m)
    BY <1>1 DEF RecorderInv, ActiveHeld, OneLive, Live
  <1>4. /\ ts \in [Takes -> TakeType]
        /\ \A m \in Takes \ {n} : ts[m] = take[m]
        /\ ts[n].at = "stopping" /\ ts[n].discard /\ ts[n].shown = take[n].shown
    BY StoppedFields DEF RecorderInv
  <1>5. /\ take' \in [Takes -> TakeType]
        /\ \A m \in Takes : IsUnmount(take'[m], ts[m])
    BY <1>1, <1>4, AllUnmountedFields
  <1>6. RecorderTypeOK'
    BY <1>1, <1>5 DEF RecorderInv, RecorderTypeOK, Reset
  <1>7. ASSUME NEW m \in Takes
        PROVE  /\ ~take'[m].shown /\ take'[m].at # "loading"
               /\ take'[m].here = take[m].here
               /\ m > takes => take'[m].at = "none" /\ m \notin refused' \union early
               /\ take'[m].at # "over" => m \notin sentTakes /\ review # m
               /\ review = m => m \notin sentTakes
               /\ m \notin early => take'[m].at \notin {"asking", "recording"}
               /\ m \in refused' \ early =>
                    /\ take'[m].at = "over" \/ (take'[m].at = "stopping" /\ take'[m].discard)
                    /\ m \notin sentTakes /\ review # m
    <2>1. /\ take[m].at \in {"none", "loading", "over"} => ~take[m].shown
          /\ m > takes => take[m].at = "none" /\ m \notin refused \union early
          /\ take[m].at # "over" => m \notin sentTakes /\ review # m
          /\ review = m => m \notin sentTakes
      BY DEF RecorderInv, NewTakes
    <2>2. m \in refused \ early =>
            /\ take[m].at = "over" \/ (take[m].at = "stopping" /\ take[m].discard)
            /\ m \notin sentTakes /\ review # m
      BY DEF RecorderInv, RefusedUnsent
    <2>3. CASE m # n
      <3>1. ts[m] = take[m] /\ (m \notin early => ~Active(m))
        BY <1>3, <1>4, <2>3
      <3>2. IsUnmount(take'[m], take[m])
        BY <1>5, <3>1
      <3>3. ~take'[m].shown /\ take'[m].at # "loading"
        BY <2>1, <3>2 DEF IsUnmount
      <3>4. m > takes => take'[m].at = "none" /\ m \notin refused' \union early
        BY <1>1, <2>1, <2>3, <3>2 DEF IsUnmount
      <3>5. take'[m].at # "over" => m \notin sentTakes /\ review # m
        BY <2>1, <3>2 DEF IsUnmount
      <3>6. m \notin early => take'[m].at \notin {"asking", "recording"}
        BY <3>1, <3>2 DEF Active, IsUnmount
      <3>7. m \in refused' \ early => m \in refused \ early
        BY <1>1, <2>3
      <3>8. m \in refused' \ early =>
              /\ take'[m].at = "over" \/ (take'[m].at = "stopping" /\ take'[m].discard)
              /\ m \notin sentTakes /\ review # m
        BY <2>2, <3>2, <3>7 DEF IsUnmount
      <3> QED
        BY <2>1, <3>2, <3>3, <3>4, <3>5, <3>6, <3>8 DEF IsUnmount
    <2>4. CASE m = n
      <3>1. ~(m > takes)
        BY <1>2, <2>4 DEF RecorderInv, RecorderTypeOK, Takes
      <3>2. ts[n].here = take[n].here
        BY StoppedFields DEF RecorderInv
      <3> QED
        BY <1>1, <1>2, <1>4, <1>5, <2>4, <3>1, <3>2 DEF IsUnmount
    <2> QED
      BY <2>3, <2>4
  <1> QED
    BY <1>1, <1>6, <1>7, Cleared

\* A take ends: what it leaves under review or sent was not given up.
LEMMA Ended ==
  ASSUME RecorderInv, NEW n \in Takes, Deny(n) \/ \E empty \in BOOLEAN : OnStop(n, empty)
  PROVE  /\ take[n].at \in {"asking", "stopping"} /\ n <= takes
         /\ Cancelled(n, [take EXCEPT ![n].at = "over"])
         /\ UNCHANGED <<press, videoMode, takes, refused>>
         /\ n \notin sentTakes /\ review # n
         /\ \/ UNCHANGED <<review, sentTakes>>
            \/ /\ review' = n /\ UNCHANGED sentTakes
               /\ take[n].here /\ n \notin refused \ early
            \/ /\ UNCHANGED review /\ sentTakes' = sentTakes \union {n}
               /\ n \notin refused \ early
  <1>1. take[n].at \in {"asking", "stopping"}
    BY DEF Deny, OnStop
  <1>2. n <= takes /\ n \notin sentTakes /\ review # n
    BY <1>1 DEF RecorderInv, NewTakes, RecorderTypeOK, Takes
  <1>3. CASE Deny(n)
    BY <1>1, <1>2, <1>3 DEF Deny, outcome
  <1>4. CASE \E empty \in BOOLEAN : OnStop(n, empty)
    <2> PICK empty \in BOOLEAN : OnStop(n, empty)
      BY <1>4
    <2>1. ~take[n].discard => n \notin refused \ early
      BY <1>1 DEF OnStop, RecorderInv, RefusedUnsent
    <2> QED
      BY <1>1, <1>2, <2>1 DEF OnStop
  <1> QED
    BY <1>3, <1>4

\* ... on the screen of its composer, or of another that took its place
LEMMA EndedHereInv ==
  ASSUME RecorderInv, NEW n \in Takes, Deny(n) \/ \E empty \in BOOLEAN : OnStop(n, empty),
         take[n].here
  PROVE  RecorderInv'
  <1> PICK ts : ts = [take EXCEPT ![n].at = "over"]
    OBVIOUS
  <1>1. /\ take[n].at \in {"asking", "stopping"} /\ n <= takes
        /\ UNCHANGED <<press, videoMode, takes, refused>>
        /\ n \notin sentTakes /\ review # n
        /\ \/ UNCHANGED <<review, sentTakes>>
           \/ review' = n /\ UNCHANGED sentTakes /\ n \notin refused \ early
           \/ UNCHANGED review /\ sentTakes' = sentTakes \union {n} /\ n \notin refused \ early
    BY Ended
  <1>2. /\ take' = AllUnmounted(ts) /\ Reset
        /\ early' = early \union {m \in Takes : Unready(m)}
    BY Ended DEF Cancelled
  <1>3. /\ ts \in [Takes -> TakeType]
        /\ \A m \in Takes \ {n} : ts[m] = take[m]
        /\ ts[n].at = "over" /\ ts[n].here = take[n].here
    BY MovedTake DEF RecorderInv
  <1>4. /\ take' \in [Takes -> TakeType]
        /\ \A m \in Takes : IsUnmount(take'[m], ts[m])
    BY <1>2, <1>3, AllUnmountedFields
  <1>5. RecorderTypeOK'
    <2>1. review' \in 0 .. MaxTakes /\ sentTakes' \subseteq Takes
      BY <1>1, TakesAssumption DEF RecorderInv, RecorderTypeOK, Takes
    <2> QED
      BY <1>1, <1>2, <1>4, <2>1 DEF RecorderInv, RecorderTypeOK, Reset
  <1>6. ASSUME NEW m \in Takes
        PROVE  /\ ~take'[m].shown /\ take'[m].at # "loading"
               /\ take'[m].here = take[m].here
               /\ m > takes => take'[m].at = "none" /\ m \notin refused \union early'
               /\ take'[m].at # "over" => m \notin sentTakes' /\ review' # m
               /\ review' = m => m \notin sentTakes'
               /\ m \notin early' => take'[m].at \notin {"asking", "recording"}
               /\ m \in refused \ early' =>
                    /\ take'[m].at = "over" \/ (take'[m].at = "stopping" /\ take'[m].discard)
                    /\ m \notin sentTakes' /\ review' # m
    <2>1. /\ take[m].at \in {"none", "loading", "over"} => ~take[m].shown
          /\ m > takes => take[m].at = "none" /\ m \notin refused \union early
          /\ take[m].at # "over" => m \notin sentTakes /\ review # m
          /\ review = m => m \notin sentTakes
          /\ m \notin early /\ take[m].at = "recording" => take[m].shown
      BY DEF RecorderInv, NewTakes, ActiveHeld, Active, Live
    <2>2. m \in refused \ early =>
            /\ take[m].at = "over" \/ (take[m].at = "stopping" /\ take[m].discard)
            /\ m \notin sentTakes /\ review # m
      BY DEF RecorderInv, RefusedUnsent
    <2>3. m \notin early' => m \notin early /\ take[m].at \notin {"loading", "asking"}
      BY <1>2 DEF Unready
    <2>4. m > takes => ~Unready(m)
      BY <2>1 DEF Unready
    <2>5. CASE m # n
      <3>1. ts[m] = take[m]
        BY <1>3, <2>5
      <3>2. (m \in sentTakes' => m \in sentTakes) /\ (review' = m => review = m)
        BY <1>1, <2>5
      <3>3. IsUnmount(take'[m], take[m])
        BY <1>4, <3>1
      <3>4. ~take'[m].shown /\ take'[m].at # "loading"
        BY <2>1, <3>3 DEF IsUnmount
      <3>5. m > takes => take'[m].at = "none" /\ m \notin refused \union early'
        BY <1>2, <2>1, <2>4, <3>3 DEF IsUnmount
      <3>6. take'[m].at # "over" => m \notin sentTakes' /\ review' # m
        BY <2>1, <3>2, <3>3 DEF IsUnmount
      <3>7. review' = m => m \notin sentTakes'
        BY <2>1, <3>2
      <3>8. m \notin early' => take'[m].at \notin {"asking", "recording"}
        BY <2>1, <2>3, <3>3 DEF IsUnmount
      <3>9. m \in refused \ early' =>
              /\ take'[m].at = "over" \/ (take'[m].at = "stopping" /\ take'[m].discard)
              /\ m \notin sentTakes' /\ review' # m
        BY <2>2, <2>3, <3>2, <3>3 DEF IsUnmount
      <3> QED
        BY <3>3, <3>4, <3>5, <3>6, <3>7, <3>8, <3>9 DEF IsUnmount
    <2>6. CASE m = n
      <3>1. ~(m > takes)
        BY <1>1, <2>6 DEF RecorderInv, RecorderTypeOK, Takes
      <3>2. take'[n].at = "over" /\ ~take'[n].shown /\ take'[n].here = take[n].here
        BY <1>3, <1>4 DEF IsUnmount
      <3>3. review' = n => n \notin sentTakes'
        BY <1>1
      <3>4. n \in refused \ early => n \notin sentTakes' /\ review' # n
        BY <1>1
      <3> QED
        BY <2>3, <2>6, <3>1, <3>2, <3>3, <3>4
    <2> QED
      BY <2>5, <2>6
  <1> QED
    BY <1>1, <1>2, <1>5, <1>6, Cleared

\* ... of a composer that is gone
LEMMA EndedElsewhereInv ==
  ASSUME RecorderInv, NEW n \in Takes, Deny(n) \/ \E empty \in BOOLEAN : OnStop(n, empty),
         ~take[n].here
  PROVE  RecorderInv'
  <1>1. /\ take[n].at \in {"asking", "stopping"} /\ n <= takes
        /\ UNCHANGED <<press, videoMode, takes, refused, review>>
        /\ n \notin sentTakes /\ review # n
        /\ \/ UNCHANGED sentTakes
           \/ sentTakes' = sentTakes \union {n} /\ n \notin refused \ early
    BY Ended
  <1>2. /\ take' = [take EXCEPT ![n].at = "over"]
        /\ UNCHANGED <<recordingMode, recordingRef, lockedRef, early>>
    BY Ended DEF Cancelled, composer
  <1>3. /\ take' \in [Takes -> TakeType]
        /\ \A m \in Takes \ {n} : take'[m] = take[m]
        /\ take'[n].at = "over" /\ take'[n].here = take[n].here
        /\ take'[n].shown = take[n].shown
    BY <1>2, MovedTake DEF RecorderInv
  <1>4. ~take[n].shown
    BY DEF RecorderInv, OneLive, Live
  <1>5. ~(press.at \in {"held", "long"} /\ press.take = n)
    BY DEF RecorderInv, PressSound
  <1>6. RecorderTypeOK'
    BY <1>1, <1>2, <1>3 DEF RecorderInv, RecorderTypeOK
  <1>7. PressSound'
    <2>1. 1 .. takes \subseteq Takes
      BY TakesAssumption DEF RecorderInv, RecorderTypeOK, Takes
    <2>2. \A m \in Takes : take'[m].here = take[m].here
      BY <1>3
    <2> QED
      BY <1>1, <1>2, <2>1, <2>2 DEF RecorderInv, PressSound
  <1>8. NewTakes'
    <2> SUFFICES ASSUME NEW m \in Takes
                 PROVE  /\ m > takes => take'[m].at = "none" /\ m \notin refused \union early
                        /\ take'[m].at \in {"none", "loading", "over"} => ~take'[m].shown
                        /\ take'[m].at # "over" => m \notin sentTakes' /\ review # m
                        /\ review = m => m \notin sentTakes'
      BY <1>1, <1>2 DEF NewTakes
    <2>1. CASE m = n
      <3>1. ~(n > takes)
        BY <1>1 DEF RecorderInv, RecorderTypeOK, Takes
      <3> QED
        BY <1>1, <1>3, <1>4, <2>1, <3>1
    <2>2. CASE m # n
      BY <1>1, <1>3, <2>2 DEF RecorderInv, NewTakes
    <2> QED
      BY <2>1, <2>2
  <1>9. OneLive'
    <2>1. \A m \in Takes : Live(m)' => Live(m) /\ take'[m].here = take[m].here
      BY <1>3 DEF Live
    <2> QED
      BY <1>2, <2>1 DEF RecorderInv, OneLive
  <1>10. ActiveHeld'
    <2> SUFFICES ASSUME NEW m \in Takes \ early
                 PROVE  /\ Active(m)' => Live(m)' /\ (Held(m) \/ lockedRef) /\ recordingRef
                        /\ press.at \in {"held", "long"} /\ press.take = m /\ recordingRef
                             => Active(m)' \/ take'[m].at = "stopping"
      BY <1>1, <1>2 DEF ActiveHeld, Held
    <2>1. CASE m = n
      BY <1>3, <1>5, <2>1 DEF Active
    <2>2. CASE m # n
      BY <1>3, <2>2 DEF RecorderInv, ActiveHeld, Active, Live
    <2> QED
      BY <2>1, <2>2
  <1>11. RefusedUnsent'
    <2> SUFFICES ASSUME NEW m \in refused \ early
                 PROVE  /\ take'[m].at = "over" \/ (take'[m].at = "stopping" /\ take'[m].discard)
                        /\ m \notin sentTakes' /\ review # m
                        /\ take'[m].shown => ~Held(m)
      BY <1>1, <1>2 DEF RefusedUnsent, Held
    <2>1. CASE m = n
      BY <1>1, <1>3, <1>4, <2>1
    <2>2. CASE m # n
      <3>1. m \in Takes
        BY DEF RecorderInv, RecorderTypeOK
      <3>2. take'[m] = take[m]
        BY <1>3, <2>2, <3>1
      <3> QED
        BY <1>1, <2>2, <3>2 DEF RecorderInv, RefusedUnsent
    <2> QED
      BY <2>1, <2>2
  <1> QED
    BY <1>6, <1>7, <1>8, <1>9, <1>10, <1>11 DEF RecorderInv

\* A message is edited: the recorder leaves the screen, the press may last.
LEMMA EditInv ==
  ASSUME RecorderInv, Edit
  PROVE  RecorderInv'
  <1> USE DEF outcome
  <1>1. /\ take' = AllUnmounted(take) /\ recordingMode' = FALSE
        /\ refused' = refused \union {m \in Takes : take[m].at = "recording" /\ take[m].shown}
        /\ early' = early \union {m \in Takes : Unready(m)}
        /\ UNCHANGED <<press, videoMode, recordingRef, lockedRef, takes, review, sentTakes>>
    BY DEF Edit
  <1>2. /\ take' \in [Takes -> TakeType]
        /\ \A m \in Takes : IsUnmount(take'[m], take[m])
    BY <1>1, AllUnmountedFields DEF RecorderInv, RecorderTypeOK
  <1>3. RecorderTypeOK'
    BY <1>1, <1>2 DEF RecorderInv, RecorderTypeOK
  <1>4. PressSound'
    <2>1. 1 .. takes \subseteq Takes
      BY TakesAssumption DEF RecorderInv, RecorderTypeOK, Takes
    <2>2. \A m \in Takes : take'[m].here = take[m].here
      BY <1>2 DEF IsUnmount
    <2> QED
      BY <1>1, <2>1, <2>2 DEF RecorderInv, PressSound
  <1>5. ASSUME NEW m \in Takes
        PROVE  /\ ~take'[m].shown /\ take'[m].at # "loading"
               /\ m > takes => take'[m].at = "none" /\ m \notin refused' \union early'
               /\ take'[m].at # "over" => m \notin sentTakes /\ review # m
    <2>1. /\ take[m].at \in {"none", "loading", "over"} => ~take[m].shown
          /\ m > takes => take[m].at = "none" /\ m \notin refused \union early
          /\ take[m].at # "over" => m \notin sentTakes /\ review # m
      BY DEF RecorderInv, NewTakes
    <2>2. ~take'[m].shown /\ take'[m].at # "loading"
      BY <1>2, <2>1 DEF IsUnmount
    <2>3. m > takes => take'[m].at = "none" /\ m \notin refused' \union early'
      BY <1>1, <1>2, <2>1 DEF Unready, IsUnmount
    <2>4. take'[m].at # "over" => m \notin sentTakes /\ review # m
      BY <1>2, <2>1 DEF IsUnmount
    <2> QED
      BY <2>2, <2>3, <2>4
  <1>6. NewTakes'
    BY <1>1, <1>5 DEF RecorderInv, NewTakes
  <1>7. OneLive'
    BY <1>5 DEF OneLive, Live
  <1>8. ASSUME NEW m \in Takes \ early'
        PROVE  /\ m \notin early /\ ~Active(m)'
               /\ Active(m) \/ take[m].at = "stopping" => take'[m].at = "stopping"
    <2>1. m \in Takes \ early /\ take[m].at \notin {"loading", "asking"}
      BY <1>1 DEF Unready
    <2>2. take[m].at = "recording" => take[m].shown
      BY <2>1 DEF RecorderInv, ActiveHeld, Active, Live
    <2> QED
      BY <1>2, <2>1, <2>2 DEF Active, IsUnmount
  <1>9. ActiveHeld'
    <2>1. ASSUME NEW m \in Takes \ early', press.at \in {"held", "long"}, press.take = m, recordingRef
          PROVE  take'[m].at = "stopping"
      BY <1>8, <2>1 DEF RecorderInv, ActiveHeld
    <2> QED
      BY <1>1, <1>8, <2>1 DEF ActiveHeld
  <1>10. RefusedUnsent'
    <2> SUFFICES ASSUME NEW m \in refused' \ early'
                 PROVE  /\ take'[m].at = "over" \/ (take'[m].at = "stopping" /\ take'[m].discard)
                        /\ m \notin sentTakes /\ review # m
                        /\ ~take'[m].shown
      BY <1>1 DEF RefusedUnsent
    <2>1. m \in Takes /\ m \notin early /\ ~take'[m].shown
      BY <1>1, <1>5 DEF RecorderInv, RecorderTypeOK
    <2>2. CASE m \in refused
      BY <1>2, <2>1, <2>2 DEF RecorderInv, RefusedUnsent, IsUnmount
    <2>3. CASE take[m].at = "recording" /\ take[m].shown
      <3>1. take'[m].at = "stopping" /\ take'[m].discard
        BY <1>2, <2>1, <2>3 DEF IsUnmount
      <3> QED
        BY <1>5, <2>1, <3>1
    <2> QED
      BY <1>1, <2>2, <2>3
  <1> QED
    BY <1>3, <1>4, <1>6, <1>7, <1>9, <1>10 DEF RecorderInv

\* Another conversation is opened.
LEMMA SwitchInv ==
  ASSUME RecorderInv, Switch
  PROVE  RecorderInv'
  <1> USE DEF outcome
  <1>1. /\ press' = Up /\ videoMode' = FALSE /\ Reset /\ review' = 0
        /\ refused' = refused \union {m \in Takes : take[m].at = "recording" /\ take[m].shown}
        /\ early' = early \union {m \in Takes : Unready(m)}
        /\ UNCHANGED <<takes, sentTakes>>
    BY DEF Switch
  <1>2. take' = [m \in Takes |-> [Unmount(take[m]) EXCEPT !.here = take[m].at = "none",
                                    !.discard = @ \/ (take[m].at = "stopping" /\ lockedRef)]]
    BY DEF Switch
  <1>3. ASSUME NEW m \in Takes
        PROVE  /\ take'[m] \in TakeType
               /\ take'[m].at = IF take[m].at = "loading" THEN "over"
                                ELSE IF take[m].at = "recording" /\ take[m].shown THEN "stopping"
                                ELSE take[m].at
               /\ take'[m].shown = IF take[m].at = "loading" THEN take[m].shown ELSE FALSE
               /\ take[m].discard \/ (take[m].at = "recording" /\ take[m].shown)
                    => take'[m].discard
    <2> PICK t : t = take[m] /\ t \in TakeType
      BY DEF RecorderInv, RecorderTypeOK
    <2> PICK u : u = Unmount(t)
      OBVIOUS
    <2>1. /\ u \in TakeType
          /\ u.at = IF t.at = "loading" THEN "over"
                    ELSE IF t.at = "recording" /\ t.shown THEN "stopping" ELSE t.at
          /\ u.shown = IF t.at = "loading" THEN t.shown ELSE FALSE
          /\ u.discard = IF t.at = "recording" /\ t.shown THEN TRUE ELSE t.discard
      BY UnmountFields DEF IsUnmount
    <2> PICK away \in BOOLEAN : away = (t.at = "none")
      OBVIOUS
    <2> PICK dropped \in BOOLEAN : dropped = (u.discard \/ (t.at = "stopping" /\ lockedRef))
      OBVIOUS
    <2>2. take'[m] = [u EXCEPT !.here = away, !.discard = dropped]
      BY <1>2
    <2>3. /\ take'[m] \in TakeType /\ take'[m].at = u.at /\ take'[m].shown = u.shown
          /\ take'[m].discard = dropped
      BY <2>1, <2>2 DEF TakeType
    <2> QED
      BY <2>1, <2>3
  <1>4. RecorderTypeOK'
    <2>1. Up \in [at: {"up", "down", "held", "long"}, take: Nat]
      BY DEF Up
    <2>2. take' \in [Takes -> TakeType]
      BY <1>2, <1>3
    <2>3. review' \in 0 .. MaxTakes
      BY <1>1, TakesAssumption
    <2> QED
      BY <1>1, <2>1, <2>2, <2>3 DEF RecorderInv, RecorderTypeOK, Reset
  <1>5. ASSUME NEW m \in Takes
        PROVE  /\ ~take'[m].shown /\ take'[m].at # "loading"
               /\ m > takes => take'[m].at = "none" /\ m \notin refused' \union early'
               /\ take'[m].at # "over" => m \notin sentTakes
               /\ review' # m
               /\ m \notin early' => take'[m].at \notin {"asking", "recording"}
               /\ m \in refused' \ early' =>
                    /\ take'[m].at = "over" \/ (take'[m].at = "stopping" /\ take'[m].discard)
                    /\ m \notin sentTakes
    <2>1. /\ take[m].at \in {"none", "loading", "over"} => ~take[m].shown
          /\ m > takes => take[m].at = "none" /\ m \notin refused \union early
          /\ take[m].at # "over" => m \notin sentTakes
          /\ m \notin early /\ take[m].at = "recording" => take[m].shown
      BY DEF RecorderInv, NewTakes, ActiveHeld, Active, Live
    <2>2. m \in refused \ early =>
            /\ take[m].at = "over" \/ (take[m].at = "stopping" /\ take[m].discard)
            /\ m \notin sentTakes
      BY DEF RecorderInv, RefusedUnsent
    <2>3. m \notin early' => m \notin early /\ take[m].at \notin {"loading", "asking"}
      BY <1>1 DEF Unready
    <2>4. ~take'[m].shown /\ take'[m].at # "loading"
      BY <1>3, <2>1
    <2>5. m > takes => take'[m].at = "none" /\ m \notin refused' \union early'
      BY <1>1, <1>3, <2>1 DEF Unready
    <2>6. review' # m
      BY <1>1, TakesAssumption DEF Takes
    <2>10. take'[m].at # "over" => m \notin sentTakes
      BY <1>3, <2>1
    <2>7. m \notin early' => take'[m].at \notin {"asking", "recording"}
      BY <1>3, <2>1, <2>3
    <2>8. m \in refused' \ early' =>
            m \in refused \ early \/ (take[m].at = "recording" /\ take[m].shown)
      BY <1>1, <2>3
    <2>9. m \in refused' \ early' =>
            /\ take'[m].at = "over" \/ (take'[m].at = "stopping" /\ take'[m].discard)
            /\ m \notin sentTakes
      BY <1>3, <2>1, <2>2, <2>8
    <2> QED
      BY <2>4, <2>5, <2>6, <2>7, <2>9, <2>10
  <1> QED
    BY <1>1, <1>4, <1>5, Cleared

LEMMA RecorderNextInv == RecorderInv /\ [RecorderNext]_recorderVars => RecorderInv'
  <1> SUFFICES ASSUME RecorderInv, [RecorderNext]_recorderVars PROVE RecorderInv'
    OBVIOUS
  <1>1. CASE PointerDown \/ LongHold \/ SlideUp \/ ReleaseTap
    BY <1>1, PressStepInv
  <1>2. CASE HoldTimer
    BY <1>2, HoldTimerInv
  <1>3. CASE SlideLeft \/ ReleaseShort
    BY <1>3, GiveUpInv
  <1>4. CASE ReleaseLong
    BY <1>4, ReleaseLongInv
  <1>5. ASSUME NEW n \in Takes,
               \/ Load(n) \/ Grant(n) \/ Cap(n) \/ PressStop(n)
               \/ PressCancelTake(n) /\ take[n].at = "recording"
        PROVE  RecorderInv'
    BY <1>5, TakeStepInv
  <1>6. ASSUME NEW n \in Takes, PressCancelTake(n), take[n].at = "stopping"
        PROVE  RecorderInv'
    BY <1>6, CancelStoppingInv
  <1>7. ASSUME NEW n \in Takes, Deny(n) \/ \E empty \in BOOLEAN : OnStop(n, empty)
        PROVE  RecorderInv'
    <2>1. CASE take[n].here
      BY <1>7, <2>1, EndedHereInv
    <2>2. CASE ~take[n].here
      BY <1>7, <2>2, EndedElsewhereInv
    <2> QED
      BY <2>1, <2>2
  <1>8. CASE SendReview \/ DiscardReview
    BY <1>8, ReviewStepInv
  <1>9. CASE Edit
    BY <1>9, EditInv
  <1>10. CASE Switch
    BY <1>10, SwitchInv
  <1>11. CASE UNCHANGED recorderVars
    BY <1>11 DEF recorderVars, composer, outcome, RecorderInv, RecorderTypeOK, PressSound, NewTakes,
                 OneLive, Live, ActiveHeld, Active, Held, RefusedUnsent
  <1>12. ASSUME NEW n \in Takes, PressCancelTake(n)
         PROVE  take[n].at \in {"recording", "stopping"}
    BY <1>12 DEF PressCancelTake
  <1> QED
    BY <1>1, <1>2, <1>3, <1>4, <1>5, <1>6, <1>7, <1>8, <1>9, <1>10, <1>11, <1>12
       DEF RecorderNext

\* Recorder: a press holds the take it began, at most one recorder is on the screen
\* or on its way there, a take that may record and was not let go is held or locked,
\* and one that the user gave up is over or stops unheard.
THEOREM RecorderInvariance == RecorderSpec => []RecorderInv
  BY RecorderInitInv, RecorderNextInv, PTL DEF RecorderSpec

\* Recorder: the microphone is on only for a take that is held or locked with its
\* recorder on the screen, and no take that the user gave up is sent, but for those
\* that were let go before the microphone was granted (MessageComposer's gesture
\* against both recorders' onstop).
THEOREM RecordsOnlyHeld == RecorderSpec => []RecordsWhileHeld
  <1>1. RecorderInv => RecordsWhileHeld
    <2> SUFFICES ASSUME RecorderInv, NEW n \in Takes \ early
                 PROVE  /\ take[n].at = "recording" =>
                             take[n].shown /\ (Held(n) \/ lockedRef)
                        /\ n \in refused => n \notin sentTakes
      BY DEF RecordsWhileHeld
    <2>1. take[n].at = "recording" => take[n].shown /\ (Held(n) \/ lockedRef)
      BY DEF RecorderInv, ActiveHeld, Active, Live
    <2>2. n \in refused => n \notin sentTakes
      BY DEF RecorderInv, RefusedUnsent
    <2> QED
      BY <2>1, <2>2
  <1> QED
    BY <1>1, RecorderInvariance, PTL

-------------------------------------------------------------------------------
(* Decisions about chats.                                                   *)

USE ChatVaultAssumption

LEMMA EmptyFlags == [c \in {} |-> {}] \in ChatFlags /\ DOMAIN [c \in {} |-> {}] = {}
  <1>1. [c \in {} |-> {}] \in [{} -> SUBSET Flags]
    OBVIOUS
  <1> QED
    BY <1>1 DEF ChatFlags

LEMMA FlagsMade ==
  ASSUME NEW D \in SUBSET Chats, NEW g \in [D -> SUBSET Flags]
  PROVE  g \in ChatFlags /\ DOMAIN g = D
  BY DEF ChatFlags

LEMMA FlagsHave ==
  ASSUME NEW g \in ChatFlags
  PROVE  DOMAIN g \in SUBSET Chats /\ g \in [DOMAIN g -> SUBSET Flags]
  BY DEF ChatFlags

LEMMA PageFields ==
  ASSUME NEW p \in PageStates
  PROVE  /\ p = [at |-> p.at, flags |-> p.flags, hiddenIds |-> p.hiddenIds, marks |-> p.marks,
                 due |-> p.due]
         /\ p.at \in {"closed", "loading", "ready"} /\ p.flags \in ChatFlags
         /\ p.hiddenIds \in SUBSET Chats /\ p.marks \in SUBSET Chats /\ p.due \in BOOLEAN
         /\ p # Nothing
  BY DEF PageStates

LEMMA PageReady ==
  ASSUME NEW p \in PageStates, NEW n, n = [p EXCEPT !.at = "ready", !.due = TRUE]
  PROVE  n = [at |-> "ready", flags |-> p.flags, hiddenIds |-> p.hiddenIds, marks |-> p.marks,
              due |-> TRUE]
  BY DEF PageStates

LEMMA PageSaved ==
  ASSUME NEW p \in PageStates, NEW n, n = [p EXCEPT !.due = FALSE]
  PROVE  n = [at |-> p.at, flags |-> p.flags, hiddenIds |-> p.hiddenIds, marks |-> p.marks,
              due |-> FALSE]
  BY DEF PageStates

LEMMA PageListed ==
  ASSUME NEW p \in PageStates, NEW g, NEW d \in BOOLEAN, NEW n,
         n = [p EXCEPT !.flags = g, !.due = d]
  PROVE  n = [at |-> p.at, flags |-> g, hiddenIds |-> p.hiddenIds, marks |-> p.marks, due |-> d]
  BY DEF PageStates

LEMMA RecordFields ==
  ASSUME NEW r \in VaultRecords
  PROVE  /\ r.flags \in ChatFlags /\ r.hiddenIds = {} /\ r.marks \in SUBSET Chats
         /\ r # Nothing
  BY DEF VaultRecords

LEMMA ClosedPage ==
  /\ Closed \in PageStates /\ Closed.at = "closed" /\ DOMAIN Closed.flags = {}
  /\ Closed.hiddenIds = {} /\ Closed.marks = {} /\ ~ Closed.due
  BY EmptyFlags DEF Closed, PageStates

\* The operators of the module in these terms.
LEMMA WhatShows ==
  ASSUME NEW p \in PageStates, NEW c \in Chats, NEW f \in Flags
  PROVE  Holds(p, c, f) \/ NextLoad(p, c, f) <=> ShowsAt(p, serverHidden, c, f)
  <1> USE PageFields DEF Holds, NextLoad, ShowsAt, Flags
  <1>1. CASE f = "hidden"
    BY <1>1
  <1>2. CASE f = "archived"
    BY <1>2
  <1>3. CASE f = "marked"
    BY <1>3
  <1> QED
    BY <1>1, <1>2, <1>3

LEMMA WhatLoads ==
  ASSUME NEW r \in VaultRecords \union {Nothing}, NEW c \in Chats, NEW f \in Flags
  PROVE  NextLoad(r, c, f) <=> LoadsAt(r, serverHidden, c, f)
  <1> USE RecordFields DEF Holds, NextLoad, ShowsAt, LoadsAt, Flags
  <1>1. CASE f = "hidden"
    BY <1>1
  <1>2. CASE f = "archived"
    BY <1>2
  <1>3. CASE f = "marked"
    BY <1>3
  <1> QED
    BY <1>1, <1>2, <1>3

LEMMA SavedAll ==
  ASSUME NEW p \in PageStates, NEW r \in VaultRecords \union {Nothing},
         NEW c \in Chats, NEW f \in Flags, <<c, f>> \notin Unsaved(p, r)
  PROVE  ShowsAt(p, serverHidden, c, f) <=> LoadsAt(r, serverHidden, c, f)
  <1>1. <<c, f>> \in Chats \X Flags
    OBVIOUS
  <1>2. (Holds(p, c, f) \/ NextLoad(p, c, f)) = NextLoad(r, c, f)
    BY <1>1 DEF Unsaved
  <1> QED
    BY <1>2, WhatShows, WhatLoads

LEMMA VaultInitInv == VaultInit => VaultInv
  <1> SUFFICES ASSUME VaultInit PROVE VaultInv
    OBVIOUS
  <1>1. VaultTypeInv
    BY ClosedPage DEF VaultInit, VaultTypeInv
  <1>2. \A t \in Pages : chatPage[t] = Closed /\ answer[t] = Nothing
    BY DEF VaultInit
  <1>3. \A t \in Pages : TabSound(chatPage[t], answer[t])
    BY <1>2, ClosedPage DEF TabSound
  <1>4. \A c \in Chats, f \in Flags : Kept(c, f)
    BY <1>2, ClosedPage DEF Kept, LoadsAt, VaultInit
  <1>5. \A c \in Chats : HidingKept(c)
    BY <1>2, ClosedPage DEF HidingKept, TabHides, Patching, VaultInit
  <1> QED
    BY <1>1, <1>3, <1>4, <1>5 DEF VaultInv

\* A step of one tab keeps the invariant, if what it touches is in doubt or no other tab
\* is open, and the tab and the vault are then as the invariant wants them.
LEMMA TabMoves ==
  ASSUME VaultInv, NEW t \in Pages, NEW new \in PageStates,
         NEW found \in (SUBSET Chats) \union {Nothing},
         chatPage' = [chatPage EXCEPT ![t] = new], answer' = [answer EXCEPT ![t] = found],
         serverHidden' = serverHidden, vault' \in VaultRecords \union {Nothing},
         patches' \subseteq [chat : Chats, hidden : BOOLEAN, number : Nat], choices' \in Nat,
         TabSound(new, found),
         \A c \in Chats, f \in Flags : Known(c, f)' =>
           \/ /\ Known(c, f) /\ (<<c, f>> \in wanted' <=> <<c, f>> \in wanted)
              /\ f = "hidden" => Patching(c)' = Patching(c)
           \/ Alone(t) /\ new.due,
         \A c \in Chats, f \in Flags : Known(c, f)' =>
           /\ new.at = "ready" => (ShowsAt(new, serverHidden, c, f) <=> <<c, f>> \in wanted')
           /\ ~ new.due /\ (\A u \in Pages \ {t} : ~ chatPage[u].due) =>
                (LoadsAt(vault', serverHidden, c, f) <=> <<c, f>> \in wanted'),
         \A c \in Chats : Known(c, "hidden")' =>
           /\ Patching(c)' = {} => (c \in serverHidden <=> <<c, "hidden">> \in wanted')
           /\ \A q \in Patching(c)' : q.hidden <=> <<c, "hidden">> \in wanted'
           /\ c \in DOMAIN new.flags => ("hidden" \in new.flags[c] <=> <<c, "hidden">> \in wanted')
           /\ Patching(c)' # {} =>
                new.at \in {"closed", "ready"} /\ (new.at = "ready" => c \in DOMAIN new.flags)
           /\ found # Nothing /\ (new.at = "loading" \/ c \notin DOMAIN new.flags) =>
                (c \in found <=> <<c, "hidden">> \in wanted')
  PROVE  VaultInv'
  <1>1. VaultTypeInv'
    BY DEF VaultInv, VaultTypeInv
  <1>2. /\ chatPage'[t] = new /\ answer'[t] = found
        /\ \A u \in Pages \ {t} : chatPage'[u] = chatPage[u] /\ answer'[u] = answer[u]
    BY DEF VaultInv, VaultTypeInv
  <1>3. \A u \in Pages : TabSound(chatPage'[u], answer'[u])
    BY <1>2 DEF VaultInv
  <1>4. Alone(t) => \A u \in Pages \ {t} : chatPage[u] = Closed /\ answer[u] = Nothing
    BY DEF Alone, VaultInv, TabSound
  <1>5. ASSUME NEW c \in Chats, NEW f \in Flags, Known(c, f)'
        PROVE  Kept(c, f)'
    <2>1. ASSUME NEW u \in Pages, chatPage'[u].at = "ready"
          PROVE  ShowsAt(chatPage'[u], serverHidden, c, f) <=> <<c, f>> \in wanted'
      <3>1. CASE u = t
        BY <1>2, <1>5, <2>1, <3>1
      <3>2. CASE u # t /\ Alone(t)
        BY <1>2, <1>4, <2>1, <3>2, ClosedPage
      <3>3. CASE u # t /\ ~ Alone(t)
        BY <1>2, <1>5, <2>1, <3>3 DEF VaultInv, Kept
      <3> QED
        BY <3>1, <3>2, <3>3
    <2>2. ASSUME \A u \in Pages : ~ chatPage'[u].due
          PROVE  LoadsAt(vault', serverHidden, c, f) <=> <<c, f>> \in wanted'
      BY <1>2, <1>5, <2>2
    <2> QED
      BY <2>1, <2>2 DEF Kept
  <1>6. ASSUME NEW c \in Chats, Known(c, "hidden")'
        PROVE  HidingKept(c)'
    <2>1. ASSUME NEW u \in Pages
          PROVE  TabHides(chatPage[u], answer[u], c)'
      <3>1. CASE u = t
        BY <1>2, <1>6, <3>1 DEF TabHides
      <3>2. CASE u # t /\ Alone(t)
        BY <1>2, <1>4, <3>2, ClosedPage DEF TabHides
      <3>3. CASE u # t /\ ~ Alone(t)
        <4>1. /\ Known(c, "hidden") /\ Patching(c)' = Patching(c)
              /\ <<c, "hidden">> \in wanted' <=> <<c, "hidden">> \in wanted
          BY <1>6, <3>3 DEF Flags
        <4>2. TabHides(chatPage[u], answer[u], c)
          BY <4>1 DEF VaultInv, HidingKept
        <4> QED
          BY <1>2, <3>3, <4>1, <4>2 DEF TabHides
      <3> QED
        BY <3>1, <3>2, <3>3
    <2> QED
      BY <1>6, <2>1 DEF HidingKept
  <1> QED
    BY <1>1, <1>3, <1>5, <1>6 DEF VaultInv

\* The same, if nothing is decided.
LEMMA TabGoesOn ==
  ASSUME VaultInv, NEW t \in Pages, NEW new \in PageStates,
         NEW found \in (SUBSET Chats) \union {Nothing},
         chatPage' = [chatPage EXCEPT ![t] = new], answer' = [answer EXCEPT ![t] = found],
         UNCHANGED <<remote, wanted, choices>>, vault' \in VaultRecords \union {Nothing},
         unsure \subseteq unsure', TabSound(new, found),
         \A c \in Chats, f \in Flags : Known(c, f)' =>
           /\ new.at = "ready" => (ShowsAt(new, serverHidden, c, f) <=> <<c, f>> \in wanted)
           /\ ~ new.due /\ (\A u \in Pages \ {t} : ~ chatPage[u].due) =>
                (LoadsAt(vault', serverHidden, c, f) <=> <<c, f>> \in wanted),
         \A c \in Chats : Known(c, "hidden")' => TabHides(new, found, c)
  PROVE  VaultInv'
  <1>1. /\ serverHidden' = serverHidden /\ patches' = patches /\ wanted' = wanted
        /\ choices' = choices
    BY DEF remote
  <1>2. /\ patches' \subseteq [chat : Chats, hidden : BOOLEAN, number : Nat]
        /\ choices' \in Nat
    BY <1>1 DEF VaultInv, VaultTypeInv
  <1>3. \A c \in Chats : Patching(c)' = Patching(c)
    BY <1>1 DEF Patching
  <1>4. \A c \in Chats, f \in Flags : Known(c, f)' => Known(c, f)
    BY DEF Known
  <1>5. \A c \in Chats : Known(c, "hidden")' => HidingKept(c)
    BY <1>4 DEF VaultInv, Flags
  <1>6. \A c \in Chats : Known(c, "hidden")' =>
          /\ Patching(c)' = {} => (c \in serverHidden <=> <<c, "hidden">> \in wanted')
          /\ \A q \in Patching(c)' : q.hidden <=> <<c, "hidden">> \in wanted'
    BY <1>1, <1>3, <1>5 DEF HidingKept
  <1>7. \A c \in Chats : Known(c, "hidden")' =>
          /\ c \in DOMAIN new.flags => ("hidden" \in new.flags[c] <=> <<c, "hidden">> \in wanted')
          /\ Patching(c)' # {} =>
               new.at \in {"closed", "ready"} /\ (new.at = "ready" => c \in DOMAIN new.flags)
          /\ found # Nothing /\ (new.at = "loading" \/ c \notin DOMAIN new.flags) =>
               (c \in found <=> <<c, "hidden">> \in wanted')
    BY <1>1, <1>3 DEF TabHides
  <1>8. \A c \in Chats, f \in Flags : Known(c, f)' =>
           \/ /\ Known(c, f) /\ (<<c, f>> \in wanted' <=> <<c, f>> \in wanted)
              /\ f = "hidden" => Patching(c)' = Patching(c)
           \/ Alone(t) /\ new.due
    BY <1>1, <1>3, <1>4
  <1>9. \A c \in Chats, f \in Flags : Known(c, f)' =>
           /\ new.at = "ready" => (ShowsAt(new, serverHidden, c, f) <=> <<c, f>> \in wanted')
           /\ ~ new.due /\ (\A u \in Pages \ {t} : ~ chatPage[u].due) =>
                (LoadsAt(vault', serverHidden, c, f) <=> <<c, f>> \in wanted')
    BY <1>1
  <1>10. \A c \in Chats : Known(c, "hidden")' =>
           /\ Patching(c)' = {} => (c \in serverHidden <=> <<c, "hidden">> \in wanted')
           /\ \A q \in Patching(c)' : q.hidden <=> <<c, "hidden">> \in wanted'
           /\ c \in DOMAIN new.flags => ("hidden" \in new.flags[c] <=> <<c, "hidden">> \in wanted')
           /\ Patching(c)' # {} =>
                new.at \in {"closed", "ready"} /\ (new.at = "ready" => c \in DOMAIN new.flags)
           /\ found # Nothing /\ (new.at = "loading" \/ c \notin DOMAIN new.flags) =>
                (c \in found <=> <<c, "hidden">> \in wanted')
    BY <1>6, <1>7
  <1>11. serverHidden' = serverHidden
    BY <1>1
  <1> QED
    BY <1>2, <1>8, <1>9, <1>10, <1>11, TabMoves

\* What the invariant says of one decision.
LEMMA KnownFacts ==
  ASSUME VaultInv, NEW t \in Pages
  PROVE  /\ chatPage[t] \in PageStates /\ answer[t] \in (SUBSET Chats) \union {Nothing}
         /\ TabSound(chatPage[t], answer[t])
         /\ chatPage[t].due => chatPage[t].at = "ready"
         /\ \A c \in Chats, f \in Flags : Known(c, f) =>
              /\ Kept(c, f)
              /\ f = "hidden" => HidingKept(c) /\ TabHides(chatPage[t], answer[t], c)
  BY PageFields, ClosedPage DEF VaultInv, VaultTypeInv, TabSound, HidingKept

\* A tab that is opened or loads the vault finds there what was decided, unless another
\* tab has yet to save it and the code then loses it.
LEMMA VaultRight ==
  ASSUME VaultInv, NEW c \in Chats, NEW f \in Flags, Known(c, f),
         \A u \in Pages : chatPage[u].due => <<c, f>> \notin Unsaved(chatPage[u], vault)
  PROVE  LoadsAt(vault, serverHidden, c, f) <=> <<c, f>> \in wanted
  <1>1. CASE \A u \in Pages : ~ chatPage[u].due
    BY <1>1 DEF VaultInv, Kept
  <1>2. ASSUME NEW u \in Pages, chatPage[u].due
        PROVE  LoadsAt(vault, serverHidden, c, f) <=> <<c, f>> \in wanted
    <2>1. chatPage[u] \in PageStates /\ chatPage[u].at = "ready" /\ Kept(c, f)
      BY <1>2, KnownFacts
    <2>2. ShowsAt(chatPage[u], serverHidden, c, f) <=> LoadsAt(vault, serverHidden, c, f)
      BY <1>2, <2>1, SavedAll DEF VaultInv, VaultTypeInv
    <2> QED
      BY <2>1, <2>2 DEF Kept
  <1> QED
    BY <1>1, <1>2

LEMMA OpenTabInv ==
  ASSUME VaultInv, NEW t \in Pages, OpenTab(t)
  PROVE  VaultInv'
  <1> DEFINE new == [Closed EXCEPT !.at = "loading"]
  <1>1. chatPage[t] = Closed /\ answer[t] = Nothing /\ chatPage \in [Pages -> PageStates]
        /\ answer \in [Pages -> (SUBSET Chats) \union {Nothing}]
    BY DEF VaultInv, VaultTypeInv, OpenTab, TabSound
  <1>2. /\ new \in PageStates /\ new.at = "loading" /\ DOMAIN new.flags = {}
        /\ new.hiddenIds = {} /\ new.marks = {} /\ ~ new.due
    BY EmptyFlags DEF Closed, PageStates
  <1>3. chatPage' = [chatPage EXCEPT ![t] = new] /\ answer' = [answer EXCEPT ![t] = Nothing]
    BY <1>1 DEF OpenTab
  <1>4. TabSound(new, Nothing)
    BY <1>2 DEF TabSound
  <1>5. /\ unsure \subseteq unsure' /\ UNCHANGED <<remote, wanted, choices>> /\ vault' = vault
        /\ vault \in VaultRecords \union {Nothing}
    BY DEF OpenTab, VaultInv, VaultTypeInv
  <1>6. \A c \in Chats : Known(c, "hidden")' => TabHides(new, Nothing, c)
    <2> SUFFICES ASSUME NEW c \in Chats, Known(c, "hidden")' PROVE Patching(c) = {}
      BY <1>2 DEF TabHides
    <2> QED
      BY DEF OpenTab, Known, Patching
  <1>7. \A c \in Chats, f \in Flags : Known(c, f)' =>
           /\ new.at = "ready" => (ShowsAt(new, serverHidden, c, f) <=> <<c, f>> \in wanted)
           /\ ~ new.due /\ (\A u \in Pages \ {t} : ~ chatPage[u].due) =>
                (LoadsAt(vault', serverHidden, c, f) <=> <<c, f>> \in wanted)
    BY <1>1, <1>2, <1>5, ClosedPage DEF VaultInv, Kept, Known
  <1> HIDE DEF new
  <1> QED
    BY <1>2, <1>3, <1>4, <1>5, <1>6, <1>7, TabGoesOn

\* A tab that is loading shows what the server hides, of chats not in doubt.
LEMMA LoadingShows ==
  ASSUME VaultInv, NEW t \in Pages, chatPage[t].at = "loading", NEW c \in Chats,
         Known(c, "hidden")
  PROVE  /\ Patching(c) = {} /\ (c \in serverHidden <=> <<c, "hidden">> \in wanted)
         /\ c \in DOMAIN chatPage[t].flags =>
              ("hidden" \in chatPage[t].flags[c] <=> <<c, "hidden">> \in wanted)
  <1>1. HidingKept(c) /\ TabHides(chatPage[t], answer[t], c)
    BY KnownFacts DEF Flags
  <1> QED
    BY <1>1 DEF HidingKept, TabHides

LEMMA LoadVaultInv ==
  ASSUME VaultInv, NEW t \in Pages, LoadVault(t)
  PROVE  VaultInv'
  <1> DEFINE p == chatPage[t]
             new == IF vault = Nothing
                    THEN [at |-> "ready", flags |-> p.flags, hiddenIds |-> {}, marks |-> {},
                          due |-> TRUE]
                    ELSE [at |-> "ready", flags |-> vault.flags,
                          hiddenIds |-> {c \in DOMAIN vault.flags : "hidden" \in vault.flags[c]},
                          marks |-> vault.marks, due |-> TRUE]
  <1>1. /\ p \in PageStates /\ TabSound(p, answer[t]) /\ p.at = "loading"
        /\ chatPage \in [Pages -> PageStates] /\ vault \in VaultRecords \union {Nothing}
        /\ answer \in [Pages -> (SUBSET Chats) \union {Nothing}]
    BY DEF VaultInv, VaultTypeInv, LoadVault
  <1>2. p.marks = {} /\ p.hiddenIds = {} /\ (\A c \in DOMAIN p.flags : p.flags[c] \subseteq {"hidden"})
    BY <1>1 DEF TabSound
  <1>3. new \in PageStates /\ new.at = "ready" /\ new.due
    <2>1. CASE vault = Nothing
      BY <1>1, <2>1, PageFields DEF PageStates
    <2>2. CASE vault # Nothing
      <3>1. vault.flags \in ChatFlags /\ vault.marks \in SUBSET Chats
        BY <1>1, <2>2, RecordFields
      <3>2. {c \in DOMAIN vault.flags : "hidden" \in vault.flags[c]} \in SUBSET Chats
        BY <3>1, FlagsHave
      <3> QED
        BY <2>2, <3>1, <3>2 DEF PageStates
    <2> QED
      BY <2>1, <2>2
  <1>4. chatPage' = [chatPage EXCEPT ![t] = new]
    <2>1. CASE vault = Nothing
      <3>1. PICK n : n = [p EXCEPT !.at = "ready", !.due = TRUE]
        OBVIOUS
      <3>2. n = [at |-> "ready", flags |-> p.flags, hiddenIds |-> p.hiddenIds,
                 marks |-> p.marks, due |-> TRUE]
        BY <1>1, <3>1, PageReady
      <3>3. n = new
        BY <1>2, <2>1, <3>2
      <3> QED
        BY <2>1, <3>1, <3>3 DEF LoadVault
    <2>2. CASE vault # Nothing
      BY <2>2 DEF LoadVault
    <2> QED
      BY <2>1, <2>2
  <1>5. answer' = [answer EXCEPT ![t] = answer[t]] /\ answer[t] \in (SUBSET Chats) \union {Nothing}
    BY <1>1 DEF LoadVault
  <1>6. TabSound(new, answer[t])
    BY <1>3 DEF TabSound
  <1>7. UNCHANGED <<remote, wanted, choices>> /\ vault' = vault /\ unsure \subseteq unsure'
    BY DEF LoadVault
  <1>8. ASSUME NEW c \in Chats, NEW f \in Flags, Known(c, f)'
        PROVE  /\ Known(c, f)
               /\ LoadsAt(vault, serverHidden, c, f) <=> <<c, f>> \in wanted
    <2>1. \A u \in Pages : chatPage[u].due => <<c, f>> \notin Unsaved(chatPage[u], vault)
      BY <1>8 DEF LoadVault, Known
    <2>2. Known(c, f)
      BY <1>7, <1>8 DEF Known
    <2> QED
      BY <2>1, <2>2, VaultRight
  <1>9. ASSUME NEW c \in Chats, Known(c, "hidden")'
        PROVE  /\ c \in DOMAIN new.flags => ("hidden" \in new.flags[c] <=> <<c, "hidden">> \in wanted)
               /\ Patching(c) = {} /\ (c \in serverHidden <=> <<c, "hidden">> \in wanted)
    <2>1. Known(c, "hidden") /\ (LoadsAt(vault, serverHidden, c, "hidden") <=> <<c, "hidden">> \in wanted)
      BY <1>8, <1>9 DEF Flags
    <2>2. /\ Patching(c) = {} /\ (c \in serverHidden <=> <<c, "hidden">> \in wanted)
          /\ c \in DOMAIN p.flags => ("hidden" \in p.flags[c] <=> <<c, "hidden">> \in wanted)
      BY <1>1, <2>1, LoadingShows
    <2>3. vault # Nothing => vault.hiddenIds = {}
      BY <1>1, RecordFields
    <2> QED
      BY <2>1, <2>2, <2>3 DEF LoadsAt, ShowsAt
  <1>10. ASSUME NEW c \in Chats, NEW f \in Flags, Known(c, f)'
         PROVE  ShowsAt(new, serverHidden, c, f) <=> <<c, f>> \in wanted
    <2>1. LoadsAt(vault, serverHidden, c, f) <=> <<c, f>> \in wanted
      BY <1>8, <1>10
    <2>2. CASE f = "hidden"
      <3>1. /\ c \in DOMAIN new.flags => ("hidden" \in new.flags[c] <=> <<c, "hidden">> \in wanted)
            /\ c \in serverHidden <=> <<c, "hidden">> \in wanted
        BY <1>9, <1>10, <2>2
      <3>2. c \in new.hiddenIds => c \in DOMAIN new.flags /\ "hidden" \in new.flags[c]
        OBVIOUS
      <3> HIDE DEF new
      <3> QED
        BY <2>2, <3>1, <3>2 DEF ShowsAt
    <2>3. CASE f # "hidden"
      <3>1. CASE vault = Nothing
        BY <1>2, <2>1, <2>3, <3>1 DEF ShowsAt, LoadsAt, Flags
      <3>2. CASE vault # Nothing
        BY <2>1, <2>3, <3>2 DEF ShowsAt, LoadsAt, Flags
      <3> QED
        BY <3>1, <3>2
    <2> QED
      BY <2>2, <2>3
  <1>11. \A c \in Chats : Known(c, "hidden")' => TabHides(new, answer[t], c)
    <2> SUFFICES ASSUME NEW c \in Chats, Known(c, "hidden")',
                        answer[t] # Nothing, c \notin DOMAIN new.flags
                 PROVE  c \in answer[t] <=> <<c, "hidden">> \in wanted
      BY <1>3, <1>9 DEF TabHides
    <2>1. Known(c, "hidden")
      BY <1>8 DEF Flags
    <2>2. TabHides(p, answer[t], c)
      BY <2>1, KnownFacts DEF Flags
    <2> QED
      BY <1>1, <2>2 DEF TabHides
  <1> HIDE DEF new
  <1>12. \A c \in Chats, f \in Flags : Known(c, f)' =>
           /\ new.at = "ready" => (ShowsAt(new, serverHidden, c, f) <=> <<c, f>> \in wanted)
           /\ ~ new.due /\ (\A u \in Pages \ {t} : ~ chatPage[u].due) =>
                (LoadsAt(vault', serverHidden, c, f) <=> <<c, f>> \in wanted)
    BY <1>3, <1>10
  <1>13. vault' \in VaultRecords \union {Nothing}
    BY <1>1, <1>7
  <1> QED
    BY <1>3, <1>4, <1>5, <1>6, <1>7, <1>11, <1>12, <1>13, TabGoesOn

LEMMA VaultUnreadableInv ==
  ASSUME VaultInv, NEW t \in Pages, VaultUnreadable(t)
  PROVE  VaultInv'
  <1> DEFINE p == chatPage[t]
             new == [at |-> "ready", flags |-> p.flags, hiddenIds |-> p.hiddenIds,
                     marks |-> p.marks, due |-> TRUE]
  <1>1. /\ p \in PageStates /\ TabSound(p, answer[t]) /\ p.at = "loading"
        /\ chatPage \in [Pages -> PageStates] /\ vault \in VaultRecords \union {Nothing}
        /\ answer \in [Pages -> (SUBSET Chats) \union {Nothing}]
    BY DEF VaultInv, VaultTypeInv, VaultUnreadable
  <1>2. new \in PageStates
    BY <1>1, PageFields DEF PageStates
  <1>3. chatPage' = [chatPage EXCEPT ![t] = new]
    <2>1. PICK n : n = [p EXCEPT !.at = "ready", !.due = TRUE]
      OBVIOUS
    <2>2. n = new
      BY <1>1, <2>1, PageReady
    <2> QED
      BY <2>1, <2>2 DEF VaultUnreadable
  <1>4. answer' = [answer EXCEPT ![t] = answer[t]] /\ answer[t] \in (SUBSET Chats) \union {Nothing}
    BY <1>1 DEF VaultUnreadable
  <1>5. TabSound(new, answer[t])
    BY DEF TabSound
  <1>6. /\ UNCHANGED <<remote, wanted, choices>> /\ vault' = vault
        /\ unsure' = unsure \union (Chats \X {"archived", "marked"})
    BY DEF VaultUnreadable
  <1>7. \A c \in Chats, f \in Flags : Known(c, f)' => Known(c, f) /\ f = "hidden"
    BY <1>6 DEF Known, Flags
  <1>8. \A c \in Chats : Known(c, "hidden")' =>
          /\ c \in DOMAIN p.flags => ("hidden" \in p.flags[c] <=> <<c, "hidden">> \in wanted)
          /\ Patching(c) = {} /\ (c \in serverHidden <=> <<c, "hidden">> \in wanted)
          /\ TabHides(p, answer[t], c)
    BY <1>1, <1>7, LoadingShows, KnownFacts DEF Flags
  <1>9. \A c \in Chats, f \in Flags : Known(c, f)' =>
          (ShowsAt(new, serverHidden, c, f) <=> <<c, f>> \in wanted)
    BY <1>1, <1>7, <1>8 DEF ShowsAt, TabSound
  <1>10. \A c \in Chats : Known(c, "hidden")' => TabHides(new, answer[t], c)
    BY <1>1, <1>8 DEF TabHides
  <1>11. new.due /\ vault' \in VaultRecords \union {Nothing} /\ unsure \subseteq unsure'
    BY <1>1, <1>6
  <1> HIDE DEF new
  <1>12. \A c \in Chats, f \in Flags : Known(c, f)' =>
           /\ new.at = "ready" => (ShowsAt(new, serverHidden, c, f) <=> <<c, f>> \in wanted)
           /\ ~ new.due /\ (\A u \in Pages \ {t} : ~ chatPage[u].due) =>
                (LoadsAt(vault', serverHidden, c, f) <=> <<c, f>> \in wanted)
    BY <1>9, <1>11
  <1> QED
    BY <1>2, <1>3, <1>4, <1>5, <1>6, <1>10, <1>11, <1>12, TabGoesOn

LEMMA SaveVaultInv ==
  ASSUME VaultInv, NEW t \in Pages, SaveVault(t)
  PROVE  VaultInv'
  <1> DEFINE p == chatPage[t]
             new == [at |-> p.at, flags |-> p.flags, hiddenIds |-> p.hiddenIds,
                     marks |-> p.marks, due |-> FALSE]
  <1>1. /\ p \in PageStates /\ TabSound(p, answer[t]) /\ p.at = "ready"
        /\ chatPage \in [Pages -> PageStates]
        /\ answer \in [Pages -> (SUBSET Chats) \union {Nothing}]
    BY KnownFacts DEF VaultInv, VaultTypeInv, SaveVault
  <1>2. new \in PageStates
    BY <1>1, PageFields DEF PageStates
  <1>3. chatPage' = [chatPage EXCEPT ![t] = new]
    <2>1. PICK n : n = [p EXCEPT !.due = FALSE]
      OBVIOUS
    <2>2. n = new
      BY <1>1, <2>1, PageSaved
    <2>3. chatPage' = [chatPage EXCEPT ![t] = n]
      BY <2>1 DEF SaveVault
    <2> QED
      BY <2>2, <2>3
  <1>4. answer' = [answer EXCEPT ![t] = answer[t]] /\ answer[t] \in (SUBSET Chats) \union {Nothing}
    BY <1>1 DEF SaveVault
  <1>5. TabSound(new, answer[t])
    BY <1>1 DEF TabSound
  <1>6. /\ UNCHANGED <<remote, wanted, choices>> /\ unsure' = unsure
        /\ vault' = [flags |-> p.flags, marks |-> p.marks, hiddenIds |-> {}]
    BY DEF SaveVault, judged
  <1>7. vault' \in VaultRecords
    BY <1>1, <1>6, PageFields DEF VaultRecords
  <1>8. \A c \in Chats, f \in Flags : Known(c, f)' =>
          /\ Kept(c, f)
          /\ f = "hidden" => HidingKept(c) /\ TabHides(p, answer[t], c)
    BY <1>6, KnownFacts DEF Known
  <1>9. ASSUME NEW c \in Chats, NEW f \in Flags, Known(c, f)'
        PROVE  /\ ShowsAt(new, serverHidden, c, f) <=> <<c, f>> \in wanted
               /\ LoadsAt(vault', serverHidden, c, f) <=> <<c, f>> \in wanted
    <2>1. ShowsAt(p, serverHidden, c, f) <=> <<c, f>> \in wanted
      BY <1>1, <1>8, <1>9 DEF Kept
    <2>2. LoadsAt(vault', serverHidden, c, f) <=> ShowsAt(vault', serverHidden, c, f)
      BY <1>7, RecordFields DEF LoadsAt
    <2>3. CASE f # "hidden"
      BY <1>6, <2>1, <2>2, <2>3 DEF ShowsAt, Flags
    <2>4. CASE f = "hidden"
      <3>1. HidingKept(c) /\ TabHides(p, answer[t], c)
        BY <1>8, <1>9, <2>4
      <3>2. c \notin DOMAIN p.flags => (c \in serverHidden <=> <<c, "hidden">> \in wanted)
        BY <1>1, <3>1 DEF HidingKept, TabHides
      <3>3. c \in DOMAIN p.flags => ("hidden" \in p.flags[c] <=> <<c, "hidden">> \in wanted)
        BY <3>1 DEF TabHides
      <3> QED
        BY <1>6, <2>1, <2>2, <2>4, <3>2, <3>3 DEF ShowsAt
    <2> QED
      BY <2>3, <2>4
  <1>10. \A c \in Chats : Known(c, "hidden")' => TabHides(new, answer[t], c)
    BY <1>8 DEF TabHides, Flags
  <1> HIDE DEF new
  <1>11. unsure \subseteq unsure' /\ vault' \in VaultRecords \union {Nothing}
    BY <1>6, <1>7
  <1> QED
    BY <1>2, <1>3, <1>4, <1>5, <1>6, <1>9, <1>10, <1>11, TabGoesOn

\* A tab with decisions to save goes: those the record lacks are in doubt from then on.
LEMMA UnsavedInDoubt ==
  ASSUME VaultInv, NEW t \in Pages, chatPage[t].at = "ready",
         NEW r \in VaultRecords \union {Nothing}, NEW c \in Chats, NEW f \in Flags,
         Known(c, f), <<c, f>> \notin Unsaved(chatPage[t], r)
  PROVE  LoadsAt(r, serverHidden, c, f) <=> <<c, f>> \in wanted
  <1>1. chatPage[t] \in PageStates /\ Kept(c, f)
    BY KnownFacts
  <1>2. ShowsAt(chatPage[t], serverHidden, c, f) <=> LoadsAt(r, serverHidden, c, f)
    BY <1>1, SavedAll
  <1> QED
    BY <1>1, <1>2 DEF Kept

LEMMA SaveFailsInv ==
  ASSUME VaultInv, NEW t \in Pages, SaveFails(t)
  PROVE  VaultInv'
  <1> DEFINE p == chatPage[t]
             new == [at |-> p.at, flags |-> p.flags, hiddenIds |-> p.hiddenIds,
                     marks |-> p.marks, due |-> FALSE]
  <1>1. /\ p \in PageStates /\ TabSound(p, answer[t]) /\ p.at = "ready"
        /\ chatPage \in [Pages -> PageStates] /\ vault \in VaultRecords \union {Nothing}
        /\ answer \in [Pages -> (SUBSET Chats) \union {Nothing}]
    BY KnownFacts DEF VaultInv, VaultTypeInv, SaveFails
  <1>2. new \in PageStates
    BY <1>1, PageFields DEF PageStates
  <1>3. chatPage' = [chatPage EXCEPT ![t] = new]
    <2>1. PICK n : n = [p EXCEPT !.due = FALSE]
      OBVIOUS
    <2>2. n = new
      BY <1>1, <2>1, PageSaved
    <2>3. chatPage' = [chatPage EXCEPT ![t] = n]
      BY <2>1 DEF SaveFails
    <2> QED
      BY <2>2, <2>3
  <1>4. answer' = [answer EXCEPT ![t] = answer[t]] /\ answer[t] \in (SUBSET Chats) \union {Nothing}
    BY <1>1 DEF SaveFails
  <1>5. TabSound(new, answer[t])
    BY <1>1 DEF TabSound
  <1>6. /\ UNCHANGED <<remote, wanted, choices>> /\ vault' = vault
        /\ unsure' = unsure \union Unsaved(p, vault)
    BY DEF SaveFails
  <1>7. \A c \in Chats, f \in Flags : Known(c, f)' =>
          /\ Known(c, f) /\ <<c, f>> \notin Unsaved(p, vault)
          /\ Kept(c, f) /\ (f = "hidden" => TabHides(p, answer[t], c))
    BY <1>6, KnownFacts DEF Known
  <1>8. \A c \in Chats, f \in Flags : Known(c, f)' =>
          /\ ShowsAt(p, serverHidden, c, f) <=> <<c, f>> \in wanted
          /\ LoadsAt(vault, serverHidden, c, f) <=> <<c, f>> \in wanted
    BY <1>1, <1>7, UnsavedInDoubt DEF Kept
  <1>9. \A c \in Chats, f \in Flags :
          ShowsAt(new, serverHidden, c, f) <=> ShowsAt(p, serverHidden, c, f)
    BY DEF ShowsAt
  <1>10. \A c \in Chats : Known(c, "hidden")' => TabHides(new, answer[t], c)
    BY <1>7 DEF TabHides, Flags
  <1> HIDE DEF new
  <1>11. \A c \in Chats, f \in Flags : Known(c, f)' =>
           /\ new.at = "ready" => (ShowsAt(new, serverHidden, c, f) <=> <<c, f>> \in wanted)
           /\ ~ new.due /\ (\A u \in Pages \ {t} : ~ chatPage[u].due) =>
                (LoadsAt(vault', serverHidden, c, f) <=> <<c, f>> \in wanted)
    BY <1>6, <1>8, <1>9
  <1>12. unsure \subseteq unsure' /\ vault' \in VaultRecords \union {Nothing}
    BY <1>1, <1>6
  <1> QED
    BY <1>2, <1>3, <1>4, <1>5, <1>6, <1>10, <1>11, <1>12, TabGoesOn

LEMMA LeaveTabInv ==
  ASSUME VaultInv, NEW t \in Pages, NEW r \in VaultRecords \union {Nothing}, LeaveTab(t, r),
         r # vault => chatPage[t].at = "ready"
  PROVE  VaultInv'
  <1> DEFINE p == chatPage[t]
  <1>1. /\ p \in PageStates /\ (p.due => p.at = "ready")
        /\ chatPage \in [Pages -> PageStates]
        /\ answer \in [Pages -> (SUBSET Chats) \union {Nothing}]
    BY KnownFacts DEF VaultInv, VaultTypeInv
  <1>2. chatPage' = [chatPage EXCEPT ![t] = Closed] /\ answer' = [answer EXCEPT ![t] = Nothing]
    BY DEF LeaveTab
  <1>3. TabSound(Closed, Nothing)
    BY ClosedPage DEF TabSound
  <1>4. /\ UNCHANGED <<remote, wanted, choices>> /\ vault' = r /\ unsure \subseteq unsure'
        /\ p.due \/ r # vault => unsure' = unsure \union Unsaved(p, r)
    BY DEF LeaveTab
  <1>5. \A c \in Chats, f \in Flags : Known(c, f)' => Known(c, f) /\ Kept(c, f)
    BY <1>4, KnownFacts DEF Known
  <1>6. ASSUME NEW c \in Chats, NEW f \in Flags, Known(c, f)',
               \A u \in Pages \ {t} : ~ chatPage[u].due
        PROVE  LoadsAt(r, serverHidden, c, f) <=> <<c, f>> \in wanted
    <2>1. CASE p.due \/ r # vault
      <3>1. Known(c, f) /\ <<c, f>> \notin Unsaved(p, r) /\ p.at = "ready"
        BY <1>1, <1>4, <1>6, <2>1 DEF Known
      <3> QED
        BY <3>1, UnsavedInDoubt
    <2>2. CASE ~ p.due /\ r = vault
      BY <1>5, <1>6, <2>2 DEF Kept
    <2> QED
      BY <2>1, <2>2
  <1>7. \A c \in Chats, f \in Flags : Known(c, f)' =>
           /\ Closed.at = "ready" => (ShowsAt(Closed, serverHidden, c, f) <=> <<c, f>> \in wanted)
           /\ ~ Closed.due /\ (\A u \in Pages \ {t} : ~ chatPage[u].due) =>
                (LoadsAt(vault', serverHidden, c, f) <=> <<c, f>> \in wanted)
    BY <1>4, <1>6, ClosedPage
  <1>8. \A c \in Chats : Known(c, "hidden")' => TabHides(Closed, Nothing, c)
    BY ClosedPage DEF TabHides
  <1>9. vault' \in VaultRecords \union {Nothing} /\ Closed \in PageStates
    BY <1>4, ClosedPage
  <1> QED
    BY <1>2, <1>3, <1>4, <1>7, <1>8, <1>9, TabGoesOn

\* What a page gains from a list: the chats that are new to it.
LEMMA MergedFlags ==
  ASSUME NEW p \in PageStates, NEW h \in SUBSET Chats
  PROVE  /\ Merged(p, h) \in [Chats -> SUBSET Flags] /\ Merged(p, h) \in ChatFlags
         /\ DOMAIN Merged(p, h) = Chats
         /\ \A c \in Chats :
              Merged(p, h)[c] = IF c \in DOMAIN p.flags THEN p.flags[c]
                                ELSE IF c \in h THEN {"hidden"} ELSE {}
  <1>1. p.flags \in [DOMAIN p.flags -> SUBSET Flags]
    BY PageFields, FlagsHave
  <1>2. Merged(p, h) \in [Chats -> SUBSET Flags]
    BY <1>1 DEF Merged, Flags
  <1> QED
    BY <1>2, FlagsMade DEF Merged

LEMMA AskListInv ==
  ASSUME VaultInv, NEW t \in Pages, AskList(t)
  PROVE  VaultInv'
  <1> DEFINE p == chatPage[t]
  <1>1. /\ p \in PageStates /\ TabSound(p, answer[t])
        /\ chatPage \in [Pages -> PageStates] /\ vault \in VaultRecords \union {Nothing}
        /\ serverHidden \in SUBSET Chats
    BY DEF VaultInv, VaultTypeInv
  <1>2. chatPage' = [chatPage EXCEPT ![t] = p] /\ answer' = [answer EXCEPT ![t] = serverHidden]
    BY <1>1 DEF AskList
  <1>3. TabSound(p, serverHidden)
    BY <1>1 DEF TabSound, AskList
  <1>4. UNCHANGED <<remote, wanted, choices>> /\ vault' = vault /\ unsure' = unsure
    BY DEF AskList, judged
  <1>5. \A c \in Chats, f \in Flags : Known(c, f)' =>
          /\ Kept(c, f)
          /\ f = "hidden" => HidingKept(c) /\ TabHides(p, answer[t], c)
    BY <1>4, KnownFacts DEF Known
  <1>6. \A c \in Chats : Known(c, "hidden")' => TabHides(p, serverHidden, c)
    <2> SUFFICES ASSUME NEW c \in Chats, Known(c, "hidden")' PROVE TabHides(p, serverHidden, c)
      OBVIOUS
    <2>1. HidingKept(c) /\ TabHides(p, answer[t], c)
      BY <1>5 DEF Flags
    <2> QED
      BY <1>1, <2>1, PageFields DEF HidingKept, TabHides, AskList
  <1>7. \A c \in Chats, f \in Flags : Known(c, f)' =>
           /\ p.at = "ready" => (ShowsAt(p, serverHidden, c, f) <=> <<c, f>> \in wanted)
           /\ ~ p.due /\ (\A u \in Pages \ {t} : ~ chatPage[u].due) =>
                (LoadsAt(vault', serverHidden, c, f) <=> <<c, f>> \in wanted)
    BY <1>4, <1>5 DEF Kept
  <1> HIDE DEF p
  <1>8. unsure \subseteq unsure' /\ vault' \in VaultRecords \union {Nothing}
    BY <1>1, <1>4
  <1> QED
    BY <1>1, <1>2, <1>3, <1>4, <1>6, <1>7, <1>8, TabGoesOn

\* A list that agrees with the decisions on the chats new to the tab.
LEMMA PublishInv ==
  ASSUME VaultInv, NEW t \in Pages, chatPage[t].at # "closed", NEW h \in SUBSET Chats,
         Publish(t, h), NEW found \in (SUBSET Chats) \union {Nothing},
         answer' = [answer EXCEPT ![t] = found], found \in {Nothing, answer[t]},
         UNCHANGED <<remote, vault, wanted, choices>>, unsure \subseteq unsure',
         \A c \in Chats : Known(c, "hidden")' /\ c \notin DOMAIN chatPage[t].flags =>
           (c \in h <=> <<c, "hidden">> \in wanted)
  PROVE  VaultInv'
  <1> DEFINE p == chatPage[t]
             new == [at |-> p.at, flags |-> Merged(p, h), hiddenIds |-> p.hiddenIds,
                     marks |-> p.marks, due |-> (p.at = "ready")]
  <1>1. /\ p \in PageStates /\ TabSound(p, answer[t])
        /\ chatPage \in [Pages -> PageStates] /\ vault \in VaultRecords \union {Nothing}
    BY DEF VaultInv, VaultTypeInv
  <1>2. new \in PageStates
    BY <1>1, PageFields, MergedFlags DEF PageStates
  <1>3. chatPage' = [chatPage EXCEPT ![t] = new]
    <2>1. PICK g : g = Merged(p, h)
      OBVIOUS
    <2>2. CASE p.at = "ready"
      <3>1. PICK n : n = [p EXCEPT !.flags = g, !.due = TRUE]
        OBVIOUS
      <3>2. n = [at |-> p.at, flags |-> g, hiddenIds |-> p.hiddenIds, marks |-> p.marks,
                 due |-> TRUE]
        BY <1>1, <3>1, PageListed
      <3>3. n = new
        BY <2>1, <2>2, <3>2
      <3>4. chatPage' = [chatPage EXCEPT ![t] = n]
        BY <2>1, <2>2, <3>1 DEF Publish
      <3> QED
        BY <3>3, <3>4
    <2>3. CASE p.at # "ready"
      <3>1. PICK n : n = [p EXCEPT !.flags = g, !.due = FALSE]
        OBVIOUS
      <3>2. n = [at |-> p.at, flags |-> g, hiddenIds |-> p.hiddenIds, marks |-> p.marks,
                 due |-> FALSE]
        BY <1>1, <3>1, PageListed
      <3>3. n = new
        BY <2>1, <2>3, <3>2
      <3>4. chatPage' = [chatPage EXCEPT ![t] = n]
        BY <2>1, <2>3, <3>1 DEF Publish
      <3> QED
        BY <3>3, <3>4
    <2> QED
      BY <2>2, <2>3
  <1>4. TabSound(new, found)
    <2>1. CASE p.at = "loading"
      <3>1. \A c \in Chats : Merged(p, h)[c] \subseteq {"hidden"}
        BY <1>1, <2>1, MergedFlags DEF TabSound
      <3>2. DOMAIN new.flags = Chats /\ \A c \in Chats : new.flags[c] \subseteq {"hidden"}
        BY <1>1, <3>1, MergedFlags
      <3>3. /\ new.at = "loading" /\ new.marks = {} /\ new.hiddenIds = {}
            /\ new.due <=> p.at = "ready"
        BY <1>1, <2>1 DEF TabSound
      <3> HIDE DEF new
      <3> QED
        BY <2>1, <3>2, <3>3 DEF TabSound
    <2>2. CASE p.at = "ready"
      BY <2>2 DEF TabSound
    <2> QED
      BY <1>1, <2>1, <2>2, PageFields
  <1>5. \A c \in Chats, f \in Flags : Known(c, f)' =>
          /\ Kept(c, f)
          /\ f = "hidden" => HidingKept(c) /\ TabHides(p, answer[t], c)
    BY KnownFacts DEF Known
  <1>6. ASSUME NEW c \in Chats, Known(c, "hidden")'
        PROVE  /\ c \in DOMAIN new.flags
               /\ "hidden" \in new.flags[c] <=> <<c, "hidden">> \in wanted
               /\ TabHides(new, found, c)
    <2>1. HidingKept(c) /\ TabHides(p, answer[t], c)
      BY <1>5, <1>6 DEF Flags
    <2>2. c \in DOMAIN new.flags /\ new.flags[c] = Merged(p, h)[c]
      BY <1>1, MergedFlags
    <2>3. "hidden" \in new.flags[c] <=> <<c, "hidden">> \in wanted
      <3>1. CASE c \in DOMAIN p.flags
        BY <1>1, <2>1, <2>2, <3>1, MergedFlags DEF TabHides
      <3>2. CASE c \notin DOMAIN p.flags
        BY <1>1, <1>6, <2>2, <3>2, MergedFlags
      <3> QED
        BY <3>1, <3>2
    <2>4. new.at = p.at
      OBVIOUS
    <2> HIDE DEF new
    <2> QED
      BY <1>1, <2>1, <2>2, <2>3, <2>4, PageFields DEF TabHides
  <1>7. ASSUME NEW c \in Chats, NEW f \in Flags, Known(c, f)', p.at = "ready"
        PROVE  ShowsAt(new, serverHidden, c, f) <=> <<c, f>> \in wanted
    <2>1. ShowsAt(p, serverHidden, c, f) <=> <<c, f>> \in wanted
      BY <1>5, <1>7 DEF Kept
    <2>2. CASE f = "marked"
      BY <2>1, <2>2 DEF ShowsAt
    <2>3. CASE f = "archived"
      <3>1. Merged(p, h)[c] = IF c \in DOMAIN p.flags THEN p.flags[c]
                              ELSE IF c \in h THEN {"hidden"} ELSE {}
        BY <1>1, MergedFlags
      <3>2. c \in DOMAIN Merged(p, h)
        BY <1>1, MergedFlags
      <3> QED
        BY <2>1, <2>3, <3>1, <3>2 DEF ShowsAt
    <2>4. CASE f = "hidden"
      <3>1. /\ c \in DOMAIN new.flags
            /\ "hidden" \in new.flags[c] <=> <<c, "hidden">> \in wanted
        BY <1>6, <1>7, <2>4
      <3>2. c \in new.hiddenIds => <<c, "hidden">> \in wanted
        BY <2>1, <2>4 DEF ShowsAt
      <3> HIDE DEF new
      <3> QED
        BY <2>4, <3>1, <3>2 DEF ShowsAt
    <2> QED
      BY <2>2, <2>3, <2>4 DEF Flags
  <1>8. new.at = p.at /\ (~ new.due => ~ p.due)
    BY <1>1, KnownFacts
  <1>9. vault' \in VaultRecords \union {Nothing} /\ vault' = vault
    BY <1>1
  <1> HIDE DEF new
  <1>10. \A c \in Chats, f \in Flags : Known(c, f)' =>
           /\ new.at = "ready" => (ShowsAt(new, serverHidden, c, f) <=> <<c, f>> \in wanted)
           /\ ~ new.due /\ (\A u \in Pages \ {t} : ~ chatPage[u].due) =>
                (LoadsAt(vault', serverHidden, c, f) <=> <<c, f>> \in wanted)
    BY <1>5, <1>7, <1>8, <1>9 DEF Kept
  <1>11. \A c \in Chats : Known(c, "hidden")' => TabHides(new, found, c)
    BY <1>6
  <1> QED
    BY <1>2, <1>3, <1>4, <1>9, <1>10, <1>11, TabGoesOn

\* What is decided about c in the tab t, if it is in doubt from then on or no other tab is
\* open.
LEMMA DecisionInv ==
  ASSUME VaultInv, NEW t \in Pages, NEW c \in Chats, NEW p, p = chatPage[t],
         NEW new \in PageStates, new.at = "ready", new.due, p.at = "ready",
         chatPage' = [chatPage EXCEPT ![t] = new],
         UNCHANGED <<answer, serverHidden, vault>>, choices' \in Nat,
         patches' \subseteq [chat : Chats, hidden : BOOLEAN, number : Nat],
         \A d \in Chats \ {c} :
           /\ d \in DOMAIN new.flags <=> d \in DOMAIN p.flags
           /\ d \in DOMAIN p.flags => new.flags[d] = p.flags[d]
           /\ d \in new.marks <=> d \in p.marks
           /\ d \in new.hiddenIds <=> d \in p.hiddenIds
           /\ Patching(d)' = Patching(d)
           /\ \A f \in Flags : /\ <<d, f>> \in wanted' <=> <<d, f>> \in wanted
                               /\ Known(d, f)' <=> Known(d, f),
         \A f \in Flags : Known(c, f)' =>
           /\ ShowsAt(new, serverHidden, c, f) <=> <<c, f>> \in wanted'
           /\ \/ /\ Known(c, f) /\ (<<c, f>> \in wanted' <=> <<c, f>> \in wanted)
                 /\ f = "hidden" => Patching(c)' = Patching(c)
              \/ Alone(t),
         Known(c, "hidden")' =>
           /\ Patching(c)' = {} => (c \in serverHidden <=> <<c, "hidden">> \in wanted')
           /\ \A q \in Patching(c)' : q.hidden <=> <<c, "hidden">> \in wanted'
           /\ c \in DOMAIN new.flags => ("hidden" \in new.flags[c] <=> <<c, "hidden">> \in wanted')
           /\ Patching(c)' # {} => c \in DOMAIN new.flags
           /\ answer[t] # Nothing /\ c \notin DOMAIN new.flags =>
                (c \in answer[t] <=> <<c, "hidden">> \in wanted')
  PROVE  VaultInv'
  <1>1. /\ answer' = [answer EXCEPT ![t] = answer[t]]
        /\ answer[t] \in (SUBSET Chats) \union {Nothing}
        /\ serverHidden' = serverHidden /\ vault' \in VaultRecords \union {Nothing}
    BY DEF VaultInv, VaultTypeInv
  <1>2. TabSound(new, answer[t])
    BY DEF TabSound
  <1>3. \A d \in Chats, f \in Flags : Known(d, f)' =>
           \/ /\ Known(d, f) /\ (<<d, f>> \in wanted' <=> <<d, f>> \in wanted)
              /\ f = "hidden" => Patching(d)' = Patching(d)
           \/ Alone(t) /\ new.due
    <2> SUFFICES ASSUME NEW d \in Chats, NEW f \in Flags, Known(d, f)'
                 PROVE  \/ /\ Known(d, f) /\ (<<d, f>> \in wanted' <=> <<d, f>> \in wanted)
                           /\ f = "hidden" => Patching(d)' = Patching(d)
                        \/ Alone(t) /\ new.due
      OBVIOUS
    <2>1. CASE d = c
      BY <2>1
    <2>2. CASE d # c
      BY <2>2
    <2> QED
      BY <2>1, <2>2
  <1>4. \A d \in Chats, f \in Flags : Known(d, f)' =>
           /\ new.at = "ready" => (ShowsAt(new, serverHidden, d, f) <=> <<d, f>> \in wanted')
           /\ ~ new.due /\ (\A u \in Pages \ {t} : ~ chatPage[u].due) =>
                (LoadsAt(vault', serverHidden, d, f) <=> <<d, f>> \in wanted')
    <2> SUFFICES ASSUME NEW d \in Chats, NEW f \in Flags, Known(d, f)'
                 PROVE  ShowsAt(new, serverHidden, d, f) <=> <<d, f>> \in wanted'
      OBVIOUS
    <2>1. CASE d = c
      BY <2>1
    <2>2. CASE d # c
      <3>1. Known(d, f) /\ (<<d, f>> \in wanted' <=> <<d, f>> \in wanted)
        BY <2>2
      <3>2. ShowsAt(p, serverHidden, d, f) <=> <<d, f>> \in wanted
        BY <3>1, KnownFacts DEF Kept
      <3>3. ShowsAt(new, serverHidden, d, f) <=> ShowsAt(p, serverHidden, d, f)
        BY <2>2 DEF ShowsAt
      <3> QED
        BY <3>1, <3>2, <3>3
    <2> QED
      BY <2>1, <2>2
  <1>5. \A d \in Chats : Known(d, "hidden")' =>
           /\ Patching(d)' = {} => (d \in serverHidden <=> <<d, "hidden">> \in wanted')
           /\ \A q \in Patching(d)' : q.hidden <=> <<d, "hidden">> \in wanted'
           /\ d \in DOMAIN new.flags => ("hidden" \in new.flags[d] <=> <<d, "hidden">> \in wanted')
           /\ Patching(d)' # {} =>
                new.at \in {"closed", "ready"} /\ (new.at = "ready" => d \in DOMAIN new.flags)
           /\ answer[t] # Nothing /\ (new.at = "loading" \/ d \notin DOMAIN new.flags) =>
                (d \in answer[t] <=> <<d, "hidden">> \in wanted')
    <2> SUFFICES ASSUME NEW d \in Chats, Known(d, "hidden")'
                 PROVE
           /\ Patching(d)' = {} => (d \in serverHidden <=> <<d, "hidden">> \in wanted')
           /\ \A q \in Patching(d)' : q.hidden <=> <<d, "hidden">> \in wanted'
           /\ d \in DOMAIN new.flags => ("hidden" \in new.flags[d] <=> <<d, "hidden">> \in wanted')
           /\ Patching(d)' # {} => d \in DOMAIN new.flags
           /\ answer[t] # Nothing /\ d \notin DOMAIN new.flags =>
                (d \in answer[t] <=> <<d, "hidden">> \in wanted')
      BY Zenon
    <2>1. CASE d = c
      BY <2>1
    <2>2. CASE d # c
      <3>1. Known(d, "hidden") /\ (<<d, "hidden">> \in wanted' <=> <<d, "hidden">> \in wanted)
            /\ Patching(d)' = Patching(d)
        BY <2>2 DEF Flags
      <3>2. HidingKept(d) /\ TabHides(p, answer[t], d)
        BY <3>1, KnownFacts DEF Flags
      <3> QED
        BY <2>2, <3>1, <3>2 DEF HidingKept, TabHides
    <2> QED
      BY <2>1, <2>2
  <1> QED
    BY <1>1, <1>2, <1>3, <1>4, <1>5, TabMoves

LEMMA ChooseMeans ==
  ASSUME VaultInv, NEW t \in Pages, NEW c \in Chats, NEW decided, NEW dropped,
         Choose(t, c, decided, dropped)
  PROVE  /\ chatPage[t] \in PageStates /\ chatPage[t].at = "ready"
         /\ c \in DOMAIN chatPage[t].flags
         /\ chatPage[t].flags \in [DOMAIN chatPage[t].flags -> SUBSET Flags]
         /\ DOMAIN chatPage[t].flags \in SUBSET Chats
         /\ wanted' = (wanted \ dropped) \union decided
         /\ UNCHANGED <<answer, serverHidden, vault>> /\ choices' \in Nat /\ choices \in Nat
         /\ patches \subseteq [chat : Chats, hidden : BOOLEAN, number : Nat]
  BY PageFields, FlagsHave DEF Choose, VaultInv, VaultTypeInv

LEMMA SetArchivedInv ==
  ASSUME VaultInv, NEW t \in Pages, NEW c \in Chats, NEW on \in BOOLEAN, SetArchived(t, c, on)
  PROVE  VaultInv'
  <1> DEFINE p == chatPage[t]
             pair == {<<c, "archived">>}
             decided == IF on THEN pair ELSE {}
             flags == [p.flags EXCEPT
                         ![c] = IF on THEN @ \union {"archived"} ELSE @ \ {"archived"}]
             new == [at |-> p.at, flags |-> flags, hiddenIds |-> p.hiddenIds, marks |-> p.marks,
                     due |-> TRUE]
  <1>1. Choose(t, c, decided, pair)
    BY DEF SetArchived
  <1> HIDE DEF decided, pair
  <1>2. /\ p \in PageStates /\ p.at = "ready" /\ c \in DOMAIN p.flags
        /\ p.flags \in [DOMAIN p.flags -> SUBSET Flags] /\ DOMAIN p.flags \in SUBSET Chats
        /\ wanted' = (wanted \ pair) \union decided
        /\ UNCHANGED <<answer, serverHidden, vault>> /\ choices' \in Nat
        /\ patches \subseteq [chat : Chats, hidden : BOOLEAN, number : Nat]
    BY <1>1, ChooseMeans
  <1> USE DEF decided, pair
  <1>3. /\ flags \in [DOMAIN p.flags -> SUBSET Flags] /\ flags \in ChatFlags
        /\ DOMAIN flags = DOMAIN p.flags
        /\ \A d \in DOMAIN flags : d # c => flags[d] = p.flags[d]
        /\ "archived" \in flags[c] <=> on
        /\ "hidden" \in flags[c] <=> "hidden" \in p.flags[c]
    <2>1. flags \in [DOMAIN p.flags -> SUBSET Flags]
      BY <1>2 DEF Flags
    <2> QED
      BY <1>2, <2>1, FlagsMade
  <1>4. chatPage' = [chatPage EXCEPT ![t] = new]
    <2>1. PICK g : g = flags
      OBVIOUS
    <2>2. PICK n : n = [p EXCEPT !.flags = g, !.due = TRUE]
      OBVIOUS
    <2>3. n = new
      BY <1>2, <2>1, <2>2, PageListed
    <2>4. chatPage' = [chatPage EXCEPT ![t] = n]
      BY <2>1, <2>2 DEF SetArchived
    <2> QED
      BY <2>3, <2>4
  <1>5. new \in PageStates
    BY <1>2, <1>3, PageFields DEF PageStates
  <1>6. patches' = patches /\ \A d \in Chats : Patching(d)' = Patching(d)
    BY DEF SetArchived, Patching
  <1>7. unsure' = IF Alone(t) THEN unsure \ pair ELSE unsure \union pair
    BY DEF SetArchived, Decided
  <1>8. \A d \in Chats, f \in Flags : <<d, f>> # <<c, "archived">> =>
          /\ <<d, f>> \in wanted' <=> <<d, f>> \in wanted
          /\ Known(d, f)' <=> Known(d, f)
    BY <1>2, <1>7 DEF Known
  <1>9. /\ <<c, "archived">> \in wanted' <=> on
        /\ Known(c, "archived")' => Alone(t)
    BY <1>2, <1>7 DEF Known
  <1> HIDE DEF flags
  <1>10. ASSUME NEW f \in Flags, Known(c, f)'
         PROVE  /\ ShowsAt(new, serverHidden, c, f) <=> <<c, f>> \in wanted'
                /\ \/ /\ Known(c, f) /\ (<<c, f>> \in wanted' <=> <<c, f>> \in wanted)
                      /\ f = "hidden" => Patching(c)' = Patching(c)
                   \/ Alone(t)
    <2>1. CASE f = "archived"
      BY <1>2, <1>3, <1>9, <1>10, <2>1 DEF ShowsAt
    <2>2. CASE f # "archived"
      <3>1. Known(c, f) /\ (<<c, f>> \in wanted' <=> <<c, f>> \in wanted)
        BY <1>8, <1>10, <2>2
      <3>2. ShowsAt(p, serverHidden, c, f) <=> <<c, f>> \in wanted
        BY <1>2, <3>1, KnownFacts DEF Kept
      <3>3. ShowsAt(new, serverHidden, c, f) <=> ShowsAt(p, serverHidden, c, f)
        BY <1>3, <2>2 DEF ShowsAt
      <3> QED
        BY <1>6, <3>1, <3>2, <3>3
    <2> QED
      BY <2>1, <2>2
  <1>11. Known(c, "hidden")' =>
           /\ Patching(c)' = {} => (c \in serverHidden <=> <<c, "hidden">> \in wanted')
           /\ \A q \in Patching(c)' : q.hidden <=> <<c, "hidden">> \in wanted'
           /\ c \in DOMAIN new.flags => ("hidden" \in new.flags[c] <=> <<c, "hidden">> \in wanted')
           /\ Patching(c)' # {} => c \in DOMAIN new.flags
           /\ answer[t] # Nothing /\ c \notin DOMAIN new.flags =>
                (c \in answer[t] <=> <<c, "hidden">> \in wanted')
    <2> SUFFICES ASSUME Known(c, "hidden")'
                 PROVE
           /\ Patching(c) = {} => (c \in serverHidden <=> <<c, "hidden">> \in wanted)
           /\ \A q \in Patching(c) : q.hidden <=> <<c, "hidden">> \in wanted
           /\ "hidden" \in flags[c] <=> <<c, "hidden">> \in wanted
      BY <1>2, <1>3, <1>6, <1>8 DEF Flags
    <2>1. HidingKept(c) /\ TabHides(p, answer[t], c)
      BY <1>8, KnownFacts DEF Flags
    <2> QED
      BY <1>2, <1>3, <2>1 DEF HidingKept, TabHides
  <1>12. \A d \in Chats \ {c} :
           /\ d \in DOMAIN new.flags <=> d \in DOMAIN p.flags
           /\ d \in DOMAIN p.flags => new.flags[d] = p.flags[d]
           /\ d \in new.marks <=> d \in p.marks
           /\ d \in new.hiddenIds <=> d \in p.hiddenIds
           /\ Patching(d)' = Patching(d)
           /\ \A f \in Flags : /\ <<d, f>> \in wanted' <=> <<d, f>> \in wanted
                               /\ Known(d, f)' <=> Known(d, f)
    BY <1>3, <1>6, <1>8
  <1>13. /\ new.at = "ready" /\ new.due /\ p.at = "ready" /\ p = chatPage[t]
         /\ UNCHANGED <<answer, serverHidden, vault>> /\ choices' \in Nat
         /\ patches' \subseteq [chat : Chats, hidden : BOOLEAN, number : Nat]
    BY <1>2, <1>6
  <1> HIDE DEF new, p, pair, decided
  <1> QED
    BY <1>4, <1>5, <1>10, <1>11, <1>12, <1>13, DecisionInv

LEMMA ListArrivesInv ==
  ASSUME VaultInv, NEW t \in Pages, ListArrives(t)
  PROVE  VaultInv'
  <1>1. /\ answer[t] # Nothing /\ answer[t] \in (SUBSET Chats) \union {Nothing}
        /\ answer' = [answer EXCEPT ![t] = Nothing] /\ Publish(t, answer[t])
    BY DEF ListArrives, VaultInv, VaultTypeInv
  <1>2. answer[t] \in SUBSET Chats /\ chatPage[t].at # "closed"
    BY <1>1, KnownFacts DEF TabSound
  <1>3. UNCHANGED <<remote, vault, wanted, choices>> /\ unsure \subseteq unsure'
    BY DEF ListArrives, judged
  <1>4. \A c \in Chats : Known(c, "hidden")' /\ c \notin DOMAIN chatPage[t].flags =>
          (c \in answer[t] <=> <<c, "hidden">> \in wanted)
    <2> SUFFICES ASSUME NEW c \in Chats, Known(c, "hidden")', c \notin DOMAIN chatPage[t].flags
                 PROVE  c \in answer[t] <=> <<c, "hidden">> \in wanted
      OBVIOUS
    <2>1. TabHides(chatPage[t], answer[t], c)
      BY <1>3, KnownFacts DEF Known, Flags
    <2> QED
      BY <1>1, <2>1 DEF TabHides
  <1> QED
    BY <1>1, <1>2, <1>3, <1>4, PublishInv

LEMMA ListFromCacheInv ==
  ASSUME VaultInv, NEW t \in Pages, NEW hidden \in SUBSET Chats, ListFromCache(t, hidden)
  PROVE  VaultInv'
  <1>1. /\ answer[t] \in (SUBSET Chats) \union {Nothing}
        /\ answer' = [answer EXCEPT ![t] = answer[t]]
    BY DEF ListFromCache, VaultInv, VaultTypeInv
  <1>2. /\ UNCHANGED <<remote, vault, wanted, choices>> /\ unsure \subseteq unsure'
        /\ Publish(t, hidden) /\ chatPage[t].at # "closed"
    BY DEF ListFromCache
  <1>3. \A c \in Chats : Known(c, "hidden")' => c \in DOMAIN chatPage[t].flags
    BY DEF ListFromCache, Known
  <1> QED
    BY <1>1, <1>2, <1>3, PublishInv

LEMMA CloseTabInv ==
  ASSUME VaultInv, NEW t \in Pages, CloseTab(t)
  PROVE  VaultInv'
  BY LeaveTabInv DEF CloseTab, VaultInv, VaultTypeInv

LEMMA SignOutInv ==
  ASSUME VaultInv, NEW t \in Pages, SignOut(t)
  PROVE  VaultInv'
  BY LeaveTabInv DEF SignOut

LEMMA MarkInv ==
  ASSUME VaultInv, NEW t \in Pages, NEW c \in Chats, Mark(t, c)
  PROVE  VaultInv'
  <1> DEFINE p == chatPage[t]
             pair == {<<c, "marked">>}
             new == [at |-> p.at, flags |-> p.flags, hiddenIds |-> p.hiddenIds,
                     marks |-> p.marks \union {c}, due |-> TRUE]
  <1>1. Choose(t, c, pair, {})
    BY DEF Mark
  <1> HIDE DEF pair
  <1>2. /\ p \in PageStates /\ p.at = "ready" /\ c \in DOMAIN p.flags
        /\ p.flags \in [DOMAIN p.flags -> SUBSET Flags] /\ DOMAIN p.flags \in SUBSET Chats
        /\ wanted' = (wanted \ {}) \union pair
        /\ UNCHANGED <<answer, serverHidden, vault>> /\ choices' \in Nat
        /\ patches \subseteq [chat : Chats, hidden : BOOLEAN, number : Nat]
    BY <1>1, ChooseMeans
  <1> USE DEF pair
  <1>3. chatPage' = [chatPage EXCEPT ![t] = new]
    <2>1. PICK n : n = [p EXCEPT !.marks = p.marks \union {c}, !.due = TRUE]
      OBVIOUS
    <2>2. n = new
      BY <1>2, <2>1 DEF PageStates
    <2>3. chatPage' = [chatPage EXCEPT ![t] = n]
      BY <2>1 DEF Mark
    <2> QED
      BY <2>2, <2>3
  <1>4. new \in PageStates
    BY <1>2, PageFields DEF PageStates
  <1>5. patches' = patches /\ \A d \in Chats : Patching(d)' = Patching(d)
    BY DEF Mark, Patching
  <1>6. unsure' = IF Alone(t) THEN unsure \ pair ELSE unsure \union pair
    BY DEF Mark, Decided
  <1>7. \A d \in Chats, f \in Flags : <<d, f>> # <<c, "marked">> =>
          /\ <<d, f>> \in wanted' <=> <<d, f>> \in wanted
          /\ Known(d, f)' <=> Known(d, f)
    BY <1>2, <1>6 DEF Known
  <1>8. /\ <<c, "marked">> \in wanted'
        /\ Known(c, "marked")' => Alone(t)
    BY <1>2, <1>6 DEF Known
  <1>9. ASSUME NEW f \in Flags, Known(c, f)'
        PROVE  /\ ShowsAt(new, serverHidden, c, f) <=> <<c, f>> \in wanted'
               /\ \/ /\ Known(c, f) /\ (<<c, f>> \in wanted' <=> <<c, f>> \in wanted)
                     /\ f = "hidden" => Patching(c)' = Patching(c)
                  \/ Alone(t)
    <2>1. CASE f = "marked"
      BY <1>8, <1>9, <2>1 DEF ShowsAt
    <2>2. CASE f # "marked"
      <3>1. Known(c, f) /\ (<<c, f>> \in wanted' <=> <<c, f>> \in wanted)
        BY <1>7, <1>9, <2>2
      <3>2. ShowsAt(p, serverHidden, c, f) <=> <<c, f>> \in wanted
        BY <1>2, <3>1, KnownFacts DEF Kept
      <3>3. ShowsAt(new, serverHidden, c, f) <=> ShowsAt(p, serverHidden, c, f)
        BY <2>2 DEF ShowsAt
      <3> QED
        BY <1>5, <3>1, <3>2, <3>3
    <2> QED
      BY <2>1, <2>2
  <1>10. Known(c, "hidden")' =>
           /\ Patching(c)' = {} => (c \in serverHidden <=> <<c, "hidden">> \in wanted')
           /\ \A q \in Patching(c)' : q.hidden <=> <<c, "hidden">> \in wanted'
           /\ c \in DOMAIN new.flags => ("hidden" \in new.flags[c] <=> <<c, "hidden">> \in wanted')
           /\ Patching(c)' # {} => c \in DOMAIN new.flags
           /\ answer[t] # Nothing /\ c \notin DOMAIN new.flags =>
                (c \in answer[t] <=> <<c, "hidden">> \in wanted')
    <2> SUFFICES ASSUME Known(c, "hidden")'
                 PROVE
           /\ Patching(c) = {} => (c \in serverHidden <=> <<c, "hidden">> \in wanted)
           /\ \A q \in Patching(c) : q.hidden <=> <<c, "hidden">> \in wanted
           /\ "hidden" \in p.flags[c] <=> <<c, "hidden">> \in wanted
      BY <1>2, <1>5, <1>7 DEF Flags
    <2>1. HidingKept(c) /\ TabHides(p, answer[t], c)
      BY <1>7, KnownFacts DEF Flags
    <2> QED
      BY <1>2, <2>1 DEF HidingKept, TabHides
  <1>11. \A d \in Chats \ {c} :
           /\ d \in DOMAIN new.flags <=> d \in DOMAIN p.flags
           /\ d \in DOMAIN p.flags => new.flags[d] = p.flags[d]
           /\ d \in new.marks <=> d \in p.marks
           /\ d \in new.hiddenIds <=> d \in p.hiddenIds
           /\ Patching(d)' = Patching(d)
           /\ \A f \in Flags : /\ <<d, f>> \in wanted' <=> <<d, f>> \in wanted
                               /\ Known(d, f)' <=> Known(d, f)
    BY <1>5, <1>7
  <1>12. /\ new.at = "ready" /\ new.due /\ p.at = "ready" /\ p = chatPage[t]
         /\ UNCHANGED <<answer, serverHidden, vault>> /\ choices' \in Nat
         /\ patches' \subseteq [chat : Chats, hidden : BOOLEAN, number : Nat]
    BY <1>2, <1>5
  <1> HIDE DEF new, p, pair
  <1> QED
    BY <1>3, <1>4, <1>9, <1>10, <1>11, <1>12, DecisionInv

LEMMA SetHiddenInv ==
  ASSUME VaultInv, NEW t \in Pages, NEW c \in Chats, NEW on \in BOOLEAN, SetHidden(t, c, on)
  PROVE  VaultInv'
  <1> DEFINE p == chatPage[t]
             pair == {<<c, "hidden">>}
             decided == IF on THEN pair ELSE {}
             flags == [p.flags EXCEPT
                         ![c] = IF on THEN @ \union {"hidden"} ELSE @ \ {"hidden"}]
             ids == IF on THEN p.hiddenIds \union {c} ELSE p.hiddenIds \ {c}
             patch == [chat |-> c, hidden |-> on, number |-> choices]
             new == [at |-> p.at, flags |-> flags, hiddenIds |-> ids, marks |-> p.marks,
                     due |-> TRUE]
  <1>1. Choose(t, c, decided, pair)
    BY DEF SetHidden
  <1> HIDE DEF decided, pair
  <1>2. /\ p \in PageStates /\ p.at = "ready" /\ c \in DOMAIN p.flags
        /\ p.flags \in [DOMAIN p.flags -> SUBSET Flags] /\ DOMAIN p.flags \in SUBSET Chats
        /\ wanted' = (wanted \ pair) \union decided
        /\ UNCHANGED <<answer, serverHidden, vault>> /\ choices' \in Nat /\ choices \in Nat
        /\ patches \subseteq [chat : Chats, hidden : BOOLEAN, number : Nat]
    BY <1>1, ChooseMeans
  <1> USE DEF decided, pair
  <1>3. /\ flags \in [DOMAIN p.flags -> SUBSET Flags] /\ flags \in ChatFlags
        /\ DOMAIN flags = DOMAIN p.flags
        /\ \A d \in DOMAIN flags : d # c => flags[d] = p.flags[d]
        /\ "hidden" \in flags[c] <=> on
        /\ "archived" \in flags[c] <=> "archived" \in p.flags[c]
    <2>1. flags \in [DOMAIN p.flags -> SUBSET Flags]
      BY <1>2 DEF Flags
    <2> QED
      BY <1>2, <2>1, FlagsMade
  <1>4. ids \in SUBSET Chats /\ (c \in ids <=> on) /\ (\A d : d # c => (d \in ids <=> d \in p.hiddenIds))
    BY <1>2, PageFields
  <1>5. chatPage' = [chatPage EXCEPT ![t] = new]
    <2>1. PICK g, h : g = flags /\ h = ids
      OBVIOUS
    <2>2. PICK n : n = [p EXCEPT !.flags = g, !.hiddenIds = h, !.due = TRUE]
      OBVIOUS
    <2>3. n = [at |-> p.at, flags |-> g, hiddenIds |-> h, marks |-> p.marks, due |-> TRUE]
      BY <1>2, <2>2 DEF PageStates
    <2>4. n = new
      BY <2>1, <2>3
    <2>5. chatPage' = [chatPage EXCEPT ![t] = n]
      BY <2>1, <2>2 DEF SetHidden
    <2> QED
      BY <2>4, <2>5
  <1>6. new \in PageStates
    BY <1>2, <1>3, <1>4, PageFields DEF PageStates
  <1>7. /\ patches' = patches \union {patch}
        /\ patch \in [chat : Chats, hidden : BOOLEAN, number : Nat]
        /\ patch.chat = c /\ patch.hidden = on
    BY <1>2 DEF SetHidden
  <1>8. unsure' = IF Alone(t) /\ Patching(c) = {} THEN unsure \ pair ELSE unsure \union pair
    BY DEF SetHidden, Patching
  <1> HIDE DEF patch
  <1>9. /\ \A d \in Chats \ {c} : Patching(d)' = Patching(d)
        /\ Patching(c)' = Patching(c) \union {patch}
        /\ patches' \subseteq [chat : Chats, hidden : BOOLEAN, number : Nat]
    BY <1>2, <1>7 DEF Patching
  <1>10. \A d \in Chats, f \in Flags : <<d, f>> # <<c, "hidden">> =>
          /\ <<d, f>> \in wanted' <=> <<d, f>> \in wanted
          /\ Known(d, f)' <=> Known(d, f)
    BY <1>2, <1>8 DEF Known
  <1>11. /\ <<c, "hidden">> \in wanted' <=> on
         /\ Known(c, "hidden")' => Alone(t) /\ Patching(c) = {}
    BY <1>2, <1>8 DEF Known
  <1> HIDE DEF flags, ids
  <1>12. ASSUME NEW f \in Flags, Known(c, f)'
         PROVE  /\ ShowsAt(new, serverHidden, c, f) <=> <<c, f>> \in wanted'
                /\ \/ /\ Known(c, f) /\ (<<c, f>> \in wanted' <=> <<c, f>> \in wanted)
                      /\ f = "hidden" => Patching(c)' = Patching(c)
                   \/ Alone(t)
    <2>1. CASE f = "hidden"
      BY <1>2, <1>3, <1>4, <1>11, <1>12, <2>1 DEF ShowsAt
    <2>2. CASE f # "hidden"
      <3>1. Known(c, f) /\ (<<c, f>> \in wanted' <=> <<c, f>> \in wanted)
        BY <1>10, <1>12, <2>2
      <3>2. ShowsAt(p, serverHidden, c, f) <=> <<c, f>> \in wanted
        BY <1>2, <3>1, KnownFacts DEF Kept
      <3>3. ShowsAt(new, serverHidden, c, f) <=> ShowsAt(p, serverHidden, c, f)
        BY <1>3, <2>2 DEF ShowsAt, Flags
      <3> QED
        BY <2>2, <3>1, <3>2, <3>3
    <2> QED
      BY <2>1, <2>2
  <1>13. Known(c, "hidden")' =>
           /\ Patching(c)' = {} => (c \in serverHidden <=> <<c, "hidden">> \in wanted')
           /\ \A q \in Patching(c)' : q.hidden <=> <<c, "hidden">> \in wanted'
           /\ c \in DOMAIN new.flags => ("hidden" \in new.flags[c] <=> <<c, "hidden">> \in wanted')
           /\ Patching(c)' # {} => c \in DOMAIN new.flags
           /\ answer[t] # Nothing /\ c \notin DOMAIN new.flags =>
                (c \in answer[t] <=> <<c, "hidden">> \in wanted')
    BY <1>2, <1>3, <1>7, <1>9, <1>11
  <1>14. \A d \in Chats \ {c} :
           /\ d \in DOMAIN new.flags <=> d \in DOMAIN p.flags
           /\ d \in DOMAIN p.flags => new.flags[d] = p.flags[d]
           /\ d \in new.marks <=> d \in p.marks
           /\ d \in new.hiddenIds <=> d \in p.hiddenIds
           /\ Patching(d)' = Patching(d)
           /\ \A f \in Flags : /\ <<d, f>> \in wanted' <=> <<d, f>> \in wanted
                               /\ Known(d, f)' <=> Known(d, f)
    BY <1>3, <1>4, <1>9, <1>10
  <1>15. /\ new.at = "ready" /\ new.due /\ p.at = "ready" /\ p = chatPage[t]
         /\ UNCHANGED <<answer, serverHidden, vault>> /\ choices' \in Nat
         /\ patches' \subseteq [chat : Chats, hidden : BOOLEAN, number : Nat]
    BY <1>2, <1>9
  <1> HIDE DEF new, p, pair, decided
  <1> QED
    BY <1>5, <1>6, <1>12, <1>13, <1>14, <1>15, DecisionInv

LEMMA DeleteChatInv ==
  ASSUME VaultInv, NEW t \in Pages, NEW c \in Chats, DeleteChat(t, c)
  PROVE  VaultInv'
  <1> DEFINE p == chatPage[t]
             decided == {<<c, "marked">>}
             dropped == {<<c, "archived">>}
             flags == [d \in DOMAIN p.flags \ {c} |-> p.flags[d]]
             new == [at |-> p.at, flags |-> flags, hiddenIds |-> p.hiddenIds,
                     marks |-> p.marks \union {c}, due |-> TRUE]
  <1>1. Choose(t, c, decided, dropped)
    BY DEF DeleteChat
  <1> HIDE DEF decided, dropped
  <1>2. /\ p \in PageStates /\ p.at = "ready" /\ c \in DOMAIN p.flags
        /\ p.flags \in [DOMAIN p.flags -> SUBSET Flags] /\ DOMAIN p.flags \in SUBSET Chats
        /\ wanted' = (wanted \ dropped) \union decided
        /\ UNCHANGED <<answer, serverHidden, vault>> /\ choices' \in Nat
        /\ patches \subseteq [chat : Chats, hidden : BOOLEAN, number : Nat]
    BY <1>1, ChooseMeans
  <1> USE DEF decided, dropped
  <1>3. /\ flags \in ChatFlags /\ DOMAIN flags = DOMAIN p.flags \ {c}
        /\ \A d \in DOMAIN flags : flags[d] = p.flags[d]
    <2>1. flags \in [DOMAIN p.flags \ {c} -> SUBSET Flags]
      BY <1>2
    <2> QED
      BY <1>2, <2>1, FlagsMade
  <1>4. chatPage' = [chatPage EXCEPT ![t] = new]
    <2>1. PICK g, m : g = flags /\ m = p.marks \union {c}
      OBVIOUS
    <2>2. PICK n : n = [p EXCEPT !.flags = g, !.marks = m, !.due = TRUE]
      OBVIOUS
    <2>3. n = [at |-> p.at, flags |-> g, hiddenIds |-> p.hiddenIds, marks |-> m, due |-> TRUE]
      BY <1>2, <2>2 DEF PageStates
    <2>4. n = new
      BY <2>1, <2>3
    <2>5. chatPage' = [chatPage EXCEPT ![t] = n]
      BY <2>1, <2>2 DEF DeleteChat
    <2> QED
      BY <2>4, <2>5
  <1>5. new \in PageStates
    BY <1>2, <1>3, PageFields DEF PageStates
  <1>6. patches' = patches /\ \A d \in Chats : Patching(d)' = Patching(d)
    BY DEF DeleteChat, Patching
  <1>7. /\ \A f \in {"marked", "archived"} :
             /\ <<c, f>> \in wanted' <=> f = "marked"
             /\ Known(c, f)' => Alone(t)
        /\ Known(c, "hidden")' => answer[t] = Nothing /\ Patching(c) = {} /\ Known(c, "hidden")
        /\ <<c, "hidden">> \in wanted' <=> <<c, "hidden">> \in wanted
    BY <1>2 DEF DeleteChat, Known, Patching
  <1>8. \A d \in Chats \ {c}, f \in Flags :
          /\ <<d, f>> \in wanted' <=> <<d, f>> \in wanted
          /\ Known(d, f)' <=> Known(d, f)
    BY <1>2 DEF DeleteChat, Known
  <1> HIDE DEF flags
  <1>9. ASSUME NEW f \in Flags, Known(c, f)'
        PROVE  /\ ShowsAt(new, serverHidden, c, f) <=> <<c, f>> \in wanted'
               /\ \/ /\ Known(c, f) /\ (<<c, f>> \in wanted' <=> <<c, f>> \in wanted)
                     /\ f = "hidden" => Patching(c)' = Patching(c)
                  \/ Alone(t)
    <2>1. CASE f # "hidden"
      BY <1>3, <1>7, <1>9, <2>1 DEF ShowsAt, Flags
    <2>2. CASE f = "hidden"
      <3>1. Known(c, "hidden") /\ Patching(c) = {}
        BY <1>7, <1>9, <2>2
      <3>2. /\ ShowsAt(p, serverHidden, c, "hidden") <=> <<c, "hidden">> \in wanted
            /\ HidingKept(c) /\ TabHides(p, answer[t], c)
        BY <1>2, <3>1, KnownFacts DEF Kept, Flags
      <3>3. /\ c \in serverHidden <=> <<c, "hidden">> \in wanted
            /\ "hidden" \in p.flags[c] <=> <<c, "hidden">> \in wanted
        BY <1>2, <3>1, <3>2 DEF HidingKept, TabHides
      <3>4. ShowsAt(new, serverHidden, c, "hidden") <=> <<c, "hidden">> \in wanted
        BY <1>2, <1>3, <3>2, <3>3 DEF ShowsAt
      <3> QED
        BY <1>6, <1>7, <2>2, <3>1, <3>4
    <2> QED
      BY <2>1, <2>2
  <1>10. Known(c, "hidden")' =>
           /\ Patching(c)' = {} => (c \in serverHidden <=> <<c, "hidden">> \in wanted')
           /\ \A q \in Patching(c)' : q.hidden <=> <<c, "hidden">> \in wanted'
           /\ c \in DOMAIN new.flags => ("hidden" \in new.flags[c] <=> <<c, "hidden">> \in wanted')
           /\ Patching(c)' # {} => c \in DOMAIN new.flags
           /\ answer[t] # Nothing /\ c \notin DOMAIN new.flags =>
                (c \in answer[t] <=> <<c, "hidden">> \in wanted')
    <2> SUFFICES ASSUME Known(c, "hidden")'
                 PROVE  c \in serverHidden <=> <<c, "hidden">> \in wanted
      BY <1>3, <1>6, <1>7
    <2>1. HidingKept(c)
      BY <1>7, KnownFacts DEF Flags
    <2> QED
      BY <1>7, <2>1 DEF HidingKept
  <1>11. \A d \in Chats \ {c} :
           /\ d \in DOMAIN new.flags <=> d \in DOMAIN p.flags
           /\ d \in DOMAIN p.flags => new.flags[d] = p.flags[d]
           /\ d \in new.marks <=> d \in p.marks
           /\ d \in new.hiddenIds <=> d \in p.hiddenIds
           /\ Patching(d)' = Patching(d)
           /\ \A f \in Flags : /\ <<d, f>> \in wanted' <=> <<d, f>> \in wanted
                               /\ Known(d, f)' <=> Known(d, f)
    BY <1>3, <1>6, <1>8
  <1>12. /\ new.at = "ready" /\ new.due /\ p.at = "ready" /\ p = chatPage[t]
         /\ UNCHANGED <<answer, serverHidden, vault>> /\ choices' \in Nat
         /\ patches' \subseteq [chat : Chats, hidden : BOOLEAN, number : Nat]
    BY <1>2, <1>6
  <1> HIDE DEF new, p, decided, dropped
  <1> QED
    BY <1>4, <1>5, <1>9, <1>10, <1>11, <1>12, DecisionInv

\* What chat-service hides and the PATCHes under way change for one chat: its hiding is in
\* doubt from then on, or the decision reached the server.
LEMMA ServerMoves ==
  ASSUME VaultInv, NEW c \in Chats, UNCHANGED <<vault, chatPage, answer, wanted, choices>>,
         serverHidden' \subseteq Chats, patches' \subseteq patches, unsure \subseteq unsure',
         \A d \in Chats \ {c} : d \in serverHidden' <=> d \in serverHidden,
         \A d \in Chats \ {c} : Patching(d)' = Patching(d),
         Known(c, "hidden")' =>
           Patching(c) # {} /\ (c \in serverHidden' <=> <<c, "hidden">> \in wanted)
  PROVE  VaultInv'
  <1>1. VaultTypeInv' /\ \A t \in Pages : TabSound(chatPage[t], answer[t])'
    BY DEF VaultInv, VaultTypeInv
  <1>2. \A d \in Chats, f \in Flags : Known(d, f)' =>
          /\ Known(d, f) /\ Kept(d, f)
          /\ f = "hidden" => HidingKept(d)
    BY DEF VaultInv, Known
  <1>3. /\ \A t \in Pages : chatPage[t] \in PageStates
        /\ vault \in VaultRecords \union {Nothing}
    BY DEF VaultInv, VaultTypeInv
  <1>4. Patching(c)' \subseteq Patching(c)
    BY DEF Patching
  <1>5. ASSUME NEW d \in Chats, NEW f \in Flags, Known(d, f)'
        PROVE  Kept(d, f)'
    <2>1. CASE d # c \/ f # "hidden"
      <3>1. \A p : ShowsAt(p, serverHidden', d, f) <=> ShowsAt(p, serverHidden, d, f)
        BY <2>1 DEF ShowsAt, Flags
      <3>2. LoadsAt(vault, serverHidden', d, f) <=> LoadsAt(vault, serverHidden, d, f)
        BY <2>1, <3>1 DEF LoadsAt
      <3> QED
        BY <1>2, <1>5, <3>1, <3>2 DEF Kept
    <2>2. CASE d = c /\ f = "hidden"
      <3>1. /\ Kept(c, "hidden") /\ HidingKept(c) /\ Patching(c) # {}
            /\ c \in serverHidden' <=> <<c, "hidden">> \in wanted
        BY <1>2, <1>5, <2>2
      <3>2. \A t \in Pages : chatPage[t].at = "ready" => c \in DOMAIN chatPage[t].flags
        BY <3>1 DEF HidingKept, TabHides
      <3>3. \A t \in Pages : chatPage[t].at = "ready" =>
              (ShowsAt(chatPage[t], serverHidden', c, "hidden") <=> <<c, "hidden">> \in wanted)
        BY <3>1, <3>2 DEF Kept, ShowsAt
      <3>4. (LoadsAt(vault, serverHidden, c, "hidden") <=> <<c, "hidden">> \in wanted) =>
              (LoadsAt(vault, serverHidden', c, "hidden") <=> <<c, "hidden">> \in wanted)
        BY <1>3, <3>1, RecordFields DEF LoadsAt, ShowsAt
      <3> QED
        BY <2>2, <3>1, <3>3, <3>4 DEF Kept
    <2> QED
      BY <2>1, <2>2
  <1>6. ASSUME NEW d \in Chats, Known(d, "hidden")'
        PROVE  HidingKept(d)'
    <2>1. HidingKept(d)
      BY <1>2, <1>6 DEF Flags
    <2>2. CASE d # c
      BY <2>1, <2>2 DEF HidingKept, TabHides
    <2>3. CASE d = c
      <3>1. c \in serverHidden' <=> <<c, "hidden">> \in wanted
        BY <1>6, <2>3
      <3>2. \A t \in Pages : TabHides(chatPage[t], answer[t], c)'
        BY <1>4, <2>1, <2>3 DEF HidingKept, TabHides
      <3> QED
        BY <1>4, <2>1, <2>3, <3>1, <3>2 DEF HidingKept
    <2> QED
      BY <2>2, <2>3
  <1> QED
    BY <1>1, <1>5, <1>6 DEF VaultInv

LEMMA ApplyPatchInv ==
  ASSUME VaultInv, NEW q \in patches, ApplyPatch(q)
  PROVE  VaultInv'
  <1>1. q.chat \in Chats /\ q \in Patching(q.chat) /\ serverHidden \subseteq Chats
    BY DEF VaultInv, VaultTypeInv, Patching
  <1>2. /\ UNCHANGED <<vault, chatPage, answer, wanted, choices>> /\ unsure \subseteq unsure'
        /\ patches' \subseteq patches
        /\ \A d : d # q.chat => (d \in serverHidden' <=> d \in serverHidden)
        /\ q.chat \in serverHidden' <=> q.hidden
        /\ serverHidden' \subseteq Chats
    BY <1>1 DEF ApplyPatch, judged
  <1>3. \A d \in Chats \ {q.chat} : Patching(d)' = Patching(d)
    BY DEF ApplyPatch, Patching
  <1>4. Known(q.chat, "hidden")' =>
          /\ Patching(q.chat) # {}
          /\ q.chat \in serverHidden' <=> <<q.chat, "hidden">> \in wanted
    <2> SUFFICES ASSUME Known(q.chat, "hidden") PROVE q.hidden <=> <<q.chat, "hidden">> \in wanted
      BY <1>1, <1>2 DEF Known
    <2>1. HidingKept(q.chat)
      BY <1>1 DEF VaultInv
    <2> QED
      BY <1>1, <2>1 DEF HidingKept
  <1> QED
    BY <1>1, <1>2, <1>3, <1>4, ServerMoves

LEMMA LosePatchInv ==
  ASSUME VaultInv, NEW q \in patches, LosePatch(q)
  PROVE  VaultInv'
  <1>1. q.chat \in Chats /\ serverHidden \subseteq Chats
    BY DEF VaultInv, VaultTypeInv
  <1>2. /\ UNCHANGED <<vault, chatPage, answer, wanted, choices>> /\ unsure \subseteq unsure'
        /\ patches' \subseteq patches /\ serverHidden' = serverHidden
        /\ ~ Known(q.chat, "hidden")'
    BY DEF LosePatch, Known
  <1>3. \A d \in Chats \ {q.chat} : Patching(d)' = Patching(d)
    BY DEF LosePatch, Patching
  <1> QED
    BY <1>1, <1>2, <1>3, ServerMoves

LEMMA HiddenElsewhereInv ==
  ASSUME VaultInv, NEW c \in Chats, HiddenElsewhere(c)
  PROVE  VaultInv'
  <1>1. serverHidden \subseteq Chats
    BY DEF VaultInv, VaultTypeInv
  <1>2. /\ UNCHANGED <<vault, chatPage, answer, wanted, choices>> /\ unsure \subseteq unsure'
        /\ patches' \subseteq patches /\ serverHidden' \subseteq Chats
        /\ \A d \in Chats \ {c} : d \in serverHidden' <=> d \in serverHidden
        /\ ~ Known(c, "hidden")'
    BY <1>1 DEF HiddenElsewhere, Known
  <1>3. \A d \in Chats \ {c} : Patching(d)' = Patching(d)
    BY DEF HiddenElsewhere, Patching
  <1> QED
    BY <1>2, <1>3, ServerMoves

LEMMA VaultNextInv == VaultInv /\ [VaultNext]_vaultVars => VaultInv'
  <1> SUFFICES ASSUME VaultInv, [VaultNext]_vaultVars PROVE VaultInv'
    OBVIOUS
  <1>1. CASE UNCHANGED vaultVars
    BY <1>1 DEF vaultVars, remote, judged, VaultInv, VaultTypeInv, Known, Kept, HidingKept,
                TabHides, Patching
  <1>2. ASSUME NEW t \in Pages,
               \/ OpenTab(t) \/ LoadVault(t) \/ VaultUnreadable(t)
               \/ SaveVault(t) \/ SaveFails(t) \/ CloseTab(t) \/ SignOut(t)
               \/ AskList(t) \/ ListArrives(t) \/ \E hidden \in SUBSET Chats : ListFromCache(t, hidden)
        PROVE  VaultInv'
    BY <1>2, OpenTabInv, LoadVaultInv, VaultUnreadableInv, SaveVaultInv, SaveFailsInv,
       CloseTabInv, SignOutInv, AskListInv, ListArrivesInv, ListFromCacheInv
  <1>3. ASSUME NEW t \in Pages, NEW c \in Chats,
               \/ \E on \in BOOLEAN : SetHidden(t, c, on) \/ SetArchived(t, c, on)
               \/ Mark(t, c) \/ DeleteChat(t, c)
        PROVE  VaultInv'
    BY <1>3, SetHiddenInv, SetArchivedInv, MarkInv, DeleteChatInv
  <1>4. ASSUME NEW q \in patches, ApplyPatch(q) \/ LosePatch(q)
        PROVE  VaultInv'
    BY <1>4, ApplyPatchInv, LosePatchInv
  <1> QED
    BY <1>1, <1>2, <1>3, <1>4, HiddenElsewhereInv DEF VaultNext

\* A tab shows what its user decided about a chat last, unless the decision is one of
\* those that may be lost: for any number of chats, tabs, decisions and failures.
THEOREM ChoicesHold == VaultSpec => []ChoicesKept
  <1>1. VaultInv => ChoicesKept
    <2> SUFFICES ASSUME VaultInv, NEW t \in Pages, NEW c \in DOMAIN chatPage[t].flags,
                        NEW f \in Flags, chatPage[t].at = "ready", <<c, f>> \notin unsure
                 PROVE  Holds(chatPage[t], c, f) <=> <<c, f>> \in wanted
      BY DEF ChoicesKept
    <2>1. chatPage[t] \in PageStates /\ c \in Chats
      BY KnownFacts, PageFields, FlagsHave
    <2>2. ShowsAt(chatPage[t], serverHidden, c, f) <=> <<c, f>> \in wanted
      BY <2>1, KnownFacts DEF Known, Kept
    <2>3. Holds(chatPage[t], c, f) <=> ShowsAt(chatPage[t], serverHidden, c, f)
      <3> USE DEF Holds, ShowsAt
      <3>1. CASE f = "hidden"
        BY <3>1
      <3>2. CASE f = "archived"
        BY <3>2
      <3>3. CASE f = "marked"
        BY <3>3
      <3> QED
        BY <3>1, <3>2, <3>3 DEF Flags
    <2> QED
      BY <2>2, <2>3
  <1> QED
    BY <1>1, VaultInitInv, VaultNextInv, PTL DEF VaultSpec

-------------------------------------------------------------------------------
(* A browser is one of the five.                                            *)

\* Every step of a browser is a step of one of its parts and leaves the others.
LEMMA BrowserParts ==
  BrowserSpec => Spec /\ LockSpec /\ RecorderSpec /\ VaultSpec /\ SealSpec
  <1>1. BrowserInit => Init /\ LockInit /\ RecorderInit /\ VaultInit /\ SealInit
    BY DEF BrowserInit
  <1>2. [BrowserNext]_browserVars =>
          /\ [Next]_vars /\ [LockNext]_lockVars /\ [RecorderNext]_recorderVars
          /\ [VaultNext]_vaultVars /\ [SealNext]_sealVars
    BY DEF BrowserNext, Calling, Locking, Recording, Deciding, Covering, browserVars
  <1> QED
    BY <1>1, <1>2, PTL DEF BrowserSpec, Spec, LockSpec, RecorderSpec, VaultSpec, SealSpec

\* All of them hold of a browser as it is run.
THEOREM BrowserHolds ==
  BrowserSpec =>
    [](/\ PickupKept /\ CallsSettle /\ ScreenAgrees
       /\ RecordsWhileHeld /\ ChoicesKept /\ CoverKept)
  BY BrowserParts, PickupHolds, CallsHold, ScreensAgree, RecordsOnlyHeld, ChoicesHold,
     CoverHolds, PTL
================================================================================

