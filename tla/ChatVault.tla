------------------------------ MODULE ChatVault ------------------------------
(***************************************************************************)
(* What a user decides about chats: to hide one, to archive it, to clear,  *)
(* edit or pin what is in it, to delete it.  Pages of one browser keep     *)
(* that in memory and 450 ms later, as a whole, in an encrypted record of  *)
(* localStorage, the vault; hiding alone is also told to chat-service.     *)
(* Lists from the server arrive at any time and are merged with it.        *)
(*                                                                         *)
(* "archived" stands for what a list entry has besides (pinned, folder),   *)
(* "marked" for the mutations of messages.  Muting has a record of its     *)
(* own; blocking and removing a contact are forgotten at the next list.    *)
(***************************************************************************)
EXTENDS Naturals

CONSTANTS
  Chats,                    \* conversations the server lists
  Pages,                    \* tabs of the user's browser
  Nothing,                  \* no record, no answer
  MaxChoices, MaxUpsets     \* bounds on what the user decides and what fails

Flags == {"hidden", "archived", "marked"}
ChatFlags == UNION {[listed -> SUBSET Flags] : listed \in SUBSET Chats}
VaultRecords == [flags : ChatFlags, marks : SUBSET Chats, hiddenIds : {{}}]
PageStates ==
  [at : {"closed", "loading", "ready"}, flags : ChatFlags, hiddenIds : SUBSET Chats,
   marks : SUBSET Chats, due : BOOLEAN]

ASSUME ChatVaultAssumption ==
  /\ MaxChoices \in Nat /\ MaxUpsets \in Nat
  /\ Nothing \notin VaultRecords \union PageStates
  /\ \A hidden \in SUBSET Chats : Nothing # hidden

VARIABLES
  serverHidden,             \* hidden of conversation_members
  vault,                    \* the record of the browser
  chatPage,                 \* each tab
  answer,                   \* each tab's list under way, as the server read it
  patches,                  \* PATCH .../hidden under way: chat, value, number
  wanted,                   \* <<c, f>>: what the user decided last
  unsure,                   \* <<c, f>>: decisions that may be lost, see ChoicesKept
  choices, upsets           \* decisions, and failures, so far

remote == <<serverHidden, patches>>
judged == <<wanted, unsure>>
vaultVars == <<remote, vault, chatPage, answer, judged, choices, upsets>>

\* flags: the conversations in state, each with its set of flags; due: to be saved.
Closed ==
  [at |-> "closed", flags |-> [c \in {} |-> {}], hiddenIds |-> {}, marks |-> {}, due |-> FALSE]

VaultInit ==
  /\ serverHidden = {} /\ patches = {}
  /\ vault = Nothing
  /\ chatPage = [t \in Pages |-> Closed]
  /\ answer = [t \in Pages |-> Nothing]
  /\ wanted = {} /\ unsure = {}
  /\ choices = 0 /\ upsets = 0

Upset == upsets < MaxUpsets /\ upsets' = upsets + 1

\* isConversationHidden and applyMutations
Holds(p, c, f) ==
  CASE f = "hidden" -> c \in p.hiddenIds \/ (c \in DOMAIN p.flags /\ f \in p.flags[c])
    [] f = "archived" -> c \in DOMAIN p.flags /\ f \in p.flags[c]
    [] f = "marked" -> c \in p.marks

\* What a tab loaded now would show.
NextLoad(record, c, f) ==
  IF record # Nothing /\ (f = "marked" \/ c \in DOMAIN record.flags)
  THEN Holds(record, c, f)
  ELSE f = "hidden" /\ c \in serverHidden

\* Decisions that this tab has and the next would not.
Unsaved(p, record) ==
  {q \in Chats \X Flags :
    (Holds(p, q[1], q[2]) \/ NextLoad(p, q[1], q[2])) # NextLoad(record, q[1], q[2])}

-------------------------------------------------------------------------------
(* A tab is opened, and loads the vault.                                    *)

OpenTab(t) ==
  /\ chatPage[t].at = "closed"
  /\ chatPage' = [chatPage EXCEPT ![t].at = "loading"]
  /\ unsure' = unsure \union {<<q.chat, "hidden">> : q \in patches}
  /\ UNCHANGED <<remote, vault, answer, wanted, choices, upsets>>

\* loadChatVault, then setConversations, setMutations and setHiddenChatIds.  The
\* first save is due at once.
LoadVault(t) ==
  LET p == chatPage[t] IN
  /\ p.at = "loading"
  /\ chatPage' = [chatPage EXCEPT ![t] =
       IF vault = Nothing THEN [p EXCEPT !.at = "ready", !.due = TRUE]
       ELSE [at |-> "ready", flags |-> vault.flags, marks |-> vault.marks, due |-> TRUE,
             hiddenIds |-> {c \in DOMAIN vault.flags : "hidden" \in vault.flags[c]}]]
  /\ unsure' = unsure \union
       UNION {Unsaved(chatPage[u], vault) : u \in {v \in Pages : chatPage[v].due}}
  /\ UNCHANGED <<remote, vault, answer, wanted, choices, upsets>>

\* The record cannot be decrypted.
VaultUnreadable(t) ==
  /\ Upset
  /\ chatPage[t].at = "loading" /\ vault # Nothing
  /\ chatPage' = [chatPage EXCEPT ![t] = [@ EXCEPT !.at = "ready", !.due = TRUE]]
  /\ unsure' = unsure \union (Chats \X {"archived", "marked"})
  /\ UNCHANGED <<remote, vault, answer, wanted, choices>>

\* The timer of 450 ms.
SaveVault(t) ==
  LET p == chatPage[t] IN
  /\ p.due
  /\ vault' = [flags |-> p.flags, marks |-> p.marks, hiddenIds |-> {}]
  /\ chatPage' = [chatPage EXCEPT ![t].due = FALSE]
  /\ UNCHANGED <<remote, answer, judged, choices, upsets>>

\* setItem throws when storage is full.
SaveFails(t) ==
  /\ Upset
  /\ chatPage[t].due
  /\ chatPage' = [chatPage EXCEPT ![t].due = FALSE]
  /\ unsure' = unsure \union Unsaved(chatPage[t], vault)
  /\ UNCHANGED <<remote, vault, answer, wanted, choices>>

\* Closed or reloaded, before its timer or after.  Signing out, in upsets, also
\* removes the vault.
LeaveTab(t, record) ==
  /\ chatPage[t].at # "closed"
  /\ vault' = record
  /\ chatPage' = [chatPage EXCEPT ![t] = Closed]
  /\ answer' = [answer EXCEPT ![t] = Nothing]
  /\ unsure' = IF chatPage[t].due \/ record # vault
               THEN unsure \union Unsaved(chatPage[t], record) ELSE unsure
  /\ UNCHANGED <<remote, wanted, choices>>
CloseTab(t) == LeaveTab(t, vault) /\ UNCHANGED upsets
SignOut(t) == Upset /\ chatPage[t].at = "ready" /\ LeaveTab(t, Nothing)

-------------------------------------------------------------------------------
(* Lists from the server: onConnected, refreshConversations.               *)

AskList(t) ==
  /\ chatPage[t].at # "closed" /\ answer[t] = Nothing
  /\ answer' = [answer EXCEPT ![t] = serverHidden]
  /\ UNCHANGED <<remote, vault, chatPage, judged, choices, upsets>>

\* Slip: without "local?.", the server's list replaces the tab's.
Replaced(p, hidden) == [c \in Chats |-> IF c \in hidden THEN {"hidden"} ELSE {}]
\* onLiveConversations
Merged(p, hidden) ==
  [c \in Chats |-> IF c \in DOMAIN p.flags THEN p.flags[c]
                   ELSE IF c \in hidden THEN {"hidden"} ELSE {}]

Publish(t, hidden) ==
  LET p == chatPage[t] IN
  chatPage' = [chatPage EXCEPT
    ![t] = [p EXCEPT !.flags = Merged(p, hidden), !.due = (p.at = "ready")]]

ListArrives(t) ==
  /\ answer[t] # Nothing
  /\ Publish(t, answer[t])
  /\ answer' = [answer EXCEPT ![t] = Nothing]
  /\ UNCHANGED <<remote, vault, judged, choices, upsets>>

\* A list that fails is replaced by one stored for offline use, of any age.
ListFromCache(t, hidden) ==
  /\ Upset
  /\ chatPage[t].at # "closed"
  /\ Publish(t, hidden)
  /\ unsure' = unsure \union ((Chats \ DOMAIN chatPage[t].flags) \X {"hidden"})
  /\ UNCHANGED <<remote, vault, answer, wanted, choices>>

-------------------------------------------------------------------------------
(* The user decides: handleChatMenuAction, handleMessageMenuAction.         *)

\* What another tab shows, and saves after this one, stays as it was.
Alone(t) == \A u \in Pages \ {t} : chatPage[u].at = "closed"

Choose(t, c, decided, dropped) ==
  /\ choices < MaxChoices /\ choices' = choices + 1
  /\ chatPage[t].at = "ready" /\ c \in DOMAIN chatPage[t].flags
  /\ wanted' = (wanted \ dropped) \union decided
  /\ UNCHANGED <<serverHidden, vault, answer, upsets>>

SetHidden(t, c, on) ==
  LET p == chatPage[t]
      others == {q \in patches : q.chat = c} IN
  /\ Choose(t, c, IF on THEN {<<c, "hidden">>} ELSE {}, {<<c, "hidden">>})
  /\ on # ("hidden" \in p.flags[c])
  /\ chatPage' = [chatPage EXCEPT ![t] =
       [p EXCEPT !.flags = [p.flags EXCEPT
                      ![c] = IF on THEN @ \union {"hidden"} ELSE @ \ {"hidden"}],
                 !.hiddenIds = IF on THEN @ \union {c} ELSE @ \ {c},
                 !.due = TRUE]]
  /\ patches' = patches \union {[chat |-> c, hidden |-> on, number |-> choices]}
  /\ unsure' = IF Alone(t) /\ others = {} THEN unsure \ {<<c, "hidden">>}
               ELSE unsure \union {<<c, "hidden">>}

Decided(t, pairs) == unsure' = IF Alone(t) THEN unsure \ pairs ELSE unsure \union pairs

SetArchived(t, c, on) ==
  LET p == chatPage[t]
      pair == {<<c, "archived">>} IN
  /\ Choose(t, c, IF on THEN pair ELSE {}, pair)
  /\ on # ("archived" \in p.flags[c])
  /\ chatPage' = [chatPage EXCEPT ![t] =
       [p EXCEPT !.flags = [p.flags EXCEPT
                      ![c] = IF on THEN @ \union {"archived"} ELSE @ \ {"archived"}],
                 !.due = TRUE]]
  /\ Decided(t, pair)
  /\ UNCHANGED patches

Mark(t, c) ==
  LET p == chatPage[t]
      pair == {<<c, "marked">>} IN
  /\ Choose(t, c, pair, {})
  /\ c \notin p.marks
  /\ chatPage' = [chatPage EXCEPT ![t] = [p EXCEPT !.marks = @ \union {c}, !.due = TRUE]]
  /\ Decided(t, pair)
  /\ UNCHANGED patches

\* Only this tab forgets the chat: the next list has it again, and whether it is
\* hidden is then the server's to say.
DeleteChat(t, c) ==
  LET p == chatPage[t]
      late == answer[t] # Nothing \/ \E q \in patches : q.chat = c IN
  /\ Choose(t, c, {<<c, "marked">>}, {<<c, "archived">>})
  /\ chatPage' = [chatPage EXCEPT ![t] =
       [p EXCEPT !.flags = [d \in DOMAIN @ \ {c} |-> p.flags[d]],
                 !.marks = @ \union {c},
                 !.due = TRUE]]
  /\ LET pairs == {<<c, "marked">>, <<c, "archived">>}
         now == IF Alone(t) THEN unsure \ pairs ELSE unsure \union pairs IN
       unsure' = IF late THEN now \union {<<c, "hidden">>} ELSE now
  /\ UNCHANGED patches

-------------------------------------------------------------------------------
(* chat-service.                                                            *)

ApplyPatch(q) ==
  /\ serverHidden' = IF q.hidden THEN serverHidden \union {q.chat} ELSE serverHidden \ {q.chat}
  /\ patches' = patches \ {q}
  /\ UNCHANGED <<vault, chatPage, answer, judged, choices, upsets>>

LosePatch(q) ==
  /\ Upset
  /\ patches' = patches \ {q}
  /\ unsure' = unsure \union {<<q.chat, "hidden">>}
  /\ UNCHANGED <<serverHidden, vault, chatPage, answer, wanted, choices>>

\* Another device, whose PATCH these tabs are not told of.
HiddenElsewhere(c) ==
  /\ Upset
  /\ serverHidden' = IF c \in serverHidden THEN serverHidden \ {c} ELSE serverHidden \union {c}
  /\ unsure' = unsure \union {<<c, "hidden">>}
  /\ UNCHANGED <<patches, vault, chatPage, answer, wanted, choices>>

VaultNext ==
  \/ \E t \in Pages :
       \/ OpenTab(t) \/ LoadVault(t) \/ VaultUnreadable(t)
       \/ SaveVault(t) \/ SaveFails(t) \/ CloseTab(t) \/ SignOut(t)
       \/ AskList(t) \/ ListArrives(t) \/ \E hidden \in SUBSET Chats : ListFromCache(t, hidden)
       \/ \E c \in Chats :
            \/ \E on \in BOOLEAN : SetHidden(t, c, on) \/ SetArchived(t, c, on)
            \/ Mark(t, c) \/ DeleteChat(t, c)
  \/ \E q \in patches : ApplyPatch(q) \/ LosePatch(q)
  \/ \E c \in Chats : HiddenElsewhere(c)

VaultSpec == VaultInit /\ [][VaultNext]_vaultVars

-------------------------------------------------------------------------------
(* Properties.                                                             *)

\* A tab that shows a chat shows what its user decided about it last, whatever
\* lists, reloads and sign-ins came between.  Excepted: the tab was left, or
\* storage was full, before the vault had it; the vault was removed or could
\* not be read, and hiding had not reached the server; another tab was open;
\* two PATCHes crossed, one failed, or another device sent one; the list was an
\* old one; or the chat was deleted with such a list or PATCH under way.
ChoicesKept ==
  \A t \in Pages : \A c \in DOMAIN chatPage[t].flags, f \in Flags :
    chatPage[t].at = "ready" /\ <<c, f>> \notin unsure
    => (Holds(chatPage[t], c, f) <=> <<c, f>> \in wanted)
===============================================================================
