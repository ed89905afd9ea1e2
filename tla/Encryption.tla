------------------------------- MODULE Encryption -------------------------------
(***************************************************************************)
(* End-to-end encryption of one conversation: encryptForConversation and   *)
(* decryptApiMessage send a direct message through the Double Ratchet and  *)
(* a group's through sender keys, and files are encrypted with a key each, *)
(* which travels in such a message.  The three share no state: a behaviour *)
(* is of one of them.  Messages that carry all they need (v7, PQXDH, and   *)
(* v4) keep no state and are left out.                                     *)
(***************************************************************************)
EXTENDS Ratchet, SenderKeys, MediaMessages

VARIABLE kind               \* of the messages: "direct", "group" or "media"

vars == <<kind, dmVars, groupVars, mediaVars>>

Init == kind \in {"direct", "group", "media"} /\ DmInit /\ GroupInit /\ MediaInit

DirectMessage == kind = "direct" /\ DmNext /\ UNCHANGED <<kind, groupVars, mediaVars>>
GroupMessage == kind = "group" /\ GroupNext /\ UNCHANGED <<kind, dmVars, mediaVars>>
MediaMessage == kind = "media" /\ MediaNext /\ UNCHANGED <<kind, dmVars, groupVars>>

Next == DirectMessage \/ GroupMessage \/ MediaMessage

Spec == Init /\ [][Next]_vars
===============================================================================
