------------------------------- MODULE Timeline -------------------------------
(***************************************************************************)
(* What one conversation promises to everybody who reads it.               *)
(*                                                                         *)
(* The log is the conversation as stored: entry number s is the message    *)
(* whose sequence number is s.  A message is appended at the end, once;    *)
(* nothing is ever removed or renumbered.  A message is announced to the   *)
(* connected members after it is in the log, and never twice.              *)
(*                                                                         *)
(* ChatSend implements this specification with concurrent handlers, a row  *)
(* lock and a unique index.                                                *)
(***************************************************************************)
EXTENDS Naturals, Sequences

CONSTANT ClientIds          \* client_msg_id values, one per message written

VARIABLES
  log,                      \* sequence of client_msg_id, in seq order
  announced                 \* how many times each message was announced

vars == <<log, announced>>

Stored(c) == \E s \in DOMAIN log : log[s] = c

Init ==
  /\ log = << >>
  /\ announced = [c \in ClientIds |-> 0]

Store(c) ==
  /\ ~ Stored(c)
  /\ log' = Append(log, c)
  /\ UNCHANGED announced

Announce(c) ==
  /\ Stored(c)
  /\ announced[c] = 0
  /\ announced' = [announced EXCEPT ![c] = 1]
  /\ UNCHANGED log

Next == \E c \in ClientIds : Store(c) \/ Announce(c)

Spec == Init /\ [][Next]_vars
===============================================================================
