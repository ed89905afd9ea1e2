------------------------------ MODULE MCChatSend ------------------------------
EXTENDS ChatSend, TLC

CONSTANTS alice, m1, m2, h1, h2, n1, n2

\* One author, two messages: every interleaving of their retries.
MCSenderOf == (m1 :> alice) @@ (m2 :> alice)
\* Each handler runs in a process of its own.
MCNodeOf == (h1 :> n1) @@ (h2 :> n2)
===============================================================================
