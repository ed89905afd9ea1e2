-------------------------------- MODULE MCOutbox --------------------------------
EXTENDS Outbox, TLC

CONSTANTS m1, m2

MCSymmetry == Permutations({m1, m2})

\* What becomes of a written message's row on the screen decides nothing about
\* the queue: states that differ in it alone are one.
MCView ==
  <<queue, todo, live, rest, sync, resolved, ws, frames, replies,
    {m \in Msgs : bubble[m] = "unwritten"}, stored, seen, drops, faults, unheard>>
===============================================================================
