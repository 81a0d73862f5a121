-------------------------- MODULE MCTokenRegistry ---------------------------
\* A small registry for TLC: two tokens, four slots.
EXTENDS TokenRegistry

CONSTANTS m1, m2

MCMints == {m1, m2}
MCSlots == 0..3
=============================================================================
