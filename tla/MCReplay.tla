------------------------------ MODULE MCReplay ------------------------------
\* Replay for TLC: two wallets and two tokens.
EXTENDS Replay

CONSTANTS m1, m2, w1, w2

Trade(w, m, buy, sol, slot, tx, ts) ==
    [wallet |-> w, mint |-> m, is_buy |-> buy, sol |-> sol, slot |-> slot, tx |-> tx, ts |-> ts]

\* A transaction's trades are of one wallet and one slot.  One wallet buys and
\* sells a token, with equal keys possible, the other buys it before, in the
\* same block or in the block after; round trips that win and that lose; trades
\* too old, of unknown time, and too large.
MCMessages == {<< Trade(w1, m1, TRUE,  2, 1, 0, 5) >>,
               << Trade(w1, m1, FALSE, 6, 2, 0, 0) >>,
               << Trade(w1, m1, TRUE,  2, 2, 0, 0) >>,
               << Trade(w1, m2, TRUE,  9, 3, 0, 1), Trade(w1, m2, TRUE,  9, 3, 1, 0) >>,
               << Trade(w2, m1, TRUE,  2, 0, 0, 4) >>,
               << Trade(w2, m1, TRUE,  2, 2, 1, 6) >>,
               << Trade(w2, m1, FALSE, 1, 3, 0, 7), Trade(w2, m1, FALSE, 6, 3, 1, 7) >>,
               << Trade(w2, m2, TRUE,  1, 1, 0, 0), Trade(w2, m2, FALSE, 3, 1, 1, 0) >>}

MCVolume == << 1000, 1069, 1110, 1139, 1161 >>
=============================================================================
