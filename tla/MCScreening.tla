---------------------------- MODULE MCScreening ----------------------------
\* Screening for TLC.  Thresholds of one let a wallet qualify after a buy and
\* two sells, the first of which is no dump.
EXTENDS Screening

CONSTANTS m1, m2, w1, w2

Trade(w, buy, sol, slot, tx) == [wallet |-> w, mint |-> m1, is_buy |-> buy, sol |-> sol,
                                 tokens |-> 1, slot |-> slot, tx |-> tx]

\* One wallet's sells lower T0; the other's buys follow the first one's; a buy of
\* another token shares a wallet's window with them.
MCTrades == {Trade(w1, TRUE, 10, 1, 0), Trade(w1, FALSE, 7, 2, 0), Trade(w1, FALSE, 7, 0, 0),
             Trade(w2, TRUE, 10, 1, 1), Trade(w2, TRUE, 10, 2, 0),
             [Trade(w1, TRUE, 10, 1, 0) EXCEPT !.mint = m2]}
=============================================================================
