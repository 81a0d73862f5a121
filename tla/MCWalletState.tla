--------------------------- MODULE MCWalletState ----------------------------
\* One wallet for TLC.  A SOL unit of 10 makes both thresholds reachable from
\* either side: 9 of 10 closes, 8 of 10 does not and dumps, 7 of 10 does not.
EXTENDS WalletState

CONSTANTS m1, m2

Trade(m, buy, sol, slot) == [wallet |-> "w", mint |-> m, is_buy |-> buy, sol |-> sol,
                             tokens |-> 1, slot |-> slot, tx |-> 0]

\* Two tokens; the sells of the first come from slots before its buy, so that
\* its T0 is revised.
MCTrades == {Trade(m1, TRUE, 10, 3), Trade(m1, FALSE, 7, 2), Trade(m1, FALSE, 9, 1),
             Trade(m1, FALSE, 20, 0), Trade(m2, TRUE, 0, 2), Trade(m2, FALSE, 1, 2)}
=============================================================================
