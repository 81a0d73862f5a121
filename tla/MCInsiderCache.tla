--------------------------- MODULE MCInsiderCache ---------------------------
\* A small cache for TLC: two wallets, two tokens, three slots.
EXTENDS InsiderCache

CONSTANTS m1, m2, w1, w2

Trade(w, m, buy, slot) == [wallet |-> w, mint |-> m, is_buy |-> buy, sol |-> 1,
                           tokens |-> 1, slot |-> slot, tx |-> 0]

\* Buys of one token by two wallets, in any order of the slots that tell
\* snipers, insiders and retail apart; a sell of it; and a buy of another
\* token, which shares a wallet's window with it.
MCTrades == {Trade(w1, m1, TRUE, slot) : slot \in 0..2}
              \cup {Trade(w2, m1, TRUE, 0), Trade(w2, m1, TRUE, 2)}
              \cup {Trade(w1, m1, FALSE, 0), Trade(w2, m2, TRUE, 1)}
=============================================================================
