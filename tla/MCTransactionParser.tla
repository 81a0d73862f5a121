------------------------ MODULE MCTransactionParser -------------------------
\* Transactions for TLC: each layout with what can mislead it, alone or next to
\* another event, under any log and with token balances in different orders.
EXTENDS DexEvents

CONSTANTS m1, m2, w1

Swap(mint, is_buy, sol, ts) == [mint |-> mint, is_buy |-> is_buy, sol |-> sol, ts |-> ts]

\* Two days old in a moment, of now, or a little too far ahead.  Seconds and
\* lamports are scaled alike, so that a time looks like 1.7 SOL as it does there.
Swaps == {Swap(m1, side, 2 * Sol, ts) :
            side \in BOOLEAN, ts \in {Start - TwoDays, Start, Start + Hour + 1}}

\* Dust, the limits of what a short event may be taken for, and a whale.
Extremes == {Swap(m1, side, sol, Start) :
               side \in BOOLEAN, sol \in {Sol \div 2000, Sol \div 1000, 1000 * Sol, 2000 * Sol}}

-----------------------------------------------------------------------------
(* Events, from pairs of offset and word.                                  *)

Words(W) == [off \in {w[1] : w \in W} |-> (CHOOSE w \in W : w[1] = off)[2]]

Event(len, main, sub, mint, flag, text, W, option) ==
    [len |-> len, main |-> main, sub |-> sub, mint |-> mint, flag |-> flag, text |-> text,
     words |-> Words(W), swap |-> option]

Text(s) == {Side(s.is_buy)}

SwapEvent(len, s, mint, text, others) ==
    Event(len, TRUE, "swap", mint, 0, text, {<<48, s.sol>>, <<96, s.ts>>} \cup others, {s})

ShiftedSwapEvent(s, field, at_off, text, others) ==
    Event(155, TRUE, "swap", s.mint, 0, text,
          {<<48, field>>, <<56, s.sol>>, <<at_off, s.ts>>} \cup others, {s})

TradeLogEvent(s, reserve) ==
    Event(384, TRUE, "trade_log", Wsol, 0, {},
          {<<16, s.ts>>, <<24, s.sol>>, <<40, reserve>>, <<56, reserve>>, <<96, Start>>}, {s})

PumpFunEvent(len, s, reserve) ==
    Event(len, FALSE, "other", s.mint, IF s.is_buy THEN 1 ELSE 0, {},
          {<<48, s.sol>>, <<56, 7>>, <<97, s.ts>>, <<105, reserve>>}, {s})

LaunchpadEvent(s, before) ==
    Event(146, FALSE, "other", Wsol, IF s.is_buy THEN 0 ELSE 1, {},
          {<<80, before>>, <<96, IF s.is_buy THEN before + s.sol ELSE before - s.sol>>}, {s})

\* A fee event, an unknown one, instruction data of another program.
OtherEvent(len, main, sub) == Event(len, main, sub, Wsol, 0, {"buy"}, {<<96, Start>>}, {})

-----------------------------------------------------------------------------
\* Other words of a swap event: a fee at 104 that looks like a time, alone or before
\* one that is in the long form only, and words of public keys that do.
Fees        == {{<<104, Start - 1>>}, {<<112, Start - 1>>, <<176, Start + 1>>}}
PieceOfKeys == {{<<16, Start + 1>>, <<104, Start - 1>>}, {<<80, Start - 1>>, <<88, Start - 2>>}}
Misleading  == {{}} \cup Fees \cup PieceOfKeys

\* What is before the amount in a shifted event: flags, a small fee, one like an
\* amount, the most that may be one, and what cannot be.
Fields == {0, Sol \div 2000, 1000 * Sol, 1000 * Sol + 1, 5000 * Sol}

\* A reserve at the limit of what the price can take, and above it.
Reserves == {MaxU64 \div PriceScale, MaxU64 \div PriceScale + 1}

Texts(s) == {Text(s), {}, {"buy", "sell"}}

Events == UNION {
    UNION {{SwapEvent(len, s, mint, text, {}) : len \in {155, 290}, mint \in {m1, Wsol},
                                                text \in Texts(s)} : s \in Swaps},
    UNION {{ShiftedSwapEvent(s, 5000 * Sol, 96, text, {}) : text \in Texts(s)} : s \in Swaps},
    {TradeLogEvent(s, r) : s \in Swaps, r \in {0} \cup Reserves},
    {PumpFunEvent(len, s, r) : len \in {266, 170, 138}, s \in Swaps, r \in Reserves},
    {LaunchpadEvent(s, 9 * Sol) : s \in Swaps},
    {OtherEvent(215, TRUE, "fee"), OtherEvent(300, TRUE, "other"),
     OtherEvent(15, TRUE, "swap"), OtherEvent(300, FALSE, "other")}}

\* Those whose other words are misleading, whose sizes are extreme, or both.
Misread == UNION {
    {SwapEvent(len, s, m1, Text(s), others) :
       len \in {155, 290}, s \in Swaps \cup Extremes, others \in Misleading},
    {ShiftedSwapEvent(s, field, 96, Text(s), others) :
       field \in Fields, s \in Swaps \cup Extremes, others \in {{}} \cup Fees},
    {ShiftedSwapEvent(s, field, 104, Text(s), others) :
       field \in Fields, s \in Swaps \cup Extremes,
       others \in {{}, {<<96, Start - 1>>}, {<<16, Start + 1>>}, {<<112, Start - 1>>}}},
    {TradeLogEvent(s, 0) : s \in Extremes \cup {Swap(m1, TRUE, 20000 * Sol, Start),
                                                Swap(m1, TRUE, Sol, 1)}}}

\* What else may be in the transaction.
Others == {OtherEvent(215, TRUE, "fee"),
           SwapEvent(155, Swap(m2, TRUE, Sol, Start), m2, {"buy"}, {})}

MCStamps == 16000..20000

Inner(group, event) == [group |-> group, data |-> event]
Inners == UNION {{<<Inner(0, e)>>} \cup {<<Inner(0, e), Inner(1, f)>> : f \in Others}
                    \cup {<<Inner(0, f), Inner(0, e)>> : f \in Others} : e \in Events}

Posts == {<< >>, <<m1>>, <<Wsol, m1>>, <<Wsol, Wsol, Wsol, m1>>, <<m2, m1>>}

\* A token balance.
Balance(account, owner, mint, amount) ==
    [account |-> account, owner |-> owner, mint |-> mint, amount |-> amount]

Transaction(signer, logs, mints, inner) ==
    [NoTransaction EXCEPT !.signer = signer, !.slot = 1, !.logs = logs, !.inner = inner,
       !.post = [i \in DOMAIN mints |-> Balance(i, w1, mints[i], 1)]]

-----------------------------------------------------------------------------
(* Swaps on AMM V4, with SOL in an account of wrapped SOL or in lamports.  *)

Held == 60000 * Sol

SwapOnV4(t, wallet, s, wrapped, cost) ==
    LET sol == IF s.is_buy THEN -s.sol ELSE s.sol
        tok == IF s.is_buy THEN 5 ELSE -5
        Accounts(before, held) ==
          <<Balance(3, "pool", Wsol, 90 - before), Balance(4, wallet, s.mint, 9 + before * tok)>>
            \o IF wrapped THEN <<Balance(5, wallet, Wsol, held)>> ELSE << >>
    IN  [t EXCEPT !.v4 = TRUE, !.swap = {s}, !.cost = cost,
                  !.post = Accounts(1, Held + sol - cost.wrapped),
                  !.pre = ToSet(Accounts(0, Held)),
                  !.lamports = {[pre |-> Held, post |-> Held + (IF wrapped THEN 0 ELSE sol)
                                                             - cost.lamports]}]

\* The token account was empty before and did not exist, or is empty now and closed.
FirstBuyOnV4(t) == [t EXCEPT !.pre = {p \in @ : p.mint = Wsol}]
ClosingSellOnV4(t) == [t EXCEPT !.post = SelectSeq(@, LAMBDA p : p.mint = Wsol)]

\* The fee; with the rent of an account, paid or returned; and what was wrapped.
Costs == {[wrapped |-> 0, lamports |-> 1], [wrapped |-> 0, lamports |-> 21],
          [wrapped |-> -10 * Sol, lamports |-> 10 * Sol + 1],
          [wrapped |-> 0, lamports |-> -19]}

\* Also one smaller than the rent and those at the limits of what is read.
V4Swaps == Swaps \cup {Swap(m1, side, sol, Start) :
             side \in BOOLEAN,
             sol \in {Sol \div 1000, Sol \div 10000, 50000 * Sol - 1, 50000 * Sol + 1}}

OnV4 == LET bare == {Transaction({w1}, {}, << >>, inner) :
                       inner \in {<< >>, <<Inner(0, SwapEvent(290, Swap(m2, TRUE, Sol, Start),
                                                              m2, {"buy"}, {}))>>}}
            On(s) == {SwapOnV4(t, w1, s, wrapped, cost) :
                        t \in bare, wrapped \in BOOLEAN, cost \in Costs}
        IN  UNION {On(s) \cup {IF s.is_buy THEN FirstBuyOnV4(t) ELSE ClosingSellOnV4(t) : t \in On(s)} :
                     s \in V4Swaps}

MCTransactions ==
    {Transaction({w1}, logs, mints, inner) :
       logs \in SUBSET {"buy", "sell"}, mints \in Posts, inner \in Inners}
    \cup {Transaction({w1}, {}, <<m1>>, <<Inner(0, e)>>) : e \in Misread}
    \cup {Transaction({}, {}, <<m1>>, inner) : inner \in Inners}
    \cup OnV4
=============================================================================
