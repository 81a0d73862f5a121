----------------------------- MODULE DexEvents ------------------------------
(***************************************************************************)
(* What the programs put into a transaction for a swap, as far as the      *)
(* parser relies on it: the environment of TransactionParser.  A swap is   *)
(* what a wallet did: the mint, the side, the lamports and the time.       *)
(*                                                                         *)
(* A layout is a relation between an event and its swap: it says what is   *)
(* at the offsets that the layout gives a meaning, and nothing of the      *)
(* other words.  A fee, a piece of a public key or the pool's reserves may *)
(* be any number there, one that looks like a time or an amount included.  *)
(***************************************************************************)
EXTENDS TransactionParser, SequencesExt

\* PumpSwap's swap event: the mint or that of the SOL side, the amount and the time.
\* In a short one a field before the amount, a fee or flags, may move them on by one
\* word, the time with the amount or not.
ReportsSwap(e, swap) ==
    /\ e.main /\ e.sub = "swap" /\ e.mint \in {swap.mint, Wsol}
    /\ \/ e.len >= 104 /\ U64(e, 48) = swap.sol /\ U64(e, 96) = swap.ts
       \/ e.len \in 112..259 /\ U64(e, 56) = swap.sol /\ swap.ts \in {U64(e, 96), U64(e, 104)}

\* PumpSwap's log of a trade.  It has no mint.
ReportsTradeLog(e, swap) ==
    /\ e.main /\ e.sub = "trade_log" /\ e.len = 384 /\ e.mint = Wsol
    /\ U64(e, 16) = swap.ts /\ U64(e, 24) = swap.sol

\* A trade on PumpFun's bonding curve.
ReportsPumpFun(e, swap) ==
    /\ ~e.main /\ e.len \in {266, 170, 138} /\ e.mint = swap.mint
    /\ e.flag = 1 <=> swap.is_buy
    /\ U64(e, 48) = swap.sol /\ U64(e, 97) = swap.ts

\* A trade on Raydium's launchpad: the pool's SOL before and after it.
ReportsLaunchpad(e, swap) ==
    /\ ~e.main /\ e.len = 146 /\ e.mint = Wsol
    /\ e.flag = 1 <=> ~swap.is_buy
    /\ U64(e, 96) = IF swap.is_buy THEN U64(e, 80) + swap.sol ELSE U64(e, 80) - swap.sol

EventReports(e, swap) == \/ ReportsSwap(e, swap)
                         \/ ReportsTradeLog(e, swap)
                         \/ ReportsPumpFun(e, swap)
                         \/ ReportsLaunchpad(e, swap)

\* On AMM V4 the signer's tokens have changed in the swap's token only.  Its SOL has
\* changed by the swap and by what else it was charged, or given: in lamports the fee,
\* as it is the fee payer, and the rent of accounts opened or closed; in wrapped SOL
\* what it wrapped for the swap.
BalancesReport(t, swap) ==
    LET sol == IF swap.is_buy THEN -swap.sol ELSE swap.sol
    IN  /\ t.v4
        /\ t.cost.wrapped \in Int /\ t.cost.lamports \in Int
        /\ \A i \in Owned(t) \ SolLegs(t) :
             /\ t.post[i].mint = swap.mint
             /\ Delta(t, i) \in Int \ {0} /\ (Delta(t, i) > 0 <=> swap.is_buy)
        /\ \A i \in SolLegs(t) : Delta(t, i) = sol - t.cost.wrapped
        /\ SolLegs(t) = {} => \A l \in t.lamports : l.post - l.pre = sol - t.cost.lamports

SwapOK(swap) == swap.mint # Wsol /\ swap.is_buy \in BOOLEAN /\ swap.sol \in Nat /\ swap.ts \in Nat

Reported(t) ==
    /\ t.post \in Seq(ToSet(t.post))
    /\ \A swap \in t.swap : SwapOK(swap) /\ BalancesReport(t, swap)
    /\ \A i \in DOMAIN t.inner : \A swap \in t.inner[i].data.swap :
         SwapOK(swap) /\ EventReports(t.inner[i].data, swap)

ASSUME ReportsAssumption == \A t \in Transactions : Reported(t)
=============================================================================
