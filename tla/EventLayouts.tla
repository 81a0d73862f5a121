---------------------------- MODULE EventLayouts ----------------------------
(***************************************************************************)
(* How one event buffer of a transaction becomes a trade                   *)
(* (src/src/transaction_parser.rs, parse_event_buffer).  A buffer is       *)
(* claimed by a layout, by its discriminators or by its length, and read   *)
(* at that layout's offsets.                                               *)
(*                                                                         *)
(* An Option is a set of at most one value: `?' is a bound over it.  What  *)
(* is read of a buffer is a record of                                      *)
(*   len    its length                                                     *)
(*   main   whether it starts with MAIN_DISCRIMINATOR                      *)
(*   sub    what bytes 8..16 are, if it does                               *)
(*   mint   the public key at 16..48                                       *)
(*   words  offset -> the u64 there, where it is not 0                     *)
(*   flag   the byte at 64 (PumpFun) or 144 (Launchpad)                    *)
(*   text   which of the words "buy" and "sell" its bytes contain          *)
(*   swap   history: the swap that the event stands for, an Option; the    *)
(*          parser does not see it                                         *)
(* Of a transaction: signer, an Option; slot; logs, the instructions that  *)
(* its log messages name; post and pre, its token balances; lamports, the  *)
(* signer's balances, an Option; v4, whether AMM V4 is among its accounts; *)
(* inner, its inner instructions with the index of their group; and, as    *)
(* history again, swap, the one it made on AMM V4, and cost, what else the *)
(* signer was charged in it, in wrapped SOL and in lamports.  A            *)
(* transaction without metadata is one with nothing in it.                 *)
(*                                                                         *)
(* Amounts of SOL are lamports.  Token amounts and prices are left out:    *)
(* nothing that the daemon decides depends on them.                        *)
(***************************************************************************)
EXTENDS Integers, Sequences, FiniteSetsExt

CONSTANTS Wsol,        \* WSOL_MINT
          Sol,         \* lamports in one SOL, 10^9
          PriceScale,  \* what a reserve is multiplied by for the price, 10^9
          MaxU64,      \* the largest u64
          Stamps,      \* the times a trade log may have, 1600000000..2000000000
          TwoDays,     \* the age up to which a u64 is taken for a time, 172800
          Hour         \* how far ahead of the clock it may be, 3600

ASSUME UnitAssumption == /\ Sol \in Nat /\ PriceScale \in Nat \ {0} /\ MaxU64 \in Nat
                         /\ Stamps \subseteq Nat /\ TwoDays \in Nat /\ Hour \in Nat

-----------------------------------------------------------------------------
(* Reading a buffer: None beyond its end.                                  *)

U64(b, off)         == IF off \in DOMAIN b.words THEN b.words[off] ELSE 0
ParseU64(b, off)    == IF off + 8 <= b.len THEN {U64(b, off)} ELSE {}
ParsePubkey(b, off) == IF off + 32 <= b.len THEN {b.mint} ELSE {}
ParseU8(b, off)     == IF off < b.len THEN {b.flag} ELSE {}

\* reserve.checked_mul(1_000_000_000) is not None.
PriceFits(reserve) == reserve <= MaxU64 \div PriceScale

HasBuyInstruction(t)  == "buy" \in t.logs
HasSellInstruction(t) == "sell" \in t.logs

\* The first mint of the balances that is not wrapped SOL, looking at three of
\* them: if these are all wrapped SOL, wrapped SOL.
ExtractTokenMint(t) ==
    LET n      == IF Len(t.post) < 3 THEN Len(t.post) ELSE 3
        tokens == {k \in 1..n : t.post[k].mint # Wsol}
    IN  IF n = 0 THEN {} ELSE {t.post[IF tokens = {} THEN n ELSE Min(tokens)].mint}

\* The mint at offset 16, or one of the balances if that is wrapped SOL.
ActualMint(t, b) ==
    UNION {IF m = Wsol THEN ExtractTokenMint(t) ELSE {m} : m \in ParsePubkey(b, 16)}

\* Defect: what the log says is not asked for.
IsBuyUnlessSell(b, otherwise) == "sell" \notin b.text

\* parse_direction_from_tail, and what is assumed without it.  The words are
\* looked for in the whole buffer, "buy" first.
IsBuy(b, otherwise) == "buy" \in b.text \/ ("sell" \notin b.text /\ otherwise)

\* A u64 that could be a time of now, as find_timestamp_in_buffer sees it.
Recent(v, now) == v <= now + Hour /\ now <= v + TwoDays

TimestampOffsets == <<96, 16, 104, 112, 176, 88, 80>>

\* Defect: whatever is at the first offset is taken.
TimestampUnchecked(b, now) == U64(b, 96)

\* Defect: the last of the offsets that has a time counts.
TimestampLast(b, now) ==
    LET hits == {k \in DOMAIN TimestampOffsets :
                   \E v \in ParseU64(b, TimestampOffsets[k]) : Recent(v, now)}
    IN  IF hits = {} THEN now ELSE U64(b, TimestampOffsets[Max(hits)])

\* find_timestamp_in_buffer, or else the clock.
Timestamp(b, now) ==
    LET hits == {k \in DOMAIN TimestampOffsets :
                   \E v \in ParseU64(b, TimestampOffsets[k]) : Recent(v, now)}
    IN  IF hits = {} THEN now ELSE U64(b, TimestampOffsets[Min(hits)])

-----------------------------------------------------------------------------
(* The layouts.                                                            *)

\* slot and tx_index are the caller's to fill in.
Trade(wallet, mint, is_buy, sol, ts, dex) ==
    [wallet |-> wallet, mint |-> mint, is_buy |-> is_buy, sol |-> sol, ts |-> ts,
     dex |-> dex, slot |-> 0, tx |-> 0]

\* 260 bytes or more: any amount, and a buy if nothing says otherwise.
ParseSwapStandard(t, b, wallet, now) ==
    {Trade(wallet, mint, IsBuy(b, HasBuyInstruction(t) \/ ~HasSellInstruction(t)), sol,
           Timestamp(b, now), "PumpSwap") :
       mint \in ActualMint(t, b), sol \in ParseU64(b, 48)}

\* Defect: 1000 SOL is already too much.
RealisticBelow(v) == v >= Sol \div 1000 /\ v < 1000 * Sol

\* From 0.001 to 1000 SOL.
Realistic(v) == v >= Sol \div 1000 /\ v <= 1000 * Sol

\* The first word behind the mint that looks like an amount of SOL.
ParseSwapCompactAlt(t, b, wallet, mint, now) ==
    LET hits == {off \in {48 + 8 * i : i \in 0..((b.len - 57) \div 8)} :
                   Realistic(U64(b, off))}
    IN  IF hits = {} THEN {}
        ELSE {Trade(wallet, mint, IsBuy(b, HasBuyInstruction(t)), U64(b, Min(hits)),
                    Timestamp(b, now), "PumpSwap")}

\* Less than 260: a sell if nothing says otherwise.  An amount of more than
\* 1000 SOL is taken for something else.
ParseSwapCompact(t, b, wallet, now) ==
    UNION {IF sol > 1000 * Sol THEN ParseSwapCompactAlt(t, b, wallet, mint, now)
           ELSE {Trade(wallet, mint, IsBuy(b, HasBuyInstruction(t)), sol,
                       Timestamp(b, now), "PumpSwap")} :
             mint \in ActualMint(t, b), sol \in ParseU64(b, 48)}

ParseSwap(t, b, wallet, now) ==
    IF b.len < 64 THEN {}
    ELSE IF b.len >= 260 THEN ParseSwapStandard(t, b, wallet, now)
    ELSE ParseSwapCompact(t, b, wallet, now)

\* Amount, time and price must make sense; the mint is the balances'.
ParseTradeLog(t, b, wallet) ==
    IF b.len < 80 THEN {}
    ELSE {Trade(wallet, mint, HasBuyInstruction(t) \/ ~HasSellInstruction(t), U64(b, 24),
                U64(b, 16), "PumpSwap") :
            mint \in {m \in ExtractTokenMint(t) :
                        /\ U64(b, 16) \in Stamps
                        /\ U64(b, 24) \in 1..(10000 * Sol)
                        /\ U64(b, 40) > 0 => PriceFits(U64(b, 56))}}

\* 266, 170 and 138 bytes: everything is in the event; the time is not looked at.
ParsePumpFun(b, wallet) ==
    {Trade(wallet, mint, b.flag = 1, U64(b, 48), U64(b, 97), "PumpFun") :
       mint \in {m \in ParsePubkey(b, 16) : PriceFits(U64(b, 105))}}

AbsDiff(x, y) == IF x > y THEN x - y ELSE y - x

\* The amount is what the pool's SOL reserve changed by; the mint is the balances'.
ParseRaydium146(t, b, wallet, now) ==
    {Trade(wallet, mint, flag # 1, AbsDiff(U64(b, 96), U64(b, 80)), now, "RaydiumLaunchpad") :
       mint \in ExtractTokenMint(t), flag \in ParseU8(b, 144)}

\* The layout that claims a buffer.
ParseEventBuffer(t, b, now) ==
    UNION {CASE b.len < 16                           -> {}
             [] b.main /\ b.sub = "swap"             -> ParseSwap(t, b, wallet, now)
             [] b.main /\ b.sub = "trade_log"        -> ParseTradeLog(t, b, wallet)
             [] ~b.main /\ b.len \in {266, 170, 138} -> ParsePumpFun(b, wallet)
             [] ~b.main /\ b.len = 146               -> ParseRaydium146(t, b, wallet, now)
             [] OTHER                                -> {} :
             wallet \in t.signer}

-----------------------------------------------------------------------------
(* AMM V4: no event is read, the signer's balances are compared instead.   *)

\* What a token balance of the signer changed by; one without an earlier entry was 0.
Delta(t, i) ==
    LET earlier == {p \in t.pre : p.account = t.post[i].account /\ p.mint = t.post[i].mint}
    IN  t.post[i].amount - (IF earlier = {} THEN 0 ELSE (CHOOSE p \in earlier : TRUE).amount)

LastOf(S)    == IF S = {} THEN {} ELSE {Max(S)}
Owned(t)     == {i \in DOMAIN t.post : t.post[i].owner \in t.signer}
SolLegs(t)   == {i \in Owned(t) : t.post[i].mint = Wsol}
TokenLegs(t) == {i \in Owned(t) : t.post[i].mint # Wsol /\ Delta(t, i) # 0}

\* The last balance in wrapped SOL, or else the change in lamports.
SolDelta(t) == IF SolLegs(t) # {} THEN {Delta(t, i) : i \in LastOf(SolLegs(t))}
               ELSE {l.post - l.pre : l \in t.lamports}

\* A buy if SOL went and tokens came, a sell the other way round; the last
\* token that changed counts, and from 0.0001 to 50000 SOL.
BalanceDiff(t, now) ==
    {Trade(wallet, t.post[leg].mint, sol < 0, AbsDiff(sol, 0), now, "RaydiumAmmV4") :
       wallet \in t.signer,
       sol \in {s \in SolDelta(t) : AbsDiff(s, 0) \in (Sol \div 10000)..(50000 * Sol)},
       leg \in {i \in LastOf(TokenLegs(t)) :
                  \A s \in SolDelta(t) : s # 0 /\ (s < 0 <=> Delta(t, i) > 0)}}
=============================================================================
