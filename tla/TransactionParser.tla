------------------------- MODULE TransactionParser --------------------------
(***************************************************************************)
(* parse_all_events of src/src/transaction_parser.rs, as both streamers    *)
(* call it: one transaction at a time, its AMM V4 swap first and then its  *)
(* inner instructions in their order.  The clock, which stamps the trades  *)
(* whose events do not, may go on between any two of them.                 *)
(***************************************************************************)
EXTENDS EventLayouts

CONSTANTS Transactions,  \* the transactions that may be received
          Ticks,         \* by how much the clock may go on
          Start,         \* the time at which the parser starts
          MaxNow         \* bound on the clock, for TLC

ASSUME ClockAssumption == Ticks \subseteq Nat /\ Start \in Nat /\ MaxNow \in Nat

BufferOK(b)      == b.len \in Nat /\ \A off \in DOMAIN b.words : b.words[off] \in 0..MaxU64
TransactionOK(t) == /\ Len(t.inner) \in Nat /\ DOMAIN t.inner = 1..Len(t.inner)
                    /\ \A i \in DOMAIN t.inner : BufferOK(t.inner[i].data)

ASSUME TransactionAssumption == \A t \in Transactions : TransactionOK(t)

VARIABLES pc,      \* "receive", "balances", "walk"
          txn,     \* the transaction
          at,      \* the next inner instruction
          trades,  \* those parsed so far
          origin,  \* history: the instruction each of them is from, 0 for AMM V4
          now      \* the clock

vars == <<pc, txn, at, trades, origin, now>>

NoTransaction == [signer |-> {}, slot |-> 0, logs |-> {}, post |-> << >>, pre |-> {},
                  lamports |-> {}, v4 |-> FALSE, inner |-> << >>, swap |-> {},
                  cost |-> [wrapped |-> 0, lamports |-> 0]]

Init == /\ pc = "receive"
        /\ txn = NoTransaction
        /\ at = 1
        /\ trades = << >>
        /\ origin = << >>
        /\ now = Start

Receive ==
    /\ pc = "receive"
    /\ txn' \in Transactions
    /\ pc' = "balances"
    /\ UNCHANGED <<at, trades, origin, now>>

\* Defect: the slot of the envelope is not filled in.
PushUnfilled(trade, tx, from) ==
    /\ trades' = Append(trades, [trade EXCEPT !.tx = tx])
    /\ origin' = Append(origin, from)

\* trades.push, with slot and tx_index filled in.
Push(trade, tx, from) ==
    /\ trades' = Append(trades, [trade EXCEPT !.slot = txn.slot, !.tx = tx])
    /\ origin' = Append(origin, from)

\* Push what an Option holds.
PushAny(option, tx, from) ==
    \/ \E trade \in option : Push(trade, tx, from)
    \/ option = {} /\ UNCHANGED <<trades, origin>>

\* is_program_involved, parse_raydium_v4_balance_diff
ParseBalances ==
    /\ pc = "balances"
    /\ PushAny(IF txn.v4 THEN BalanceDiff(txn, now) ELSE {}, 0, 0)
    /\ pc' = "walk"
    /\ UNCHANGED <<txn, at, now>>

\* Defect: a V4 swap is the transaction's only trade.
ParseInnerUnlessV4 ==
    /\ pc = "walk"
    /\ at \in DOMAIN txn.inner
    /\ PushAny(IF txn.v4 THEN {} ELSE ParseEventBuffer(txn, txn.inner[at].data, now),
               txn.inner[at].group, at)
    /\ at' = at + 1
    /\ UNCHANGED <<pc, txn, now>>

\* The next inner instruction.  tx_index is the index of its group.
ParseInner ==
    /\ pc = "walk"
    /\ at \in DOMAIN txn.inner
    /\ PushAny(ParseEventBuffer(txn, txn.inner[at].data, now), txn.inner[at].group, at)
    /\ at' = at + 1
    /\ UNCHANGED <<pc, txn, now>>

Walked == pc = "walk" /\ at \notin DOMAIN txn.inner

\* The caller takes the trades.
Return ==
    /\ Walked
    /\ pc' = "receive"
    /\ txn' = NoTransaction
    /\ at' = 1
    /\ trades' = << >>
    /\ origin' = << >>
    /\ UNCHANGED now

\* Time passes.
Tick == \E d \in Ticks :
    /\ now + d <= MaxNow
    /\ now' = now + d
    /\ UNCHANGED <<pc, txn, at, trades, origin>>

Next == Receive \/ ParseBalances \/ ParseInner \/ Return \/ Tick

Spec == Init /\ [][Next]_vars

-----------------------------------------------------------------------------
\* The walk is within the instructions, and the trades come from what has been
\* walked, in its order, with the transaction's slot and their group's index.
TypeOK ==
    /\ pc \in {"receive", "balances", "walk"}
    /\ at \in 1..(Len(txn.inner) + 1)
    /\ now \in Nat
    /\ Len(origin) = Len(trades)
    /\ \A k \in DOMAIN trades : /\ origin[k] \in 0..(at - 1)
                                /\ \A j \in 1..(k - 1) : origin[j] < origin[k]
                                /\ trades[k].slot = txn.slot

\* What the event or, for origin 0, the balances of a trade stand for.
EventOf(i) == txn.inner[i].data
SwapOf(i)  == IF i = 0 THEN txn.swap ELSE EventOf(i).swap

Side(is_buy) == IF is_buy THEN "buy" ELSE "sell"

\* What is said about the side of a PumpSwap event: by a word in it, if it is a swap
\* event and has one, or else by the log.
Said(i) == IF EventOf(i).sub = "swap" /\ EventOf(i).text # {} THEN EventOf(i).text ELSE txn.logs

\* A PumpSwap trade has the side that its event or the log states, if they state one:
\* what is assumed when nothing is said, which differs from layout to layout, never
\* overrules what is (transaction_parser.rs:325-342, :415-418, :488-491, :577).
SidesAreAsSaid ==
    \A k \in DOMAIN trades :
      origin[k] # 0 /\ EventOf(origin[k]).main =>
        \A is_buy \in BOOLEAN :
          Said(origin[k]) = {Side(is_buy)} => trades[k].is_buy = is_buy

\* Whether the mint is in the event, or else is the first that the parser can
\* find in the balances.
MintIsClear(i, mint) ==
    \/ i = 0
    \/ EventOf(i).mint = mint /\ mint # Wsol
    \/ \E k \in DOMAIN txn.post \cap 1..3 :
         /\ txn.post[k].mint = mint
         /\ \A j \in 1..(k - 1) : txn.post[j].mint = Wsol

\* Whether the amount of a swap is where a short event is first looked at for it, and
\* of a usual size, or else behind a field that cannot be one, because it is above
\* 1000 SOL.  A smaller field, be it a fee or flags, is taken for the amount.
AmountIsClear(i, s) ==
    i # 0 /\ EventOf(i).main /\ EventOf(i).sub = "swap" /\ EventOf(i).len < 260 =>
      \/ U64(EventOf(i), 48) = s.sol /\ s.sol <= 1000 * Sol
      \/ /\ U64(EventOf(i), 48) > 1000 * Sol
         /\ U64(EventOf(i), 56) = s.sol /\ s.sol \in (Sol \div 1000)..(1000 * Sol)

\* A swap's SOL with what else its wallet was charged in the balance that is compared
\* on AMM V4: its wrapped SOL, or without an account for that its lamports.
Net(i, s) ==
    LET cost == IF i # 0 THEN 0
                ELSE IF SolLegs(txn) # {} THEN txn.cost.wrapped ELSE txn.cost.lamports
    IN  IF s.is_buy THEN s.sol + cost ELSE s.sol - cost

\* The numbers in an event.
WordsOf(e) == {0} \cup {e.words[off] : off \in DOMAIN e.words}

\* Whichever layout claims an event, by its length or its discriminator, the trade
\* read from it is the swap that the program reported: its wallet, its mint and, where
\* the balances or a flag of the event tell, its side.  The amount is the swap's, on
\* AMM V4 with fee and rent; where a short event leaves it in doubt it is some word of
\* the event, of at most 1000 SOL (transaction_parser.rs:179-248, with the layouts of
\* :253-271, :530-541 and :893-900, the guess of :400-478 and the balances of :967-975).
SwapsAreReadBack ==
    \A k \in DOMAIN trades : \A s \in SwapOf(origin[k]) :
      /\ trades[k].wallet \in txn.signer
      /\ IF AmountIsClear(origin[k], s) THEN trades[k].sol = Net(origin[k], s)
         ELSE trades[k].sol \in WordsOf(EventOf(origin[k])) /\ trades[k].sol <= 1000 * Sol
      /\ MintIsClear(origin[k], s.mint) => trades[k].mint = s.mint
      /\ origin[k] = 0 \/ ~EventOf(origin[k]).main => trades[k].is_buy = s.is_buy

\* Nothing in the event keeps it from being read: the amount of a short one is not
\* above 1000 SOL, or is a usual one behind a field that is; a trade log has a time and
\* an amount; the reserve fits the price; and there is a balance if that must name
\* the mint.
EventIsReadable(e) ==
    /\ ~e.main /\ e.len # 146 => PriceFits(U64(e, 105))
    /\ e.main /\ e.sub = "swap" /\ e.len < 260 /\ U64(e, 48) > 1000 * Sol =>
         U64(e, 56) \in (Sol \div 1000)..(1000 * Sol)
    /\ e.main /\ e.sub = "trade_log" =>
         /\ U64(e, 16) \in Stamps
         /\ U64(e, 24) \in 1..(10000 * Sol)
         /\ U64(e, 40) > 0 => PriceFits(U64(e, 56))
    /\ e.mint # Wsol \/ txn.post # << >>

\* The signer's account for the token, which a sale of all of it may close, is still
\* there, SOL is found in an account or in lamports, and the swap is not outweighed by
\* what else was charged, as a small sale is by its fee, nor of an extreme size.
BalancesAreReadable ==
    /\ \A s \in txn.swap : /\ \E i \in Owned(txn) : txn.post[i].mint = s.mint
                          /\ Net(0, s) > 0
                          /\ Net(0, s) \in (Sol \div 10000)..(50000 * Sol)
    /\ SolLegs(txn) # {} \/ txn.lamports # {}

\* A readable swap is in the result, whatever else the transaction does
\* (transaction_parser.rs:851-880).
EverySwapIsRead ==
    Walked /\ txn.signer # {} => \A i \in 0..Len(txn.inner) :
      /\ SwapOf(i) # {}
      /\ IF i = 0 THEN BalancesAreReadable ELSE EventIsReadable(EventOf(i))
      => \E k \in DOMAIN trades : origin[k] = i

\* Nothing tells the parser the time of a swap at that moment: it is two days old or
\* more, as in a replay, or an hour ahead; or the event is a short one that has it at
\* 104, and one of the words before that in the search passes for a time.
TimeIsUnclear(i, s, clock) ==
    \/ ~Recent(s.ts, clock)
    \/ /\ U64(EventOf(i), 96) # s.ts
       /\ Recent(U64(EventOf(i), 96), clock) \/ Recent(U64(EventOf(i), 16), clock)

\* A PumpSwap or PumpFun trade is stamped with its swap's time, unless that of a
\* PumpSwap trade was unclear when it was parsed: then it has the parser's or a number
\* of the event that could have been a time of then, such as a fee of 1.7 SOL.  The
\* other trades have the parser's (transaction_parser.rs:775-799, :626, :669, :725).
StampsAreTheSwaps ==
    \A k \in DOMAIN trades : \A s \in SwapOf(origin[k]) :
      trades[k].ts # s.ts => \E clock \in Start..now :
        \/ /\ trades[k].dex = "PumpSwap"
           /\ TimeIsUnclear(origin[k], s, clock)
           /\ Recent(trades[k].ts, clock)
           /\ trades[k].ts \in {clock} \cup WordsOf(EventOf(origin[k]))
        \/ trades[k].dex \in {"RaydiumAmmV4", "RaydiumLaunchpad"} /\ trades[k].ts = clock

\* No trade is stamped more than an hour ahead of the clock, but for the layouts
\* whose time is taken as it is (transaction_parser.rs:557, :626, :669).
NoStampAhead ==
    \A k \in DOMAIN trades :
      \/ trades[k].ts <= now + Hour
      \/ trades[k].dex = "PumpFun"
      \/ origin[k] # 0 /\ EventOf(origin[k]).sub = "trade_log"

\* Bonding-curve events, the 266 bytes and the shorter ones, become trades
\* (transaction_parser.rs:4, "Supports PumpFun/PumpSwap events").
PumpFunIsSupported ==
    Walked /\ txn.signer # {} => \A i \in DOMAIN txn.inner :
      ~EventOf(i).main /\ EventOf(i).len \in {266, 170, 138} /\ EventOf(i).swap # {} =>
        \E k \in DOMAIN trades : origin[k] = i
=============================================================================
