----------------------------- MODULE MCBuyIndex -----------------------------
\* A buy list for TLC: two wallets, four slots, two positions in a block.
EXTENDS BuyIndex

CONSTANTS w1, w2

MCEntries == [wallet : {w1, w2}, slot : 1..4, tx : 0..1]
=============================================================================
