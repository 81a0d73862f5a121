------------------------------- MODULE Replay -------------------------------
(***************************************************************************)
(* Replay mode (src/src/main.rs, run_replay_mode): a task streams past     *)
(* trades (src/src/grpc_streamer.rs, stream_historical_trades) through a   *)
(* bounded channel to the aggregator; when the channel is closed, profiles *)
(* are built, filtered, ranked and reported.  The server is the            *)
(* environment: it sends trades in any order, and may fail.                *)
(***************************************************************************)
EXTENDS ReplayOps

CONSTANTS Messages,      \* the trades that one transaction may hold
          Cutoff,        \* cutoff_ts
          ChannelSize,   \* TRADE_CHANNEL_SIZE
          MaxRetries,    \* MAX_CONNECT_RETRIES, 5
          MaxArrived     \* bound on the number of trades, for TLC

\* A transaction holds a sequence of trades; slot and tx_index are unsigned.
ASSUME MessagesAssumption ==
    \A msg \in Messages : /\ msg \in Seq(ToSet(msg))
                          /\ \A t \in ToSet(msg) : t.slot \in Nat /\ t.tx \in Nat

ASSUME StreamAssumption == /\ ChannelSize \in Nat \ {0} /\ MaxRetries \in Nat \ {0}
                           /\ Cutoff \in Nat

VARIABLES streamer,       \* where stream_historical_trades is
          retries,        \* failed attempts of the present connection step
          batch,          \* trades of the last message still to be sent
          channel,        \* the trades in the mpsc channel
          phase,          \* where run_replay_mode is
          walletTrades,   \* the aggregator's trades by wallet
          tokenTrades,    \* and by token
          profiles,       \* wallet -> WalletProfile, once they are built
          top,            \* the ranking
          arrived         \* history: the trades of the window, as they came

streamVars == <<streamer, retries, batch, arrived>>
groupVars  == <<walletTrades, tokenTrades>>
vars == <<streamVars, channel, phase, groupVars, profiles, top>>

NoFunction == [x \in {} |-> x]

Init == /\ streamer = "connect"
        /\ retries = 0
        /\ batch = << >>
        /\ channel = << >>
        /\ phase = "aggregate"
        /\ walletTrades = NoFunction
        /\ tokenTrades = NoFunction
        /\ profiles = NoFunction
        /\ top = << >>
        /\ arrived = << >>

-----------------------------------------------------------------------------
(* The streamer.  When it ends it drops the sender, which closes the       *)
(* channel.                                                                *)

mainVars == <<phase, groupVars, profiles, top>>

\* Defect: after the last attempt it starts counting again.
AttemptForever(from, to) ==
    /\ streamer = from
    /\ \/ streamer' = to /\ retries' = 0
       \/ streamer' = from /\ retries' = (retries + 1) % MaxRetries
    /\ UNCHANGED <<batch, arrived, channel, mainVars>>

\* connect, then subscribe: each is tried MaxRetries times.  A client that
\* cannot be built is an error at once.
Attempt(from, to) ==
    /\ streamer = from
    /\ \/ streamer' = to /\ retries' = 0
       \/ from = "connect" /\ streamer' = "failed" /\ retries' = retries
       \/ /\ retries' = retries + 1
          /\ streamer' = IF retries' >= MaxRetries THEN "failed" ELSE from
    /\ UNCHANGED <<batch, arrived, channel, mainVars>>

\* The request is sent once.
Request ==
    /\ streamer = "request"
    /\ streamer' \in {"stream", "failed"}
    /\ UNCHANGED <<retries, batch, arrived, channel, mainVars>>

InWindow(trades) == {t \in trades : ~(t.ts > 0 /\ t.ts < Cutoff)}

\* A transaction; trades known to be older than the window are skipped.
Deliver(msg) ==
    /\ streamer = "stream"
    /\ Len(arrived) + Len(msg) <= MaxArrived
    /\ batch' = Kept(msg, InWindow(ToSet(msg)))
    /\ arrived' = arrived \o batch'
    /\ streamer' = IF batch' = << >> THEN "stream" ELSE "send"
    /\ UNCHANGED <<retries, channel, mainVars>>

\* Defect: the channel is unbounded.
SendAlways ==
    /\ streamer = "send"
    /\ channel' = Append(channel, Head(batch))
    /\ batch' = Tail(batch)
    /\ streamer' = IF Len(batch) = 1 THEN "stream" ELSE "send"
    /\ UNCHANGED <<retries, arrived, mainVars>>

\* tx.send(trade).await: waits while the channel is full.  The aggregator
\* receives until the channel is closed, so that the send does not fail.
Send ==
    /\ streamer = "send"
    /\ Len(channel) < ChannelSize
    /\ channel' = Append(channel, Head(batch))
    /\ batch' = Tail(batch)
    /\ streamer' = IF Len(batch) = 1 THEN "stream" ELSE "send"
    /\ UNCHANGED <<retries, arrived, mainVars>>

\* The end of the stream, an error in it, or Ctrl+C: all three end it well.
StreamEnds ==
    /\ streamer = "stream"
    /\ streamer' = "done"
    /\ UNCHANGED <<retries, batch, arrived, channel, mainVars>>

Streamer == \/ Attempt("connect", "subscribe")
            \/ Attempt("subscribe", "request")
            \/ Request
            \/ \E msg \in Messages : Deliver(msg)
            \/ Send
            \/ StreamEnds

-----------------------------------------------------------------------------
(* The aggregator and the batch phases after it.                           *)

\* groups.entry(key).or_default().push(t)
Pushed(groups, key, t) ==
    [k \in DOMAIN groups \cup {key} |->
       IF k # key THEN groups[k]
       ELSE IF k \in DOMAIN groups THEN Append(groups[k], t) ELSE <<t>>]

\* One trade received.
Aggregate ==
    /\ phase = "aggregate"
    /\ channel # << >>
    /\ channel' = Tail(channel)
    /\ LET t == Head(channel)
       IN  /\ walletTrades' = Pushed(walletTrades, t.wallet, t)
           /\ tokenTrades' = Pushed(tokenTrades, t.mint, t)
    /\ UNCHANGED <<streamVars, phase, profiles, top>>

\* Defect: the aggregator goes on before the sender is dropped.
BuildEarly ==
    /\ phase = "aggregate"
    /\ channel = << >>
    /\ streamer \in {"stream", "done", "failed"}
    /\ profiles' = [w \in {v \in DOMAIN walletTrades : Len(walletTrades[v]) >= MinTrades}
                      |-> BuildProfile(walletTrades[w])]
    /\ phase' = "join"
    /\ UNCHANGED <<streamVars, channel, groupVars, top>>

\* The channel is closed and empty: a profile of each wallet that traded enough.
Build ==
    /\ phase = "aggregate"
    /\ channel = << >>
    /\ streamer \in {"done", "failed"}
    /\ profiles' = [w \in {v \in DOMAIN walletTrades : Len(walletTrades[v]) >= MinTrades}
                      |-> BuildProfile(walletTrades[w])]
    /\ phase' = "join"
    /\ UNCHANGED <<streamVars, channel, groupVars, top>>

\* stream_handle.await: an error of the streamer is an error of the run.
Join ==
    /\ phase = "join"
    /\ phase' = IF streamer = "failed" THEN "failed" ELSE "filterA"
    /\ UNCHANGED <<streamVars, channel, groupVars, profiles, top>>

\* One filter over all profiles; a disqualified one is left alone.
Pass(from, to, judged) ==
    /\ phase = from
    /\ profiles' = [w \in DOMAIN profiles |->
                      IF Disqualified(profiles[w]) THEN profiles[w] ELSE judged[w]]
    /\ phase' = to
    /\ UNCHANGED <<streamVars, channel, groupVars, top>>

\* apply_all_filters
PassA == Pass("filterA", "filterB", [w \in DOMAIN profiles |-> FilterA(profiles[w])])
PassB == Pass("filterB", "filterC", [w \in DOMAIN profiles |-> FilterB(profiles[w], tokenTrades)])
PassC == Pass("filterC", "filterD", [w \in DOMAIN profiles |-> FilterC(profiles[w], tokenTrades)])
PassD == Pass("filterD", "rank", [w \in DOMAIN profiles |-> FilterD(profiles[w])])

Rank ==
    /\ phase = "rank"
    /\ top' \in Rankings(profiles)
    /\ phase' = "report"
    /\ UNCHANGED <<streamVars, channel, groupVars, profiles>>

\* The report is printed and written; the write may fail.
Report ==
    /\ phase = "report"
    /\ phase' \in {"written", "failed"}
    /\ UNCHANGED <<streamVars, channel, groupVars, profiles, top>>

Main == Aggregate \/ Build \/ Join \/ PassA \/ PassB \/ PassC \/ PassD \/ Rank \/ Report

Ended == phase \in {"written", "failed"} /\ UNCHANGED vars

Next == Streamer \/ Main \/ Ended

\* The runtime runs both tasks; connecting, sending and waiting come to an end.
Fairness == /\ WF_vars(Attempt("connect", "subscribe"))
            /\ WF_vars(Attempt("subscribe", "request"))
            /\ WF_vars(Request)
            /\ WF_vars(Send)
            /\ WF_vars(Main)

Spec == Init /\ [][Next]_vars /\ Fairness

-----------------------------------------------------------------------------
\* The tasks are at one of their await points, the channel is within its
\* capacity, each list holds the trades of its key, and only what has been
\* built is judged.
TypeOK ==
    /\ streamer \in {"connect", "subscribe", "request", "stream", "send", "done", "failed"}
    /\ retries \in 0..MaxRetries
    /\ batch # << >> <=> streamer = "send"
    /\ Len(channel) <= ChannelSize
    /\ phase \in {"aggregate", "join", "filterA", "filterB", "filterC", "filterD",
                  "rank", "report", "written", "failed"}
    /\ \A w \in DOMAIN walletTrades : \A i \in DOMAIN walletTrades[w] :
         walletTrades[w][i].wallet = w
    /\ \A m \in DOMAIN tokenTrades : \A i \in DOMAIN tokenTrades[m] : tokenTrades[m][i].mint = m
    /\ DOMAIN profiles \subseteq DOMAIN walletTrades
    /\ ToSet(top) \subseteq DOMAIN profiles

\* The trades there may be, their wallets and tokens, and those of one of them.
Traded  == UNION {ToSet(msg) : msg \in Messages}
Wallets == {t.wallet : t \in Traded}
Tokens  == {t.mint : t \in Traded}
OfWallet(w) == {t \in Traded : t.wallet = w}
OfToken(m)  == {t \in Traded : t.mint = m}

\* The list of a key so far.
Grouped(groups, key) == IF key \in DOMAIN groups THEN groups[key] ELSE << >>

\* Both views of the aggregator have every trade of the window, in the order of
\* arrival, but for those still on their way; and none is when the profiles are
\* built.  Filters B and C find in the tokens' lists whatever wallets did
\* (aggregator.rs:33-48).
BothViewsComplete ==
    LET coming == channel \o batch IN
    /\ phase # "aggregate" => coming = << >>
    /\ \A w \in Wallets :
         Kept(arrived, OfWallet(w)) = Grouped(walletTrades, w) \o Kept(coming, OfWallet(w))
    /\ \A m \in Tokens :
         Kept(arrived, OfToken(m)) = Grouped(tokenTrades, m) \o Kept(coming, OfToken(m))

\* Whatever the order of arrival, a profile's trades are in the order of slot and
\* tx_index and its cycles are their FIFO matching: no buy or sell is used twice,
\* none is skipped that could be matched, and the oldest buy goes first
\* (aggregator.rs:155-199).
InOrder(s) ==
    \A i, j \in DOMAIN s : i < j => \/ s[i].slot < s[j].slot
                                    \/ s[i].slot = s[j].slot /\ s[i].tx <= s[j].tx
CyclesAreFifo ==
    \A w \in DOMAIN profiles : /\ InOrder(profiles[w].trades)
                               /\ IsFifoMatching(profiles[w].trades, profiles[w].cycles)

\* The buys of a wallet that arrived, the buys of other wallets that followed one
\* of them, by slot and tx_index, into its block or the next, and whether one was
\* made within SniperMaxDelta of its token's first trade.
ArrivedBuys(w) == {i \in DOMAIN arrived : arrived[i].wallet = w /\ arrived[i].is_buy}
Followed(i) ==
    {j \in DOMAIN arrived :
       /\ arrived[j].is_buy /\ arrived[j].mint = arrived[i].mint
       /\ arrived[j].wallet # arrived[i].wallet
       /\ \/ arrived[j].slot = arrived[i].slot /\ arrived[j].tx > arrived[i].tx
          \/ arrived[j].slot = arrived[i].slot + 1}
TradesOf(m) == {j \in DOMAIN arrived : arrived[j].mint = m}
AtLaunch(i) ==
    /\ \A j \in TradesOf(arrived[i].mint) :
         arrived[i].slot <= arrived[j].slot + SniperMaxDelta
    /\ \E j \in TradesOf(arrived[i].mint) : arrived[j].ts > 0

\* A ranked wallet is safe to follow, by all trades of the window in whatever
\* order they came: less than half of its buys were copied by as many buys as
\* the threshold says, and less than half were made at the launch of a token
\* whose first trade has a known time (filters.rs:86-97, :181-187).
RankedAreSafe ==
    \A w \in ToSet(top) :
      LET ours == ArrivedBuys(w)
      IN  /\ 2 * Cardinality({i \in ours : Cardinality(Followed(i)) >= FollowerThreshold})
               < Cardinality(ours)
          /\ 2 * Cardinality({i \in ours : AtLaunch(i)}) < Cardinality(ours)

\* The connection is made or given up, and once the stream has ended or failed
\* the run comes to a report or an error: the aggregator never waits for a
\* sender that is gone (main.rs:128-134).
ReplayEnds ==
    /\ <>(streamer \in {"stream", "send", "done", "failed"})
    /\ streamer \in {"done", "failed"} ~> phase \in {"written", "failed"}

=============================================================================
