---------------------------- MODULE LivePipeline ----------------------------
(***************************************************************************)
(* The tasks of the live daemon and the channel between them               *)
(* (src/src/main.rs, run_live_mode; src/src/grpc_streamer.rs,              *)
(* stream_live_trades).  The streamer reconnects and parses, the processor *)
(* takes one trade at a time, maintenance wakes up every five minutes, and *)
(* the main task stops the daemon as soon as one of them ends.  What the   *)
(* processor does with a trade is InsiderCache's and LiveTargets' matter.  *)
(*                                                                         *)
(* The gRPC server and the signal are the environment: a message, an       *)
(* error, the end of the stream or a Ctrl+C may come at any time or never. *)
(***************************************************************************)
EXTENDS Integers, Sequences

CONSTANTS ChannelSize,   \* TRADE_CHANNEL_SIZE, 100000
          MaxBatch,      \* most trades in one message
          MaxTrades      \* bound on the number of trades, for TLC

ASSUME SizesAssumption == ChannelSize \in Nat \ {0} /\ MaxBatch \in Nat \ {0}

VARIABLES daemon,        \* "running", or "stopped" once run_live_mode returned
          shutdown,      \* the watch channel's value
          streamer,      \* where stream_live_trades is
          batch,         \* trades of the last message still to be sent
          channel,       \* the trades in the mpsc channel
          processor,     \* where the processor is
          hand,          \* the trade it works on, if any
          maintenance,   \* where the maintenance loop is
          arrived,       \* history: trades parsed so far, numbered from 1
          processed,     \* history: trades processed, in that order
          dropped,       \* history: trade received but dropped at shutdown
          ended          \* history: the server has closed a stream

mainVars      == <<daemon, shutdown>>
streamerVars  == <<streamer, batch, arrived, ended>>
processorVars == <<processor, hand, processed, dropped>>
vars == <<mainVars, streamerVars, channel, processorVars, maintenance>>

Init == /\ daemon = "running"
        /\ shutdown = FALSE
        /\ streamer = "check"
        /\ batch = << >>
        /\ channel = << >>
        /\ processor = "receive"
        /\ hand = << >>
        /\ maintenance = "wait"
        /\ arrived = 0
        /\ processed = << >>
        /\ dropped = << >>
        /\ ended = FALSE

-----------------------------------------------------------------------------
(* The streamer.                                                           *)

\* The head of its loop.
Check ==
    /\ streamer = "check"
    /\ streamer' = IF shutdown THEN "done" ELSE "connect"
    /\ UNCHANGED <<batch, channel, maintenance, arrived, ended, processorVars, mainVars>>

\* Connect, subscribe and send the request; any of them may fail.
Connect ==
    /\ streamer = "connect"
    /\ streamer' \in {"receive", "retry"}
    /\ UNCHANGED <<batch, channel, maintenance, arrived, ended, processorVars, mainVars>>

\* A message with trades.  (One without leaves the session as it is.)
Deliver(n) ==
    /\ streamer = "receive"
    /\ ~shutdown
    /\ arrived + n <= MaxTrades
    /\ batch' = [i \in 1..n |-> arrived + i]
    /\ arrived' = arrived + n
    /\ streamer' = "send"
    /\ UNCHANGED <<channel, maintenance, ended, processorVars, mainVars>>

\* Defect: an error ends the streamer as the end of the stream does.
FailForGood ==
    /\ streamer = "receive"
    /\ streamer' = "done"
    /\ UNCHANGED <<batch, channel, maintenance, arrived, ended, processorVars, mainVars>>

\* A stream error: the session fails and is tried again, unless shutdown is
\* seen first.
Fail ==
    /\ streamer = "receive"
    /\ streamer' = IF shutdown THEN "done" ELSE "retry"
    /\ UNCHANGED <<batch, channel, maintenance, arrived, ended, processorVars, mainVars>>

\* A message that arrives after the shutdown signal.
NoticeShutdown ==
    /\ streamer = "receive"
    /\ shutdown
    /\ streamer' = "done"
    /\ UNCHANGED <<batch, channel, maintenance, arrived, ended, processorVars, mainVars>>

\* The server closes the stream: the session returns Ok and the loop breaks.
EndOfStream ==
    /\ streamer = "receive"
    /\ streamer' = "done"
    /\ ended' = TRUE
    /\ UNCHANGED <<batch, channel, maintenance, arrived, processorVars, mainVars>>

\* Defect: try_send, which loses the trade when the channel is full.
TrySend ==
    /\ streamer = "send"
    /\ processor # "done"
    /\ channel' = IF Len(channel) < ChannelSize THEN Append(channel, Head(batch)) ELSE channel
    /\ batch' = Tail(batch)
    /\ streamer' = IF Len(batch) = 1 THEN "receive" ELSE "send"
    /\ UNCHANGED <<maintenance, arrived, ended, processorVars, mainVars>>

\* Defect: an unbounded channel.
SendUnbounded ==
    /\ streamer = "send"
    /\ processor # "done"
    /\ channel' = Append(channel, Head(batch))
    /\ batch' = Tail(batch)
    /\ streamer' = IF Len(batch) = 1 THEN "receive" ELSE "send"
    /\ UNCHANGED <<arrived, ended, maintenance, processorVars, mainVars>>

\* tx.send(trade).await: waits while the channel is full.
Send ==
    /\ streamer = "send"
    /\ processor # "done"
    /\ Len(channel) < ChannelSize
    /\ channel' = Append(channel, Head(batch))
    /\ batch' = Tail(batch)
    /\ streamer' = IF Len(batch) = 1 THEN "receive" ELSE "send"
    /\ UNCHANGED <<maintenance, arrived, ended, processorVars, mainVars>>

\* The receiver is gone: the session returns Ok, whatever is left to send.
SendFails ==
    /\ streamer = "send"
    /\ processor = "done"
    /\ streamer' = "done"
    /\ UNCHANGED <<batch, channel, maintenance, arrived, ended, processorVars, mainVars>>

\* RETRY_DELAY_SECS have passed.
Retry ==
    /\ streamer = "retry"
    /\ streamer' = "check"
    /\ UNCHANGED <<batch, channel, maintenance, arrived, ended, processorVars, mainVars>>

-----------------------------------------------------------------------------
(* The processor.                                                          *)

\* Defect: the processor waits until the channel is full.
ReceiveFull ==
    /\ processor = "receive"
    /\ Len(channel) = ChannelSize
    /\ channel' = Tail(channel)
    /\ hand' = <<Head(channel)>>
    /\ processor' = "process"
    /\ UNCHANGED <<maintenance, processed, dropped, streamerVars, mainVars>>

\* recv(): the oldest trade.  After the shutdown signal it is dropped.
Receive ==
    /\ processor = "receive"
    /\ channel # << >>
    /\ channel' = Tail(channel)
    /\ IF shutdown
         THEN /\ dropped' = <<Head(channel)>>
              /\ processor' = "done"
              /\ UNCHANGED hand
         ELSE /\ hand' = <<Head(channel)>>
              /\ processor' = "process"
              /\ UNCHANGED dropped
    /\ UNCHANGED <<maintenance, processed, streamerVars, mainVars>>

\* recv() = None: the streamer has dropped the sender and nothing is left.
Drained ==
    /\ processor = "receive"
    /\ channel = << >>
    /\ streamer = "done"
    /\ processor' = "done"
    /\ UNCHANGED <<channel, hand, maintenance, processed, dropped, streamerVars, mainVars>>

\* process_trade, evaluation and write.
Process ==
    /\ processor = "process"
    /\ processed' = processed \o hand
    /\ hand' = << >>
    /\ processor' = "receive"
    /\ UNCHANGED <<channel, maintenance, dropped, streamerVars, mainVars>>

-----------------------------------------------------------------------------
(* Maintenance, the signal and the main task.                              *)

\* Defect: the loop does not look at the signal.
TickUnchecked ==
    /\ maintenance = "wait"
    /\ maintenance' = "work"
    /\ UNCHANGED <<channel, streamerVars, processorVars, mainVars>>

\* interval.tick(), every five minutes.
Tick ==
    /\ maintenance = "wait"
    /\ maintenance' = IF shutdown THEN "done" ELSE "work"
    /\ UNCHANGED <<channel, streamerVars, processorVars, mainVars>>

Work ==
    /\ maintenance = "work"
    /\ maintenance' = "wait"
    /\ UNCHANGED <<channel, streamerVars, processorVars, mainVars>>

CtrlC ==
    /\ ~shutdown
    /\ shutdown' = TRUE
    /\ UNCHANGED <<daemon, channel, maintenance, streamerVars, processorVars>>

\* select! returns when the first task has ended; the runtime drops the others.
Exit ==
    /\ "done" \in {streamer, processor, maintenance}
    /\ daemon' = "stopped"
    /\ UNCHANGED <<shutdown, channel, maintenance, streamerVars, processorVars>>

Streamer    == \/ Check \/ Connect \/ Fail \/ NoticeShutdown \/ EndOfStream
               \/ Send \/ SendFails \/ Retry
               \/ \E n \in 1..MaxBatch : Deliver(n)
Processor   == Receive \/ Drained \/ Process
Maintenance == Tick \/ Work

\* Nothing moves once the daemon has stopped.
Stopped == daemon = "stopped" /\ UNCHANGED vars

Next == \/ daemon = "running" /\ (Streamer \/ Processor \/ Maintenance \/ CtrlC \/ Exit)
        \/ Stopped

Spec == Init /\ [][Next]_vars

\* The runtime polls a task that can go on, timers fire, and the main task is
\* woken.  Nothing is assumed of the server, of connecting or of the signal.
Fairness ==
    /\ WF_vars(daemon = "running" /\ (Check \/ Send \/ SendFails \/ Retry))
    /\ WF_vars(daemon = "running" /\ Processor)
    /\ WF_vars(daemon = "running" /\ Maintenance)
    /\ WF_vars(daemon = "running" /\ Exit)

FairSpec == Spec /\ Fairness

-----------------------------------------------------------------------------
\* Each task is where its code can be; the channel keeps its capacity.
TypeOK ==
    /\ daemon \in {"running", "stopped"}
    /\ shutdown \in BOOLEAN /\ ended \in BOOLEAN
    /\ streamer \in {"check", "connect", "receive", "send", "retry", "done"}
    /\ processor \in {"receive", "process", "done"}
    /\ maintenance \in {"wait", "work", "done"}
    /\ arrived \in Nat
    /\ {batch, channel, hand, processed, dropped} \subseteq Seq(Nat)
    /\ Len(channel) <= ChannelSize
    /\ Len(hand) <= 1 /\ Len(dropped) <= 1
    /\ (streamer = "send" => batch # << >>)
    /\ (processor = "process" => hand # << >>)

\* Across reconnections and a full channel, every trade that was parsed is in
\* exactly one place, in the order of arrival; the one that the processor took
\* out and dropped is dropped on shutdown only (main.rs:246-249).
NothingLost ==
    /\ processed \o hand \o dropped \o channel \o batch = [i \in 1..arrived |-> i]
    /\ dropped # << >> => shutdown /\ processor = "done"

\* The tasks end each other - a processor that stops closes the channel, a
\* streamer that stops drains it - but the first of them to end has been told
\* to, or its stream was closed by the server: never an error, a full channel
\* or a slow consumer (grpc_streamer.rs:302-325, main.rs:355-371).
StopsForAReason == daemon = "stopped" => shutdown \/ ended

\* Ctrl+C stops the daemon even if the stream stays silent and the channel
\* empty for ever, in which case the streamer and the processor never look at
\* the signal: the maintenance loop does (main.rs:321-323).
ShutdownStops == shutdown ~> daemon = "stopped"

\* A trade that has arrived is processed, unless the daemon stops first: the
\* streamer and the processor never wait for each other in a circle.
ArrivedIsProcessed ==
    \A i \in 1..MaxTrades :
      i <= arrived ~> Len(processed) >= i \/ shutdown \/ daemon = "stopped"
=============================================================================
