------------------------- MODULE LivePipelineProofs -------------------------
(***************************************************************************)
(* For every capacity of the channel and every size of a message: the      *)
(* tasks keep their types, no trade is lost, repeated or overtaken between *)
(* parser and processor, and the daemon stops for a reason.                *)
(***************************************************************************)
EXTENDS LivePipeline, SequenceTheorems, TLAPS

-----------------------------------------------------------------------------
(* Moving one trade from the head of a queue to the tail of the one before *)
(* it leaves the two, read in a row, as they were.                         *)

LEMMA HeadThenTail ==
  ASSUME NEW S, NEW s \in Seq(S), s # << >>
  PROVE  /\ Head(s) \in S /\ <<Head(s)>> \in Seq(S) /\ Tail(s) \in Seq(S)
         /\ <<Head(s)>> \o Tail(s) = s
<1>1. Head(s) \in S /\ Tail(s) \in Seq(S)
  BY HeadTailProperties
<1>2. Len(s) \in Nat \ {0}
  BY EmptySeq
<1>3. SubSeq(s, 1, Len(s)) = << s[1] >> \o SubSeq(s, 2, Len(s))
  BY <1>2, SubSeqRecursiveFirst
<1>4. s[1] = Head(s) /\ Tail(s) = SubSeq(s, 2, Len(s)) /\ SubSeq(s, 1, Len(s)) = s
  BY SubSeqFull, TailIsSubSeq
<1> QED
  BY <1>1, <1>3, <1>4

LEMMA MoveHead ==
  ASSUME NEW S, NEW a \in Seq(S), NEW s \in Seq(S), s # << >>
  PROVE  (a \o <<Head(s)>>) \o Tail(s) = a \o s
<1>1. /\ <<Head(s)>> \in Seq(S) /\ Tail(s) \in Seq(S)
      /\ <<Head(s)>> \o Tail(s) = s
  BY HeadThenTail
<1> QED
  BY <1>1, ConcatAssociative

-----------------------------------------------------------------------------
\* Between two of its steps the processor holds no trade, and outside the loop
\* over a message's trades the streamer none.
Quiet == /\ processor # "process" => hand = << >>
         /\ streamer \in {"check", "connect", "receive", "retry"} => batch = << >>

IInv == TypeOK /\ Quiet

Queues == /\ batch \in Seq(Nat) /\ channel \in Seq(Nat) /\ hand \in Seq(Nat)
          /\ processed \in Seq(Nat) /\ dropped \in Seq(Nat)

LEMMA QueuesTyped == TypeOK => Queues
BY DEF TypeOK, Queues

\* Every step keeps the types, and both tasks put down what they hold.
LEMMA TypeInductive == IInv /\ [Next]_vars => IInv'
<1> SUFFICES ASSUME IInv, [Next]_vars PROVE IInv'
  OBVIOUS
<1>0. Queues
  BY QueuesTyped DEF IInv
<1>1. CASE Check
  BY <1>1 DEF IInv, TypeOK, Quiet, Check, processorVars, mainVars
<1>2. CASE Connect
  BY <1>2 DEF IInv, TypeOK, Quiet, Connect, processorVars, mainVars
<1>3. ASSUME NEW n \in 1..MaxBatch, Deliver(n) PROVE IInv'
  <2>1. n \in Nat \ {0} /\ arrived \in Nat
    BY SizesAssumption DEF IInv, TypeOK
  <2>2. batch' = [i \in 1..n |-> arrived + i]
    BY <1>3 DEF Deliver
  <2>3. batch' \in Seq(Nat) /\ Len(batch') = n
    BY <2>1, <2>2
  <2>4. batch' # << >>
    BY <2>1, <2>3
  <2> QED
    <3>1. UNCHANGED <<channel, maintenance, ended, processorVars, mainVars>>
          /\ streamer' = "send" /\ arrived' \in Nat
      BY <1>3, <2>1 DEF Deliver
    <3> HIDE <1>3
    <3> QED
      BY <2>3, <2>4, <3>1 DEF IInv, TypeOK, Quiet, processorVars, mainVars
<1>4. CASE Fail
  BY <1>4 DEF IInv, TypeOK, Quiet, Fail, processorVars, mainVars
<1>5. CASE NoticeShutdown
  BY <1>5 DEF IInv, TypeOK, Quiet, NoticeShutdown, processorVars, mainVars
<1>6. CASE EndOfStream
  BY <1>6 DEF IInv, TypeOK, Quiet, EndOfStream, processorVars, mainVars
<1>7. CASE Send
  <2>1. batch # << >>
    BY <1>7 DEF IInv, TypeOK, Send
  <2>2. Head(batch) \in Nat /\ Tail(batch) \in Seq(Nat) /\ Len(Tail(batch)) = Len(batch) - 1
    BY <1>0, <2>1, HeadTailProperties DEF Queues
  <2>3. Append(channel, Head(batch)) \in Seq(Nat)
        /\ Len(Append(channel, Head(batch))) = Len(channel) + 1
    BY <1>0, <2>2, AppendProperties DEF Queues
  <2>4. /\ batch' = Tail(batch) /\ channel' = Append(channel, Head(batch))
        /\ Len(channel) < ChannelSize
        /\ streamer' = (IF Len(batch) = 1 THEN "receive" ELSE "send")
    BY <1>7 DEF Send
  <2>5. Len(channel') <= ChannelSize
    BY <1>0, <2>3, <2>4, SizesAssumption, LenProperties DEF Queues
  <2>6. (streamer' = "send" => batch' # << >>) /\ (streamer' = "receive" => batch' = << >>)
    <3>1. Len(batch) \in Nat \ {0}
      BY <1>0, <2>1, EmptySeq DEF Queues
    <3> QED
      BY <2>2, <2>4, <3>1, EmptySeq
  <2> QED
    BY <1>7, <2>2, <2>3, <2>4, <2>5, <2>6
       DEF IInv, TypeOK, Quiet, Send, processorVars, mainVars
<1>8. CASE SendFails
  BY <1>8 DEF IInv, TypeOK, Quiet, SendFails, processorVars, mainVars
<1>9. CASE Retry
  BY <1>9 DEF IInv, TypeOK, Quiet, Retry, processorVars, mainVars
<1>10. CASE Receive
  <2>1. /\ Head(channel) \in Nat /\ Tail(channel) \in Seq(Nat)
        /\ Len(Tail(channel)) = Len(channel) - 1
    BY <1>0, <1>10, HeadTailProperties DEF Queues, Receive
  <2>2. <<Head(channel)>> \in Seq(Nat) /\ Len(<<Head(channel)>>) = 1
        /\ <<Head(channel)>> # << >>
    BY <2>1
  <2>3. Len(Tail(channel)) <= ChannelSize
    BY <1>0, <2>1, SizesAssumption, LenProperties DEF IInv, TypeOK, Queues
  <2>4. channel' = Tail(channel) /\ UNCHANGED <<maintenance, processed, streamerVars, mainVars>>
    BY <1>10 DEF Receive
  <2>5. CASE shutdown
    <3>1. dropped' = <<Head(channel)>> /\ processor' = "done" /\ UNCHANGED hand
          /\ processor = "receive"
      BY <1>10, <2>5 DEF Receive
    <3> HIDE <1>10
    <3> QED
      BY <2>1, <2>2, <2>3, <2>4, <3>1 DEF IInv, TypeOK, Quiet, streamerVars, mainVars
  <2>6. CASE ~shutdown
    <3>1. hand' = <<Head(channel)>> /\ processor' = "process" /\ UNCHANGED dropped
      BY <1>10, <2>6 DEF Receive
    <3> HIDE <1>10
    <3> QED
      BY <2>1, <2>2, <2>3, <2>4, <3>1 DEF IInv, TypeOK, Quiet, streamerVars, mainVars
  <2> QED
    BY <2>5, <2>6
<1>11. CASE Drained
  BY <1>11 DEF IInv, TypeOK, Quiet, Drained, streamerVars, mainVars
<1>12. CASE Process
  <2>1. processed \o hand \in Seq(Nat)
    BY <1>0, ConcatProperties DEF Queues
  <2> QED
    BY <1>12, <2>1 DEF IInv, TypeOK, Quiet, Process, streamerVars, mainVars
<1>13. CASE Tick
  BY <1>13 DEF IInv, TypeOK, Quiet, Tick, streamerVars, processorVars, mainVars
<1>14. CASE Work
  BY <1>14 DEF IInv, TypeOK, Quiet, Work, streamerVars, processorVars, mainVars
<1>15. CASE CtrlC
  BY <1>15 DEF IInv, TypeOK, Quiet, CtrlC, streamerVars, processorVars
<1>16. CASE Exit
  BY <1>16 DEF IInv, TypeOK, Quiet, Exit, streamerVars, processorVars
<1>17. CASE UNCHANGED vars
  BY <1>17 DEF IInv, TypeOK, Quiet, vars, streamerVars, processorVars, mainVars
<1> QED
  BY <1>1, <1>2, <1>3, <1>4, <1>5, <1>6, <1>7, <1>8, <1>9, <1>10, <1>11, <1>12,
     <1>13, <1>14, <1>15, <1>16, <1>17
     DEF Next, Streamer, Processor, Maintenance, Stopped

LEMMA InitTyped == Init => IInv
<1>1. << >> \in Seq(Nat) /\ Len(<< >>) = 0 /\ 0 <= ChannelSize
  BY SizesAssumption
<1> SUFFICES ASSUME Init PROVE IInv
  OBVIOUS
<1>2. shutdown \in BOOLEAN /\ ended \in BOOLEAN
  BY Zenon DEF Init
<1>3. /\ batch = << >> /\ channel = << >> /\ hand = << >>
      /\ processed = << >> /\ dropped = << >>
  BY DEF Init
<1>4. {batch, channel, hand, processed, dropped} \subseteq Seq(Nat)
  BY <1>1, <1>3
<1>5. Len(channel) <= ChannelSize /\ Len(hand) <= 1 /\ Len(dropped) <= 1
  BY <1>1, <1>3
<1>6. /\ daemon = "running" /\ streamer = "check" /\ processor = "receive"
      /\ maintenance = "wait" /\ arrived = 0
  BY DEF Init
<1> HIDE DEF Init
<1> QED
  BY <1>2, <1>3, <1>4, <1>5, <1>6 DEF IInv, TypeOK, Quiet

\* Every task is at one of its await points, the channel within its capacity.
THEOREM TypeCorrect == Spec => []TypeOK
<1>1. IInv => TypeOK
  BY DEF IInv
<1> QED
  BY <1>1, InitTyped, TypeInductive, PTL DEF Spec

-----------------------------------------------------------------------------
(* No trade is lost: with the types and Quiet, NothingLost is inductive.   *)

InOrder == processed \o hand \o dropped \o channel \o batch = [i \in 1..arrived |-> i]

\* Numbers that go on where a row of consecutive numbers stopped.
LEMMA CountOn ==
  ASSUME NEW m \in Nat, NEW n \in Nat, NEW a \in Seq(Nat), NEW b \in Seq(Nat),
         Len(a) = m, \A i \in 1..m : a[i] = i,
         Len(b) = n, \A i \in 1..n : b[i] = m + i
  PROVE  a \o b = [i \in 1..m + n |-> i]
<1> DEFINE all == [i \in 1..m + n |-> i]
<1>1. all \in Seq(Nat) /\ Len(all) = m + n /\ \A i \in 1..m + n : all[i] = i
  OBVIOUS
<1>2. a \o b \in Seq(Nat) /\ Len(a \o b) = m + n
  BY ConcatProperties
<1>3. \A i \in 1..m + n : (a \o b)[i] = i
  <2> TAKE i \in 1..m + n
  <2>1. (a \o b)[i] = IF i <= m THEN a[i] ELSE b[i - m]
    BY ConcatProperties
  <2>2. CASE i <= m
    BY <2>1, <2>2
  <2>3. CASE ~(i <= m)
    <3>1. i - m \in 1..n /\ m + (i - m) = i
      BY <2>3
    <3>2. b[i - m] = m + (i - m)
      BY <3>1
    <3> QED
      BY <2>1, <2>3, <3>1, <3>2
  <2> QED
    BY <2>2, <2>3
<1> HIDE DEF all
<1>4. a \o b = all
  BY <1>1, <1>2, <1>3, SeqEqual
<1> QED
  BY <1>4 DEF all

\* A message adds the next trades at the end of the row.
LEMMA DeliverKeepsOrder ==
  ASSUME IInv, InOrder, NEW n \in 1..MaxBatch, Deliver(n)
  PROVE  InOrder'
<1> DEFINE row == processed \o hand \o dropped \o channel
           new == [i \in 1..n |-> arrived + i]
<1>0. n \in Nat \ {0} /\ arrived \in Nat
  BY SizesAssumption DEF IInv, TypeOK
<1>1. Queues
  BY QueuesTyped DEF IInv
<1>2. row \in Seq(Nat) /\ new \in Seq(Nat) /\ Len(new) = n
  BY <1>0, <1>1, ConcatProperties DEF Queues
<1>3. batch = << >> /\ row \o batch = [i \in 1..arrived |-> i]
  BY DEF Deliver, IInv, Quiet, InOrder
<1>4. row = [i \in 1..arrived |-> i]
  BY <1>2, <1>3, ConcatEmptySeq
<1>5. Len(row) = arrived /\ \A i \in 1..arrived : row[i] = i
  BY <1>0, <1>4
<1>6. \A i \in 1..n : new[i] = arrived + i
  OBVIOUS
<1>7. row \o new = [i \in 1..arrived + n |-> i]
  <2> HIDE DEF row, new
  <2> QED
    BY <1>0, <1>2, <1>5, <1>6, CountOn
<1>8. /\ batch' = new /\ arrived' = arrived + n
      /\ UNCHANGED <<processed, hand, dropped, channel>>
  BY DEF Deliver, processorVars
<1> QED
  BY <1>7, <1>8 DEF InOrder

\* The streamer moves the head of the message to the tail of the channel.
LEMMA SendKeepsOrder ==
  ASSUME IInv, InOrder, Send
  PROVE  InOrder'
<1> DEFINE row == processed \o hand \o dropped
<1>1. Queues /\ batch # << >>
  BY QueuesTyped DEF IInv, TypeOK, Send
<1>2. row \in Seq(Nat)
  BY <1>1, ConcatProperties DEF Queues
<1>3. (row \o Append(channel, Head(batch))) \o Tail(batch) = (row \o channel) \o batch
  <2>1. batch \in Seq(Nat) /\ channel \in Seq(Nat) /\ batch # << >>
    BY <1>1 DEF Queues
  <2>2. ASSUME NEW a \in Seq(Nat)
        PROVE  (a \o Append(channel, Head(batch))) \o Tail(batch) = (a \o channel) \o batch
    <3>1. Head(batch) \in Nat /\ Tail(batch) \in Seq(Nat) /\ <<Head(batch)>> \in Seq(Nat)
      BY <2>1, HeadThenTail
    <3>2. Append(channel, Head(batch)) = channel \o <<Head(batch)>>
      BY <2>1, <3>1, AppendIsConcat
    <3>3. a \o (channel \o <<Head(batch)>>) = (a \o channel) \o <<Head(batch)>>
      BY <2>1, <3>1, ConcatAssociative
    <3>4. a \o channel \in Seq(Nat)
      BY <2>1, ConcatProperties
    <3>5. ((a \o channel) \o <<Head(batch)>>) \o Tail(batch) = (a \o channel) \o batch
      BY <2>1, <3>4, MoveHead
    <3> QED
      BY <3>2, <3>3, <3>5
  <2> HIDE DEF row
  <2> QED
    BY <1>2, <2>2
<1>4. /\ channel' = Append(channel, Head(batch)) /\ batch' = Tail(batch)
      /\ UNCHANGED <<processed, hand, dropped, arrived>>
  BY DEF Send, processorVars
<1> QED
  BY <1>3, <1>4 DEF InOrder

\* The processor takes the head of the channel, to process or to drop it.
LEMMA ReceiveKeepsOrder ==
  ASSUME IInv, InOrder, dropped = << >>, Receive
  PROVE  InOrder'
<1>1. Queues /\ channel # << >> /\ hand = << >>
  BY QueuesTyped DEF IInv, Quiet, Receive
<1>2. <<Head(channel)>> \in Seq(Nat) /\ Tail(channel) \in Seq(Nat)
  BY <1>1, HeadThenTail DEF Queues
<1>3. (processed \o <<Head(channel)>>) \o Tail(channel) = processed \o channel
  BY <1>1, MoveHead DEF Queues
<1>4. processed \o hand = processed /\ processed \o dropped = processed
  BY <1>1, ConcatEmptySeq DEF Queues
<1>5. (processed \o <<Head(channel)>>) \o << >> = processed \o <<Head(channel)>>
  BY <1>1, <1>2, ConcatProperties, ConcatEmptySeq DEF Queues
<1>6. processed' \o hand' \o dropped' = processed \o <<Head(channel)>>
  <2>1. CASE shutdown
    <3>1. processed' = processed /\ hand' = hand /\ dropped' = <<Head(channel)>>
      BY <2>1 DEF Receive
    <3> QED
      BY <1>4, <3>1
  <2>2. CASE ~shutdown
    <3>1. processed' = processed /\ hand' = <<Head(channel)>> /\ dropped' = << >>
      BY <2>2 DEF Receive
    <3> QED
      BY <1>5, <3>1
  <2> QED
    BY <2>1, <2>2
<1>7. channel' = Tail(channel) /\ batch' = batch /\ arrived' = arrived
  BY DEF Receive, streamerVars
<1>8. processed' \o hand' \o dropped' \o channel' = processed \o hand \o dropped \o channel
  BY <1>3, <1>4, <1>6, <1>7
<1> QED
  BY <1>7, <1>8 DEF InOrder

\* The processor puts what it holds at the end of what is done.
LEMMA ProcessKeepsOrder ==
  ASSUME IInv, InOrder, Process
  PROVE  InOrder'
<1>1. Queues
  BY QueuesTyped DEF IInv
<1>2. (processed \o hand) \o << >> = processed \o hand
  BY <1>1, ConcatProperties, ConcatEmptySeq DEF Queues
<1>3. /\ processed' = processed \o hand /\ hand' = << >>
      /\ UNCHANGED <<dropped, channel, batch, arrived>>
  BY DEF Process, streamerVars
<1>4. processed' \o hand' = processed \o hand
  BY <1>2, <1>3
<1> QED
  BY <1>3, <1>4 DEF InOrder

LEMMA OrderInductive == IInv /\ NothingLost /\ [Next]_vars => NothingLost'
<1> SUFFICES ASSUME IInv, NothingLost, [Next]_vars PROVE NothingLost'
  OBVIOUS
<1> DEFINE Excused == dropped # << >> => shutdown /\ processor = "done"
<1>0. InOrder /\ Excused
  BY DEF NothingLost, InOrder
<1>1. ASSUME NEW n \in 1..MaxBatch, Deliver(n) PROVE InOrder' /\ Excused'
  BY <1>0, <1>1, DeliverKeepsOrder DEF Deliver, processorVars, mainVars
<1>2. CASE Send
  <2>1. InOrder'
    BY <1>0, <1>2, SendKeepsOrder
  <2>2. Excused'
    BY <1>0, <1>2 DEF Send, processorVars, mainVars
  <2> QED
    BY <2>1, <2>2 DEF NothingLost, InOrder
<1>3. CASE Receive
  <2>1. dropped = << >>
    BY <1>0, <1>3 DEF Receive
  <2>2. InOrder'
    BY <1>0, <1>3, <2>1, ReceiveKeepsOrder
  <2>3. Excused'
    BY <1>3, <2>1 DEF Receive, mainVars
  <2> QED
    BY <2>2, <2>3 DEF NothingLost, InOrder
<1>4. CASE Process
  <2>1. InOrder'
    BY <1>0, <1>4, ProcessKeepsOrder
  <2>2. Excused'
    BY <1>0, <1>4 DEF Process, mainVars
  <2> QED
    BY <2>1, <2>2 DEF NothingLost, InOrder
<1>5. ASSUME UNCHANGED <<processed, hand, dropped, channel, batch, arrived>>,
             shutdown => shutdown', processor = "done" => processor' = "done"
      PROVE  NothingLost'
  BY <1>5 DEF NothingLost
<1>6. CASE \/ Check \/ Connect \/ Fail \/ NoticeShutdown \/ EndOfStream \/ SendFails \/ Retry
  BY <1>5, <1>6 DEF Check, Connect, Fail, NoticeShutdown, EndOfStream, SendFails, Retry,
                    processorVars, mainVars
<1>7. CASE Drained \/ Tick \/ Work \/ CtrlC \/ Exit \/ UNCHANGED vars
  BY <1>5, <1>7 DEF Drained, Tick, Work, CtrlC, Exit, vars,
                    streamerVars, processorVars, mainVars
<1>8. ASSUME NEW n \in 1..MaxBatch, Deliver(n) PROVE NothingLost'
  BY <1>1, <1>8 DEF NothingLost, InOrder
<1> QED
  BY <1>2, <1>3, <1>4, <1>6, <1>7, <1>8
     DEF Next, Streamer, Processor, Maintenance, Stopped

\* Every trade parsed is in one place, in order, whatever the sizes of channel
\* and messages and however often the stream is opened again.
THEOREM LosesNothing == Spec => []NothingLost
<1>1. Init => NothingLost
  <2> SUFFICES ASSUME Init PROVE NothingLost
    OBVIOUS
  <2>1. /\ batch = << >> /\ channel = << >> /\ hand = << >>
        /\ processed = << >> /\ dropped = << >> /\ arrived = 0
    BY DEF Init
  <2>2. << >> \o << >> \o << >> \o << >> \o << >> = [i \in 1..0 |-> i]
    OBVIOUS
  <2> QED
    BY <2>1, <2>2 DEF NothingLost
<1> QED
  BY <1>1, InitTyped, TypeInductive, OrderInductive, PTL DEF Spec

-----------------------------------------------------------------------------
\* Each task that has ended has a reason, which it may have from another one.
Reasons == /\ streamer = "done" => shutdown \/ ended
           /\ processor = "done" => shutdown \/ ended
           /\ maintenance = "done" => shutdown
           /\ StopsForAReason

LEMMA ReasonsInductive == Reasons /\ [Next]_vars => Reasons'
<1> SUFFICES ASSUME Reasons, [Next]_vars PROVE Reasons'
  OBVIOUS
<1> USE DEF Reasons, StopsForAReason
<1>1. CASE Check \/ Connect \/ Fail \/ NoticeShutdown \/ EndOfStream \/ Send \/ SendFails \/ Retry
  BY <1>1 DEF Check, Connect, Fail, NoticeShutdown, EndOfStream, Send, SendFails, Retry,
              processorVars, mainVars
<1>2. ASSUME NEW n \in 1..MaxBatch, Deliver(n) PROVE Reasons'
  BY <1>2 DEF Deliver, processorVars, mainVars
<1>3. CASE Receive \/ Drained \/ Process
  BY <1>3 DEF Receive, Drained, Process, streamerVars, mainVars
<1>4. CASE Tick \/ Work \/ CtrlC \/ Exit \/ UNCHANGED vars
  BY <1>4 DEF Tick, Work, CtrlC, Exit, vars, streamerVars, processorVars, mainVars
<1> QED
  BY <1>1, <1>2, <1>3, <1>4 DEF Next, Streamer, Processor, Maintenance, Stopped

\* The daemon does not stop but on the signal or at the end of a stream.
THEOREM StopsForCause == Spec => []StopsForAReason
<1>1. Init => Reasons
  BY DEF Init, Reasons, StopsForAReason
<1>2. Reasons => StopsForAReason
  BY DEF Reasons
<1> QED
  BY <1>1, <1>2, ReasonsInductive, PTL DEF Spec
=============================================================================
