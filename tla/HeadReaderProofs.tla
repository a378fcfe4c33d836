-------------------------- MODULE HeadReaderProofs --------------------------
(* HeadReader implements HeadFollower, for every height, number of         *)
(* failures and number of events.                                          *)
EXTENDS HeadReader, TLAPS

(* Every variable keeps its type.                                          *)
LEMMA Typing == Spec => []TypeOK
<1> USE ConstantsAssumption DEF ConstantsAssumption, Heights, Words, MaxWord, TypeOK
<1>1. Init => TypeOK
  <2> SUFFICES ASSUME Init PROVE TypeOK
    OBVIOUS
  <2>1. counters \in Nat \X Nat \X Nat
    BY DEF Init
  <2>2. cancelled \in BOOLEAN
    BY DEF Init
  <2>3. /\ number \in Heights /\ i \in Words /\ LastProcessedHeight \in Words
        /\ height \in Words /\ taken \in Seq(Words)
        /\ {hash, h, counted} \subseteq Words \cup {Blank}
    BY DEF Init
  <2>4. QED
    BY <2>1, <2>2, <2>3 DEF Init
<1>2. TypeOK /\ [Next]_vars => TypeOK'
  <2> SUFFICES ASSUME TypeOK, [Next]_vars PROVE TypeOK'
    OBVIOUS
  <2>1. CASE NewHead
    BY <2>1 DEF NewHead, groupVars, pollerVars, consumerVars, tickerVars
  <2>2. CASE PollTick
    BY <2>2 DEF PollTick, PollerStep, groupVars, consumerVars, tickerVars
  <2>3. CASE PollCancelled
    BY <2>3 DEF PollCancelled, PollerStep, groupVars, consumerVars, tickerVars
  <2>4. CASE PollHeader
    BY <2>4 DEF PollHeader, PollerStep, Answered, CountFailure, BeforeFirst, LastHeight,
                Inc, Dec, consumerVars, tickerVars
  <2>5. CASE PollHash
    BY <2>5 DEF PollHash, PollerStep, Answered, CountFailure, consumerVars, tickerVars
  <2>6. CASE PollFail
    BY <2>6 DEF PollFail, PollerStep, Fails, CountFailure, consumerVars, tickerVars
  <2>7. CASE Send
    BY <2>7 DEF Send, PollerStep, Advanced, LastHeight, Inc, groupVars, tickerVars
  <2>8. CASE ProcessBlockEvents
    <3>1. consumer' = "votes" /\ UNCHANGED <<head, cancelled, height, h, pollerVars, tickerVars>>
      BY <2>8 DEF ProcessBlockEvents, ConsumerStep, Answered
    <3>2. failures' \in 0 .. MaxFailures
      BY <2>8 DEF ProcessBlockEvents, CountFailure
    <3>3. counted' \in Words \cup {Blank}
      BY <2>8 DEF ProcessBlockEvents, BlockOf
    <3>4. taken' \in Seq(Words)
      BY <2>8 DEF ProcessBlockEvents
    <3>5. EventsProcessed' \in Nat
      BY <2>8 DEF ProcessBlockEvents
    <3>6. QED
      BY <3>1, <3>2, <3>3, <3>4, <3>5 DEF pollerVars, tickerVars
  <2>9. CASE ProcessBlockParaVotes
    BY <2>9 DEF ProcessBlockParaVotes, ConsumerStep, Answered, pollerVars, tickerVars
  <2>10. CASE ConsumerFail
    BY <2>10 DEF ConsumerFail, ConsumerStep, Fails, CountFailure, pollerVars, tickerVars
  <2>11. CASE Tick
    <3>1. /\ counters[2] \in Nat /\ counters[3] \in Nat
          /\ counters' = <<counters[2], counters[3], EventsProcessed>>
          /\ EventsRate' = (EventsProcessed - counters[2]) \div 3
      BY <2>11 DEF Tick
    <3>2. counters' \in Nat \X Nat \X Nat /\ EventsRate' \in Int
      BY <3>1
    <3>3. ticker' \in {"running", "returned"} /\ cancelled' \in BOOLEAN
      BY <2>11 DEF Tick
    <3>4. QED
      BY <2>11, <3>2, <3>3 DEF Tick, pollerVars, consumerVars
  <2>12. CASE TickerCancelled
    BY <2>12 DEF TickerCancelled, groupVars, pollerVars, consumerVars
  <2>13. CASE Restart
    <3>1. counters' \in Nat \X Nat \X Nat
      BY <2>13 DEF Restart
    <3>2. /\ number' \in Heights /\ i' \in Words /\ LastProcessedHeight' \in Words
          /\ height' \in Words /\ taken' \in Seq(Words)
          /\ {hash', h', counted'} \subseteq Words \cup {Blank}
      BY <2>13 DEF Restart
    <3>3. /\ head' \in 1 .. MaxHeight /\ failures' \in 0 .. MaxFailures
          /\ EventsProcessed' \in Nat /\ EventsRate' \in Int
      BY <2>13 DEF Restart
    <3>4. cancelled' \in BOOLEAN
      BY <2>13 DEF Restart
    <3>5. /\ poller' \in {"idle", "header", "hash", "send", "returned"}
          /\ consumer' \in {"idle", "events", "votes", "returned"}
          /\ ticker' \in {"running", "returned"}
      BY <2>13 DEF Restart
    <3>6. QED
      BY <3>1, <3>2, <3>3, <3>4, <3>5
  <2>14. CASE UNCHANGED vars
    BY <2>14 DEF vars, groupVars, pollerVars, consumerVars, tickerVars
  <2>15. QED
    BY <2>1, <2>2, <2>3, <2>4, <2>5, <2>6, <2>7, <2>8, <2>9, <2>10, <2>11, <2>12,
       <2>13, <2>14 DEF Next, Poller, Consumer
<1>3. QED
  BY <1>1, <1>2, PTL DEF Spec

-----------------------------------------------------------------------------
(* The last height taken, as the history grows, stays or starts anew.      *)
LEMMA LastTaken ==
  /\ taken = <<>> => processed = 0
  /\ UNCHANGED taken => UNCHANGED processed
  /\ taken' = <<>> => processed' = 0
  /\ \A x \in Words : taken \in Seq(Words) /\ taken' = Append(taken, x) => processed' = x
<1>1. UNCHANGED taken => UNCHANGED processed
  BY DEF processed, Follower!Last
<1>2. (taken = <<>> => processed = 0) /\ (taken' = <<>> => processed' = 0)
  BY DEF processed, Follower!Last
<1>3. ASSUME NEW x \in Words, taken \in Seq(Words), taken' = Append(taken, x)
      PROVE  processed' = x
  <2>1. taken' # <<>> /\ taken'[Len(taken')] = x
    BY <1>3
  <2>2. QED
    BY <2>1 DEF processed, Follower!Last
<1>4. QED
  BY <1>1, <1>2, <1>3

(* What the poller hands over next is the height after the last one handed *)
(* over; the consumer holds that height until its block is counted.        *)
InStep ==
  /\ processed \in Heights
  /\ consumer \in {"idle", "votes"} => processed \in {0, LastProcessedHeight}
  /\ consumer = "events" =>
       /\ height \in Heights
       /\ processed # 0 => height = processed + 1
       /\ height # 0 => LastProcessedHeight = height
  /\ poller \in {"hash", "send"} => i = Inc(LastProcessedHeight) /\ i <= number

(* The poller and the consumer stay in step, also when the height wraps at *)
(* an empty header and when one of them has failed.                        *)
LEMMA InStepInvariant == Spec => []InStep
<1> USE ConstantsAssumption DEF ConstantsAssumption, Heights, Words, MaxWord, Inc, InStep
<1>1. Init => InStep
  BY LastTaken DEF Init
<1>2. TypeOK /\ InStep /\ [Next]_vars => InStep'
  <2> SUFFICES ASSUME TypeOK, InStep, [Next]_vars PROVE InStep'
    OBVIOUS
  <2>1. CASE PollHeader
    <3>1. UNCHANGED processed
      BY <2>1, LastTaken DEF PollHeader, consumerVars
    <3>2. QED
      BY <2>1, <3>1 DEF PollHeader, PollerStep, BeforeFirst, Dec, LastHeight, consumerVars, TypeOK
  <2>2. CASE PollTick \/ PollCancelled \/ PollHash \/ PollFail
    <3>1. UNCHANGED processed
      BY <2>2, LastTaken DEF PollTick, PollCancelled, PollHash, PollFail, consumerVars
    <3>2. QED
      BY <2>2, <3>1 DEF PollTick, PollCancelled, PollHash, PollFail, PollerStep, consumerVars
  <2>3. CASE Send
    <3>1. UNCHANGED processed
      BY <2>3, LastTaken DEF Send
    <3>2. QED
      BY <2>3, <3>1 DEF Send, PollerStep, Advanced, LastHeight, TypeOK
  <2>4. CASE ProcessBlockEvents
    <3>1. processed' = height
      BY <2>4, LastTaken DEF ProcessBlockEvents, TypeOK
    <3>2. QED
      BY <2>4, <3>1 DEF ProcessBlockEvents, ConsumerStep, pollerVars
  <2>5. CASE ProcessBlockParaVotes \/ ConsumerFail
    <3>1. UNCHANGED processed
      BY <2>5, LastTaken DEF ProcessBlockParaVotes, ConsumerFail
    <3>2. QED
      BY <2>5, <3>1 DEF ProcessBlockParaVotes, ConsumerFail, ConsumerStep, pollerVars
  <2>6. CASE Restart
    <3>1. processed' = 0
      BY <2>6, LastTaken DEF Restart
    <3>2. QED
      BY <2>6, <3>1 DEF Restart
  <2>7. CASE NewHead \/ Tick \/ TickerCancelled \/ UNCHANGED vars
    <3>1. UNCHANGED processed
      BY <2>7, LastTaken DEF NewHead, Tick, TickerCancelled, vars, consumerVars
    <3>2. QED
      BY <2>7, <3>1 DEF NewHead, Tick, TickerCancelled, vars, pollerVars, consumerVars
  <2>8. QED
    BY <2>1, <2>2, <2>3, <2>4, <2>5, <2>6, <2>7 DEF Next, Poller, Consumer
<1>3. QED
  BY <1>1, <1>2, Typing, PTL DEF Spec

(* A goroutine that returns leaves the context cancelled, and the process  *)
(* ends only when all have returned.                                       *)
ReturnedIsCancelled ==
  poller = "returned" \/ consumer = "returned" \/ ticker = "returned" => cancelled

LEMMA ReturnedInvariant == Spec => []ReturnedIsCancelled
<1> USE DEF ReturnedIsCancelled
<1>1. Init => ReturnedIsCancelled
  BY DEF Init
<1>2. TypeOK /\ ReturnedIsCancelled /\ [Next]_vars => ReturnedIsCancelled'
  <2> SUFFICES ASSUME TypeOK, ReturnedIsCancelled, [Next]_vars PROVE ReturnedIsCancelled'
    OBVIOUS
  <2>1. CASE Poller
    BY <2>1 DEF Poller, PollTick, PollCancelled, PollHeader, PollHash, PollFail, PollerStep,
                Answered, Fails, groupVars, consumerVars, tickerVars
  <2>2. CASE Send
    BY <2>2 DEF Send, PollerStep, groupVars, tickerVars
  <2>3. CASE Consumer
    BY <2>3 DEF Consumer, ProcessBlockEvents, ProcessBlockParaVotes, ConsumerFail, ConsumerStep,
                Answered, Fails, pollerVars, tickerVars
  <2>4. CASE Tick
    <3>1. cancelled' = (cancelled \/ EventsRate' = 0) /\ (ticker' = "returned" => EventsRate' = 0)
      BY <2>4 DEF Tick
    <3>2. cancelled' = TRUE \/ (ticker' # "returned" /\ (cancelled => cancelled'))
      BY <3>1
    <3>3. QED
      BY <2>4, <3>1, <3>2 DEF Tick, pollerVars, consumerVars
  <2>5. CASE TickerCancelled
    BY <2>5 DEF TickerCancelled, groupVars, pollerVars, consumerVars
  <2>6. CASE Restart
    BY <2>6 DEF Restart
  <2>7. CASE NewHead \/ UNCHANGED vars
    BY <2>7 DEF NewHead, vars, groupVars, pollerVars, consumerVars, tickerVars
  <2>8. QED
    BY <2>1, <2>2, <2>3, <2>4, <2>5, <2>6, <2>7 DEF Next
<1>3. QED
  BY <1>1, <1>2, Typing, PTL DEF Spec

(* The reader implements HeadFollower: it takes consecutive heights, each  *)
(* once and none left out, until one of its goroutines fails, and starts   *)
(* over only then.                                                         *)
THEOREM ReaderFollowsHead == Spec => FollowsHead
<1>1. Init => Follower!Init
  BY DEF Init, Follower!Init
<1>2. TypeOK /\ InStep /\ ReturnedIsCancelled /\ [Next]_vars => [Follower!Next]_(Follower!vars)
  <2> SUFFICES ASSUME TypeOK, InStep, ReturnedIsCancelled, [Next]_vars,
                      ~(UNCHANGED <<cancelled, taken>>)
               PROVE  Follower!Next
    BY DEF Follower!vars
  <2> USE DEF Follower!Next
  <2>1. cancelled \in BOOLEAN
    BY DEF TypeOK
  <2>2. ASSUME UNCHANGED taken, cancelled' \in BOOLEAN, cancelled => cancelled'
        PROVE  Follower!Next
    BY <2>1, <2>2 DEF Follower!Fail
  <2>3. CASE ProcessBlockEvents
    <3>1. height \in Heights /\ (processed # 0 => height = processed + 1)
      BY <2>3 DEF ProcessBlockEvents, ConsumerStep, InStep
    <3>2. ~cancelled /\ UNCHANGED cancelled /\ taken' = Append(taken, height)
      BY <2>3 DEF ProcessBlockEvents, Answered
    <3>3. QED
      BY <3>1, <3>2 DEF Follower!Follow, processed
  <2>4. CASE Restart
    BY <2>1, <2>4 DEF Restart, ReturnedIsCancelled, Follower!Restart
  <2>5. CASE Poller
    BY <2>1, <2>2, <2>5 DEF Poller, PollTick, PollCancelled, PollHeader, PollHash, PollFail, Answered,
                Fails, groupVars, consumerVars
  <2>6. CASE Send \/ NewHead \/ TickerCancelled \/ UNCHANGED vars
    BY <2>6 DEF Send, NewHead, TickerCancelled, vars, groupVars, consumerVars
  <2>7. CASE ProcessBlockParaVotes \/ ConsumerFail
    BY <2>1, <2>2, <2>7 DEF ProcessBlockParaVotes, ConsumerFail, Answered, Fails
  <2>8. CASE Tick
    <3>1. UNCHANGED taken /\ cancelled' = (cancelled \/ EventsRate' = 0)
      BY <2>8 DEF Tick, consumerVars
    <3>2. cancelled' \in BOOLEAN /\ (cancelled => cancelled')
      BY <2>1, <3>1, Zenon
    <3>3. QED
      BY <2>2, <3>1, <3>2
  <2>9. QED
    BY <2>3, <2>4, <2>5, <2>6, <2>7, <2>8 DEF Next, Consumer
<1>3. QED
  BY <1>1, <1>2, Typing, InStepInvariant, ReturnedInvariant, PTL DEF Spec, FollowsHead, Follower!Spec
=============================================================================
