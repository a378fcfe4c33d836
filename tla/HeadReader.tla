----------------------------- MODULE HeadReader -----------------------------
(***************************************************************************)
(* exporters/events/cmd/events-exporter: HeadReader.Read following the     *)
(* head by polling (the default).                                          *)
(*                                                                         *)
(* Three goroutines of one errgroup: the poller asks for the head's number *)
(* every 15 s and sends the hash of every height since the last one over   *)
(* an unbuffered channel; the consumer counts the events and the para      *)
(* votes of each block; the ticker gives up when the events stop.  The     *)
(* first goroutine that fails cancels the context of the others; when all  *)
(* three have returned the process exits and is started again.             *)
(*                                                                         *)
(* A request yields its answer, an error, or, from an RPC error or from a  *)
(* connection that is being cleaned up, an empty frame without an error,   *)
(* which reads as number 0, as the empty hash or as a block without events. *)
(*                                                                         *)
(* A definition X_Y is X with the bug Y: no action uses it, the mutation   *)
(* runs put it in the place of X.                                          *)
(***************************************************************************)
EXTENDS Integers, Sequences

CONSTANTS MaxHeight,   \* bound: heights of the chain
          MaxFailures, \* bound: requests that fail or yield an empty frame
                       \* and waits that time out, per start of the process
          EventCounts, \* how many events a block may have
          Blank        \* the empty hash; no block

(* uint64 arithmetic, on a word just long enough for the heights and the   *)
(* wrapped 0 - 1.                                                          *)
MaxWord == MaxHeight + 1
Words   == 0 .. MaxWord
Inc(n) == IF n = MaxWord THEN 0 ELSE n + 1
Dec(n) == IF n = 0 THEN MaxWord ELSE n - 1

ASSUME ConstantsAssumption ==
  /\ MaxHeight \in Nat \ {0}
  /\ MaxFailures \in Nat
  /\ EventCounts \subseteq Nat
  /\ 0 \in EventCounts
  /\ Blank \notin Nat

Heights == 0 .. MaxHeight

VARIABLES head,       \* the chain
          failures,   \* how many requests and waits have failed
          cancelled,  \* the errgroup's context
          poller, number, i, LastProcessedHeight,
          hash,       \* what chain_getBlockHash(i) gave: a height or Blank
          consumer,
          height,     \* the height the poller asked a hash for
          h,          \* the hash it got
          counted,    \* the block whose events were counted
          taken,      \* for the properties: the heights whose turn it was
          ticker, counters, EventsProcessed, EventsRate

pollerVars   == <<poller, number, i, LastProcessedHeight, hash>>
consumerVars == <<consumer, height, h, counted, taken, EventsProcessed>>
tickerVars   == <<ticker, counters, EventsRate>>
groupVars    == <<failures, cancelled>>
vars == <<head, groupVars, pollerVars, consumerVars, tickerVars>>

Init ==
  /\ head \in 1 .. MaxHeight
  /\ failures = 0
  /\ cancelled = FALSE
  /\ poller = "idle" /\ number = 0 /\ i = 0
  /\ LastProcessedHeight = 0 /\ hash = Blank
  /\ consumer = "idle" /\ height = 0 /\ h = Blank /\ counted = Blank /\ taken = <<>>
  /\ ticker = "running" /\ counters = <<0, 0, 0>>
  /\ EventsProcessed = 0 /\ EventsRate = 1

NewHead ==
  /\ head < MaxHeight
  /\ head' = head + 1
  /\ UNCHANGED <<groupVars, pollerVars, consumerVars, tickerVars>>

CountFailure == failures < MaxFailures /\ failures' = failures + 1

(* A goroutine returns an error: its own, or that of the cancelled context. *)
Fails ==
  /\ cancelled' = TRUE
  /\ IF cancelled THEN UNCHANGED failures ELSE CountFailure

(* Under a cancelled context no request succeeds any more; one in progress *)
(* that still gets its answer might as well have got it just before.       *)
Answered == ~cancelled /\ UNCHANGED cancelled

-----------------------------------------------------------------------------
(* pollHeadHashes.  A height stands for its hash.                          *)
PollerStep(from, to) == poller = from /\ poller' = to

PollTick ==
  /\ PollerStep("idle", "header")
  /\ UNCHANGED <<head, groupVars, number, i, LastProcessedHeight, hash,
                 consumerVars, tickerVars>>

PollCancelled ==
  /\ cancelled
  /\ PollerStep("idle", "returned")
  /\ UNCHANGED <<head, groupVars, number, i, LastProcessedHeight, hash,
                 consumerVars, tickerVars>>

BeforeFirst_Signed(n) == n - 1
BeforeFirst(n) == Dec(n)

LastHeight_Exclusive(n) == n - 1
LastHeight(n) == n

PollHeader ==
  \E n \in {head, 0} :
    /\ Answered
    /\ IF n = 0 THEN CountFailure ELSE UNCHANGED failures
    /\ LET last == IF LastProcessedHeight = 0 THEN BeforeFirst(n)
                   ELSE LastProcessedHeight
           next == Inc(last)
       IN  /\ PollerStep("header", IF next <= LastHeight(n) THEN "hash" ELSE "idle")
           /\ LastProcessedHeight' = last
           /\ number' = n
           /\ i' = next
    /\ UNCHANGED <<head, hash, consumerVars, tickerVars>>

PollHash ==
  /\ PollerStep("hash", "send")
  /\ Answered
  /\ \/ hash' = i /\ UNCHANGED failures
     \/ hash' = Blank /\ CountFailure
  /\ UNCHANGED <<head, number, i, LastProcessedHeight, consumerVars, tickerVars>>

PollFail ==
  /\ \E pc \in {"header", "hash"} : PollerStep(pc, "returned")
  /\ Fails
  /\ UNCHANGED <<head, number, i, LastProcessedHeight, hash, consumerVars, tickerVars>>

(* hashes <- hash, which nothing but a receiver ends: the consumer must be *)
(* in its select.                                                          *)
Advanced_Stays == LastProcessedHeight
Advanced == i

Send ==
  /\ PollerStep("send", IF Inc(i) <= LastHeight(number) THEN "hash" ELSE "idle")
  /\ consumer = "idle" /\ consumer' = "events"
  /\ height' = i
  /\ h' = hash /\ hash' = Blank
  /\ LastProcessedHeight' = Advanced
  /\ i' = Inc(i)
  /\ UNCHANGED <<head, groupVars, number, counted, taken, EventsProcessed,
                 tickerVars>>

Poller == PollTick \/ PollCancelled \/ PollHeader \/ PollHash \/ PollFail

-----------------------------------------------------------------------------
(* The goroutine that handles the hashes.                                  *)
ConsumerStep(from, to) == consumer = from /\ consumer' = to

(* state_getStorage without a block hash reads the newest block.           *)
BlockOf(x) == IF x = Blank THEN head ELSE x

ProcessBlockEvents ==
  /\ ConsumerStep("events", "votes")
  /\ Answered
  /\ taken' = Append(taken, height)
  /\ \/ /\ counted' = BlockOf(h)
        /\ \E n \in EventCounts : EventsProcessed' = EventsProcessed + n
        /\ UNCHANGED failures
     \/ /\ counted' = Blank
        /\ UNCHANGED EventsProcessed
        /\ CountFailure
  /\ UNCHANGED <<head, height, h, pollerVars, tickerVars>>

(* An empty frame makes this one fail: it cannot be decoded.               *)
ProcessBlockParaVotes ==
  /\ ConsumerStep("votes", "idle")
  /\ Answered
  /\ h' = Blank /\ counted' = Blank
  /\ UNCHANGED <<head, failures, height, taken, EventsProcessed,
                 pollerVars, tickerVars>>

(* A request fails, or no hash has come for 120 s.                         *)
ConsumerFail ==
  /\ \E pc \in {"idle", "events", "votes"} : ConsumerStep(pc, "returned")
  /\ Fails
  /\ UNCHANGED <<head, height, h, counted, taken, EventsProcessed, pollerVars,
                 tickerVars>>

Consumer == ProcessBlockEvents \/ ProcessBlockParaVotes \/ ConsumerFail

-----------------------------------------------------------------------------
(* The liveness ticker, every minute.                                      *)
Tick ==
  LET c == <<counters[2], counters[3], EventsProcessed>>
      rate == (c[3] - c[1]) \div 3
  IN  /\ ticker = "running"
      /\ counters' = c
      /\ EventsRate' = rate
      /\ ticker' = IF rate = 0 THEN "returned" ELSE "running"
      /\ cancelled' = (cancelled \/ rate = 0)
      /\ UNCHANGED <<head, failures, pollerVars, consumerVars>>

TickerCancelled ==
  /\ cancelled
  /\ ticker = "running" /\ ticker' = "returned"
  /\ EventsRate' = 0
  /\ UNCHANGED <<head, groupVars, counters, pollerVars, consumerVars>>

-----------------------------------------------------------------------------
(* g.Wait returns, main ends the process and the container is restarted.   *)
Restart ==
  /\ poller = "returned" /\ consumer = "returned" /\ ticker = "returned"
  /\ failures' = 0
  /\ cancelled' = FALSE
  /\ poller' = "idle" /\ number' = 0 /\ i' = 0
  /\ LastProcessedHeight' = 0 /\ hash' = Blank
  /\ consumer' = "idle" /\ height' = 0 /\ h' = Blank /\ counted' = Blank
  /\ taken' = <<>>
  /\ ticker' = "running" /\ counters' = <<0, 0, 0>>
  /\ EventsProcessed' = 0 /\ EventsRate' = 1
  /\ UNCHANGED head

Next ==
  \/ NewHead \/ Poller \/ Send \/ Consumer
  \/ Tick \/ TickerCancelled \/ Restart

Spec == Init /\ [][Next]_vars

(* Requests end, by an answer, an error or their deadline; a select with a *)
(* ready case goes on.  How often the ticker ticks is left open.           *)
Fairness ==
  /\ WF_vars(Poller)
  /\ WF_vars(Send)
  /\ WF_vars(Consumer)
  /\ WF_vars(TickerCancelled)
  /\ WF_vars(Restart)

FairSpec == Spec /\ Fairness

-----------------------------------------------------------------------------
(* Every variable has its type.                                            *)
TypeOK ==
  /\ head \in 1 .. MaxHeight
  /\ failures \in 0 .. MaxFailures
  /\ cancelled \in BOOLEAN
  /\ poller \in {"idle", "header", "hash", "send", "returned"}
  /\ number \in Heights
  /\ i \in Words
  /\ LastProcessedHeight \in Words
  /\ consumer \in {"idle", "events", "votes", "returned"}
  /\ height \in Words
  /\ {hash, h, counted} \subseteq Words \cup {Blank}
  /\ taken \in Seq(Words)
  /\ ticker \in {"running", "returned"}
  /\ counters \in Nat \X Nat \X Nat
  /\ EventsProcessed \in Nat
  /\ EventsRate \in Int

(* The heights whose turn comes are those HeadFollower promises:           *)
(* consecutive and each once, through late headers, blank answers and      *)
(* hashes left over from the last tick; and a process that has not failed  *)
(* does not start over.                                                    *)
Follower == INSTANCE HeadFollower WITH Heights <- Heights, alive <- ~cancelled, taken <- taken
FollowsHead == Follower!Spec

processed == Follower!Last   \* the last height taken; 0 before the first one

(* Once it follows the head, the reader takes up every height the chain    *)
(* has reached, however far behind it is, unless one of its goroutines     *)
(* fails.                                                                  *)
EveryHeightIsTaken ==
  \A n \in 1 .. MaxHeight :
    (LastProcessedHeight \in 1 .. n - 1 /\ head >= n)
       ~> (processed >= n \/ cancelled)

(* The events counted for a height are those of the block at this height.  *)
EventsOfItsBlock == consumer = "votes" => counted = height

(* A goroutine that fails ends the process, so that it is started again.   *)
FailureRestarts == cancelled ~> ~cancelled
=============================================================================
