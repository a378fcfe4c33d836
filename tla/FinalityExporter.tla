-------------------------- MODULE FinalityExporter --------------------------
(***************************************************************************)
(* exporters/common/finality_exporter.py.                                  *)
(*                                                                         *)
(* ThreadsPerUrl poller threads per RPC endpoint (get_votes) watch the     *)
(* GRANDPA round state of the chain and put one observation per finished   *)
(* round into the deque q_votes_raw.  One worker thread (main) tallies     *)
(* these observations every second: a round observed at least              *)
(* votes_threshold times is counted, and every validator that the best     *)
(* observation does not list as missing is credited with a vote.           *)
(* q_outaged holds the endpoints whose poller has failed and lowers the    *)
(* threshold.                                                              *)
(*                                                                         *)
(* The chain is the environment: a round collects votes, the next round    *)
(* starts, the authority set changes with the session.  Every endpoint is  *)
(* a node of its own that learns of the votes in an order of its own;      *)
(* rounds begin for all of them at once, and a node that lags behind is    *)
(* one that is asked early in the round.  Its round numbers go on across   *)
(* sessions: on chain they restart, but a session has far more rounds      *)
(* than the deques remember, so numbers of two sessions never meet in      *)
(* them.  Requests are made over connections whose library is not          *)
(* modelled: one that fails for whatever reason is PollFail or ReadFail.   *)
(*                                                                         *)
(* A definition X_Y is X with the bug Y: no action uses it, the mutation   *)
(* runs put it in the place of X.                                          *)
(***************************************************************************)
EXTENDS Integers, FiniteSets, SequencesExt

CONSTANTS Urls,          \* WS_ENDPOINTS
          ThreadsPerUrl, \* thread_count
          Kinds,         \* the two kinds of vote: prevotes, precommits
          Validators,    \* every validator that is ever in the active set
          Active,        \* Active[s]: the authorities of session s
          Offline,       \* the validators that never vote
          RawCap,        \* maxlen of q_votes_raw
          ProcCap,       \* maxlen of q_rounds_processed
          OutagedCap,    \* maxlen of q_outaged
          MaxRound,      \* bound: rounds of the chain
          MaxSession,    \* bound: sessions of the chain
          MaxFailures,   \* bound: failed requests
          Null           \* no observation, no key

Sessions == 1 .. MaxSession + 1   \* the last one is only ever queued
Rounds   == 1 .. MaxRound
Threads  == Urls \X (1 .. ThreadsPerUrl)
Url(t)   == t[1]

ASSUME ConstantsAssumption ==
  /\ IsFiniteSet(Urls)
  /\ ThreadsPerUrl \in Nat \ {0}
  /\ MaxRound \in Nat \ {0}
  /\ MaxSession \in Nat \ {0}
  /\ MaxFailures \in Nat
  /\ RawCap \in Nat \ {0}
  /\ ProcCap \in Nat \ {0}
  /\ OutagedCap \in Nat \ {0}
  /\ Active \in [Sessions -> SUBSET Validators]
  /\ Offline \subseteq Validators
  /\ IsFiniteSet(Validators)
  /\ Null \notin Validators

VARIABLES session, round, cast, failures,              \* the environment
          tpc, r,                                      \* get_votes, per thread
          q_votes_raw, q_outaged, q_rounds_processed,  \* shared deques
          metrics, published,          \* the metrics object; is it in q_metrics?
          mpc, current_session, votes_threshold,       \* main
          active_validators, grandpa_keys,
          outaged_mutated, data, pos, result           \* construct_metrics

chainVars  == <<session, round, cast, failures>>
pollerVars == <<tpc, r>>
metricVars == <<metrics, published, q_rounds_processed>>
readVars   == <<current_session, votes_threshold, active_validators, grandpa_keys>>
tallyVars  == <<data, pos, result>>
vars == <<chainVars, pollerVars, q_votes_raw, q_outaged, metricVars, mpc,
          readVars, outaged_mutated, tallyVars>>

-----------------------------------------------------------------------------
(* A deque with a maxlen drops its oldest element when it is full.         *)
Push(q, x, cap) == IF Len(q) < cap THEN Append(q, x) ELSE Append(Tail(q), x)

(* deque.remove takes out the first occurrence only.                       *)
IsFirst(q, x, i) == q[i] = x /\ \A j \in 1 .. i - 1 : q[j] # x

(* An observation, with the thread that made it: the code keeps only the   *)
(* round and the two missing lists, `by' is there for the properties.      *)
Observations ==
  [by : Threads, round : Rounds, missing : [Kinds -> SUBSET Validators]]

(* grandpa_roundState answered now to thread t, by the node it asks.       *)
RoundState(t) ==
  [by |-> t, round |-> round,
   missing |-> [k \in Kinds |-> Active[session] \ cast[Url(t)][k]]]

(* The votes of the round, as each node has seen them.                     *)
NoVotes == [u \in Urls |-> [k \in Kinds |-> {}]]

NoMetrics == [currentSession |-> 1, validators |-> <<>>, roundsProcessed |-> 0]

Init ==
  /\ session = 1
  /\ round = 1
  /\ cast = NoVotes
  /\ failures = 0
  /\ tpc = [t \in Threads |-> "poll"]
  /\ r = [t \in Threads |-> Null]
  /\ q_votes_raw = <<>>
  /\ q_outaged = <<>>
  /\ q_rounds_processed = <<>>
  /\ metrics = NoMetrics
  /\ published = FALSE
  /\ mpc = "scan"
  /\ current_session = 1
  /\ votes_threshold = 0
  /\ active_validators = {}
  /\ grandpa_keys = <<>>
  /\ outaged_mutated = FALSE
  /\ data = <<>>
  /\ pos = 1
  /\ result = <<>>

Up == mpc # "down"

-----------------------------------------------------------------------------
(* The chain.  A vote reaches the node u.                                  *)
Vote(u, v, k) ==
  /\ v \in Active[session] \ (Offline \cup cast[u][k])
  /\ cast' = [cast EXCEPT ![u][k] = @ \cup {v}]
  /\ UNCHANGED <<session, round>>

NextRound ==
  /\ round < MaxRound
  /\ round' = round + 1
  /\ cast' = NoVotes
  /\ session' \in {session, session + 1} \cap (1 .. MaxSession)

Chain ==
  /\ \/ \E u \in Urls, v \in Validators, k \in Kinds : Vote(u, v, k)
     \/ NextRound
  /\ UNCHANGED <<failures, pollerVars, q_votes_raw, q_outaged, metricVars, mpc, readVars,
                 outaged_mutated, tallyVars>>

-----------------------------------------------------------------------------
(* get_votes: one thread of one endpoint.                                  *)
Goto(t, from, to) == Up /\ tpc[t] = from /\ tpc' = [tpc EXCEPT ![t] = to]

PollerLeaves ==
  UNCHANGED <<session, round, cast, metricVars, mpc, readVars, tallyVars>>

(* The round changed since this thread's last answer: what it saw last of  *)
(* the old round is final.                                                 *)
RoundOver_FirstAnswer(t, d) == r[t] = Null \/ d.round # r[t].round
RoundOver_EveryAnswer(t, d) == r[t] # Null
RoundOver(t, d) == r[t] # Null /\ d.round # r[t].round

LastSeen_Cleared(t) == [r[t] EXCEPT !.missing = [k \in Kinds |-> {}]]
LastSeen(t) == r[t]

PollOk(t) ==
  LET d == RoundState(t) IN
  /\ Goto(t, "poll", "check")
  /\ q_votes_raw' = IF RoundOver(t, d)
                    THEN Push(q_votes_raw, LastSeen(t), RawCap) ELSE q_votes_raw
  /\ r' = [r EXCEPT ![t] = d]
  /\ UNCHANGED <<q_outaged, outaged_mutated>>
  /\ UNCHANGED failures
  /\ PollerLeaves

(* Any failure of the request: lost connection, no answer, error answer.   *)
PollFail(t) ==
  /\ Goto(t, "poll", "except")
  /\ failures < MaxFailures /\ failures' = failures + 1
  /\ UNCHANGED <<r, q_votes_raw, q_outaged, outaged_mutated>>
  /\ PollerLeaves

CheckOutaged(t) ==
  /\ Goto(t, "check", IF Contains(q_outaged, Url(t)) THEN "remove" ELSE "poll")
  /\ UNCHANGED <<r, q_votes_raw, q_outaged, outaged_mutated>>
  /\ UNCHANGED failures
  /\ PollerLeaves

(* remove raises ValueError when another thread was faster.                *)
RemoveOutaged(t) ==
  /\ \/ /\ Goto(t, "remove", "poll")
        /\ \E i \in 1 .. Len(q_outaged) :
             /\ IsFirst(q_outaged, Url(t), i)
             /\ q_outaged' = RemoveAt(q_outaged, i)
        /\ outaged_mutated' = TRUE
     \/ /\ ~Contains(q_outaged, Url(t))
        /\ Goto(t, "remove", "except")
        /\ UNCHANGED <<q_outaged, outaged_mutated>>
  /\ UNCHANGED <<r, q_votes_raw>>
  /\ UNCHANGED failures
  /\ PollerLeaves

ExceptCheck(t) ==
  /\ Goto(t, "except", IF Contains(q_outaged, Url(t)) THEN "reconnect" ELSE "append")
  /\ UNCHANGED <<r, q_votes_raw, q_outaged, outaged_mutated>>
  /\ UNCHANGED failures
  /\ PollerLeaves

AppendOutaged(t) ==
  /\ Goto(t, "append", "reconnect")
  /\ q_outaged' = Push(q_outaged, Url(t), OutagedCap)
  /\ outaged_mutated' = TRUE
  /\ UNCHANGED <<r, q_votes_raw>>
  /\ UNCHANGED failures
  /\ PollerLeaves

(* SUBSTRATE_INTERFACE has no connect_websocket: the call raises an        *)
(* AttributeError, which nothing catches inside the except branch, and the *)
(* thread is gone.                                                         *)
Reconnect(t) ==
  /\ Goto(t, "reconnect", "dead")
  /\ UNCHANGED <<r, q_votes_raw, q_outaged, outaged_mutated>>
  /\ UNCHANGED failures
  /\ PollerLeaves

Poller(t) ==
  \/ PollOk(t) \/ PollFail(t) \/ CheckOutaged(t) \/ RemoveOutaged(t)
  \/ ExceptCheck(t) \/ AppendOutaged(t) \/ Reconnect(t)

-----------------------------------------------------------------------------
(* main: one iteration of its loop.                                        *)
Step(from, to) == mpc = from /\ mpc' = to

MainLeaves == UNCHANGED <<chainVars, pollerVars, q_votes_raw, q_outaged>>

(* for i in q_outaged: logs each element; the deque may change meanwhile.  *)
ScanBegin ==
  /\ Step("scan", IF q_outaged = <<>> THEN "session" ELSE "scanning")
  /\ outaged_mutated' = FALSE
  /\ UNCHANGED <<metricVars, readVars, tallyVars>>
  /\ MainLeaves

(* A deque mutated during iteration raises RuntimeError.                   *)
ScanEnd ==
  /\ Step("scanning", IF outaged_mutated THEN "down" ELSE "session")
  /\ UNCHANGED <<metricVars, readVars, tallyVars, outaged_mutated>>
  /\ MainLeaves

ReadSession ==
  /\ Step("session", "validators")
  /\ current_session' = session
  /\ UNCHANGED <<votes_threshold, active_validators, grandpa_keys>>
  /\ UNCHANGED <<metricVars, tallyVars, outaged_mutated>>
  /\ MainLeaves

ReadValidators ==
  /\ Step("validators", "keys")
  /\ votes_threshold' = (Cardinality(Urls) - Len(q_outaged)) * ThreadsPerUrl
  /\ active_validators' = Active[session]
  /\ UNCHANGED <<current_session, grandpa_keys>>
  /\ UNCHANGED <<metricVars, tallyVars, outaged_mutated>>
  /\ MainLeaves

(* QueuedKeys holds the keys of the next session's validators: get_keys    *)
(* leaves None for an active validator that is not among them.             *)
ReadKeys ==
  /\ Step("keys", "construct")
  /\ grandpa_keys' = [v \in active_validators |->
                        IF v \in Active[session + 1] THEN v ELSE Null]
  /\ UNCHANGED <<current_session, votes_threshold, active_validators>>
  /\ UNCHANGED <<metricVars, tallyVars, outaged_mutated>>
  /\ MainLeaves

(* A request that fails gives None, and None.value an exception.           *)
ReadFail ==
  /\ \E pc \in {"session", "validators", "keys"} : Step(pc, "down")
  /\ failures < MaxFailures /\ failures' = failures + 1
  /\ UNCHANGED <<metricVars, readVars, tallyVars, outaged_mutated>>
  /\ UNCHANGED <<session, round, cast, pollerVars, q_votes_raw, q_outaged>>

NewMetrics_KeepsVotes ==
  [currentSession  |-> current_session,
   validators      |-> IF published THEN metrics.validators
                       ELSE [v \in DOMAIN grandpa_keys |-> [k \in Kinds |-> 0]],
   roundsProcessed |-> 0]

NewMetrics ==
  [currentSession  |-> current_session,
   validators      |-> [v \in DOMAIN grandpa_keys |-> [k \in Kinds |-> 0]],
   roundsProcessed |-> 0]

(* construct_metrics, up to the loop over the observations.                *)
Construct ==
  /\ Step("construct", "entry")
  /\ data' = q_votes_raw
  /\ pos' = 1
  /\ result' = <<>>
  /\ metrics' = IF published /\ metrics.currentSession = current_session
                THEN metrics ELSE NewMetrics
  /\ UNCHANGED <<published, q_rounds_processed, readVars, outaged_mutated>>
  /\ MainLeaves

(* The observation at pos, and the round it is about.                      *)
Entry == data[pos]
AtEntry == mpc = "entry" /\ pos <= Len(data)

Processed_Never(n) == FALSE
Processed(n) == Contains(q_rounds_processed, n)

SkipEntry ==
  /\ AtEntry
  /\ Processed(Entry.round)
  /\ pos' = pos + 1
  /\ UNCHANGED <<mpc, data, result, metricVars, readVars, outaged_mutated>>
  /\ MainLeaves

(* The shorter of two missing lists; the older one when they tie.          *)
Shorter_Newest(new, old) == new
Shorter(new, old) == IF Cardinality(new) < Cardinality(old) THEN new ELSE old

(* The tally of a round; `of', the observations it is made of, is there    *)
(* for the properties.                                                     *)
TallyOf(e) ==
  IF e.round \in DOMAIN result
  THEN [count   |-> result[e.round].count + 1,
        missing |-> [k \in Kinds |-> Shorter(e.missing[k], result[e.round].missing[k])],
        of      |-> result[e.round].of \cup {pos}]
  ELSE [count |-> 1, missing |-> e.missing, of |-> {pos}]

Enough_More(count) == count > votes_threshold
Enough(count) == count >= votes_threshold

TallyEntry ==
  /\ AtEntry
  /\ ~Processed(Entry.round)
  /\ result' = [n \in DOMAIN result \cup {Entry.round} |->
                  IF n = Entry.round THEN TallyOf(Entry) ELSE result[n]]
  /\ IF Enough(TallyOf(Entry).count)
     THEN mpc' = "votes" /\ pos' = pos
     ELSE mpc' = "entry" /\ pos' = pos + 1
  /\ UNCHANGED <<data, metricVars, readVars, outaged_mutated>>
  /\ MainLeaves

(* The validators of S that the tally of the round at pos does not list as *)
(* missing are credited.                                                   *)
Credit(S) ==
  metrics' = [metrics EXCEPT !.validators =
    [v \in DOMAIN @ |-> [k \in Kinds |->
       @[v][k] + IF v \in S /\ grandpa_keys[v] \notin result[Entry.round].missing[k]
                 THEN 1 ELSE 0]]]

(* The accounts of the metrics are those of an earlier iteration: one that *)
(* has left the active set since has no entry in grandpa_keys (KeyError),  *)
(* and only the accounts before it have been credited.                     *)
CountVotes ==
  /\ LET accounts == DOMAIN metrics.validators IN
     \/ /\ Step("votes", "round")
        /\ accounts \subseteq DOMAIN grandpa_keys
        /\ Credit(accounts)
     \/ /\ Step("votes", "down")
        /\ ~(accounts \subseteq DOMAIN grandpa_keys)
        /\ \E S \in SUBSET (accounts \cap DOMAIN grandpa_keys) : Credit(S)
  /\ UNCHANGED <<published, q_rounds_processed, readVars, tallyVars, outaged_mutated>>
  /\ MainLeaves

CountRound ==
  /\ Step("round", "entry")
  /\ metrics' = [metrics EXCEPT !.roundsProcessed = @ + 1]
  /\ q_rounds_processed' = Push(q_rounds_processed, Entry.round, ProcCap)
  /\ pos' = pos + 1
  /\ UNCHANGED <<published, data, result, readVars, outaged_mutated>>
  /\ MainLeaves

(* q_metrics.clear() and, once construct_metrics' locals are gone, append. *)
ClearMetrics ==
  /\ Step("entry", "publish")
  /\ pos > Len(data)
  /\ published' = FALSE
  /\ data' = <<>> /\ pos' = 1 /\ result' = <<>>
  /\ UNCHANGED <<metrics, q_rounds_processed, readVars, outaged_mutated>>
  /\ MainLeaves

PublishMetrics ==
  /\ Step("publish", "scan")
  /\ published' = TRUE
  /\ UNCHANGED <<metrics, q_rounds_processed, readVars, tallyVars, outaged_mutated>>
  /\ MainLeaves

Main ==
  \/ ScanBegin \/ ScanEnd \/ ReadSession \/ ReadValidators \/ ReadKeys \/ ReadFail
  \/ Construct \/ SkipEntry \/ TallyEntry \/ CountVotes \/ CountRound
  \/ ClearMetrics \/ PublishMetrics

(* The container is started again after interrupt_main().                  *)
Restart ==
  /\ mpc = "down"
  /\ tpc' = [t \in Threads |-> "poll"]
  /\ r' = [t \in Threads |-> Null]
  /\ q_votes_raw' = <<>>
  /\ q_outaged' = <<>>
  /\ q_rounds_processed' = <<>>
  /\ metrics' = NoMetrics
  /\ published' = FALSE
  /\ mpc' = "scan"
  /\ current_session' = 1
  /\ votes_threshold' = 0
  /\ active_validators' = {}
  /\ grandpa_keys' = <<>>
  /\ outaged_mutated' = FALSE
  /\ data' = <<>>
  /\ pos' = 1
  /\ result' = <<>>
  /\ UNCHANGED chainVars

Next == Chain \/ (\E t \in Threads : Poller(t)) \/ Main \/ Restart

Spec == Init /\ [][Next]_vars

(* The worker thread goes on; nothing is assumed of chain and endpoints.   *)
FairSpec == Spec /\ WF_vars(Main)

-----------------------------------------------------------------------------
IsMetrics(m) ==
  /\ m = [currentSession  |-> m.currentSession, validators |-> m.validators,
          roundsProcessed |-> m.roundsProcessed]
  /\ m.currentSession \in 1 .. MaxSession
  /\ DOMAIN m.validators \subseteq Validators
  /\ m.validators \in [DOMAIN m.validators -> [Kinds -> Nat]]
  /\ m.roundsProcessed \in Nat

Tallies == [count : Nat, missing : [Kinds -> SUBSET Validators], of : SUBSET (Nat \ {0})]

(* Every variable has its type.                                            *)
TypeOK ==
  /\ session \in 1 .. MaxSession
  /\ round \in Rounds
  /\ cast \in [Urls -> [Kinds -> SUBSET Validators]]
  /\ failures \in 0 .. MaxFailures
  /\ tpc \in [Threads -> {"poll", "check", "remove", "except", "append",
                          "reconnect", "dead"}]
  /\ r \in [Threads -> Observations \cup {Null}]
  /\ q_votes_raw \in Seq(Observations)
  /\ q_outaged \in Seq(Urls)
  /\ q_rounds_processed \in Seq(Rounds)
  /\ IsMetrics(metrics)
  /\ published \in BOOLEAN
  /\ mpc \in {"scan", "scanning", "session", "validators", "keys", "construct",
              "entry", "votes", "round", "publish", "down"}
  /\ current_session \in 1 .. MaxSession
  /\ votes_threshold \in Int
  /\ active_validators \in SUBSET Validators
  /\ DOMAIN grandpa_keys \subseteq Validators
  /\ grandpa_keys \in [DOMAIN grandpa_keys -> Validators \cup {Null}]
  /\ outaged_mutated \in BOOLEAN
  /\ data \in Seq(Observations)
  /\ pos \in Nat \ {0}
  /\ DOMAIN result \subseteq Rounds
  /\ result \in [DOMAIN result -> Tallies]

(* The participation ratio of a validator, votes over rounds processed, is *)
(* at most one, through session changes, shrinking thresholds and restarts *)
(* (construct_metrics; the credit precedes the round counter by one step). *)
VotesWithinRounds ==
  \A v \in DOMAIN metrics.validators, k \in Kinds :
    metrics.validators[v][k]
      <= metrics.roundsProcessed + IF mpc \in {"round", "down"} THEN 1 ELSE 0

(* An authority of every session that never votes is never credited with a *)
(* vote, whichever observations, of whichever endpoint, decide the rounds. *)
Resident == {v \in Validators : \A s \in Sessions : v \in Active[s]}

OfflineNeverCredited ==
  \A v \in Offline \cap Resident \cap DOMAIN metrics.validators, k \in Kinds :
    metrics.validators[v][k] = 0

(* The metrics are the successful votes of the validators: who never votes *)
(* has none, whether or not it stays in the authority set.                 *)
OnlySuccessfulVotes ==
  \A v \in Offline \cap DOMAIN metrics.validators, k \in Kinds :
    metrics.validators[v][k] = 0

(* None of the rounds q_rounds_processed remembers was counted twice, also *)
(* when observations of it arrive after it was counted.                    *)
ProcessedDistinct ==
  \A i, j \in 1 .. Len(q_rounds_processed) :
    q_rounds_processed[i] = q_rounds_processed[j] => i = j

(* The list kept for a round is that of an observation of it that none     *)
(* undercuts, in whatever order they come.  The node it is from has lost   *)
(* no vote by it: whom a thread of that node saw vote does not count as    *)
(* missing (:145-149).  As long as the round is open no observation of it  *)
(* is left out.                                                            *)
VotesKeptPerNode ==
  \A n \in DOMAIN result :
    /\ \A k \in Kinds : \E i \in result[n].of :
         /\ result[n].missing[k] = data[i].missing[k]
         /\ \A j \in result[n].of :
              /\ Cardinality(data[i].missing[k]) <= Cardinality(data[j].missing[k])
              /\ Url(data[i].by) = Url(data[j].by) => data[i].missing[k] \subseteq data[j].missing[k]
    /\ mpc = "entry" /\ ~Enough(result[n].count) =>
         \A i \in result[n].of, j \in 1 .. pos - 1 :
           i < j /\ data[j].round = n => j \in result[n].of

(* A round is counted on the word of as many different threads as the      *)
(* threshold asks for: no thread observes a round twice.                   *)
CountedByDistinctThreads ==
  mpc = "votes" =>
    Cardinality({data[j].by : j \in result[Entry.round].of}) >= votes_threshold

(* A round that all threads have observed is counted, unless its           *)
(* observations are dropped or the process ends first; whether threads     *)
(* fail afterwards and mark or unmark their endpoint makes no difference.  *)
Observed(n) ==
  \A t \in Threads :
    \E i \in 1 .. Len(q_votes_raw) : q_votes_raw[i].round = n /\ q_votes_raw[i].by = t

ObservedIsCounted ==
  \A n \in Rounds \ {MaxRound} :   \* round MaxRound never ends
    Observed(n) ~> (Contains(q_rounds_processed, n) \/ ~Observed(n) \/ mpc = "down")

(* Every endpoint that is not marked as outaged is polled by all of its    *)
(* threads, so the threshold can be reached and rounds go on being counted. *)
UnmarkedIsPolled ==
  \A t \in Threads : tpc[t] = "dead" => Contains(q_outaged, Url(t))
=============================================================================
