--------------------------- MODULE FinalityProofs ---------------------------
(* Theorems about FinalityExporter, for any endpoints, threads, validators *)
(* and authority sets, and for any capacity of the deques.                 *)
EXTENDS FinalityExporter, FiniteSetTheorems, TLAPS

(* What Push does to a deque.                                              *)
LEMMA PushType ==
  ASSUME NEW S, NEW q \in Seq(S), NEW x \in S, NEW cap \in Nat \ {0}
  PROVE  Push(q, x, cap) \in Seq(S)
<1>1. CASE Len(q) < cap
  BY <1>1 DEF Push
<1>2. CASE ~(Len(q) < cap)
  <2>1. Tail(q) \in Seq(S)
    BY <1>2
  <2>2. QED
    BY <1>2, <2>1 DEF Push
<1>3. QED
  BY <1>1, <1>2

(* Every element of it is the new one, or comes, in the same order, from   *)
(* the old ones.                                                           *)
IsShifted(p, q, x) ==
  \E d \in Nat :
    /\ Len(p) + d = Len(q) + 1
    /\ \A i \in 1 .. Len(p) : p[i] = IF i + d = Len(q) + 1 THEN x ELSE q[i + d]

LEMMA PushElements ==
  ASSUME NEW S, NEW q \in Seq(S), NEW x \in S, NEW cap \in Nat \ {0}
  PROVE  IsShifted(Push(q, x, cap), q, x)
<1>1. CASE Len(q) < cap
  <2>1. Push(q, x, cap) = Append(q, x)
    BY <1>1 DEF Push
  <2>2. /\ Len(Push(q, x, cap)) + 0 = Len(q) + 1
        /\ \A i \in 1 .. Len(Push(q, x, cap)) :
             Push(q, x, cap)[i] = IF i + 0 = Len(q) + 1 THEN x ELSE q[i + 0]
    BY <2>1
  <2>3. QED
    BY <2>2 DEF IsShifted
<1>2. CASE ~(Len(q) < cap)
  <2>1. PICK u \in Seq(S) : /\ u = Tail(q) /\ Len(u) + 1 = Len(q)
                            /\ \A i \in 1 .. Len(u) : u[i] = q[i + 1]
    <3>1. /\ Tail(q) \in Seq(S) /\ Len(Tail(q)) + 1 = Len(q)
          /\ \A i \in 1 .. Len(Tail(q)) : Tail(q)[i] = q[i + 1]
      BY <1>2
    <3>2. QED
      BY <3>1
  <2>2. Push(q, x, cap) = Append(u, x)
    BY <1>2, <2>1 DEF Push
  <2>3. /\ Len(Append(u, x)) = Len(u) + 1
        /\ \A i \in 1 .. Len(u) : Append(u, x)[i] = u[i]
        /\ Append(u, x)[Len(u) + 1] = x
    OBVIOUS
  <2>4. ASSUME NEW i \in 1 .. Len(u) + 1
        PROVE  Append(u, x)[i] = IF i + 1 = Len(q) + 1 THEN x ELSE q[i + 1]
    <3>1. CASE i = Len(u) + 1
      BY <2>1, <2>3, <3>1
    <3>2. CASE i \in 1 .. Len(u)
      BY <2>1, <2>3, <3>2
    <3>3. QED
      BY <3>1, <3>2
  <2>5. /\ Len(Push(q, x, cap)) + 1 = Len(q) + 1
        /\ \A i \in 1 .. Len(Push(q, x, cap)) :
             Push(q, x, cap)[i] = IF i + 1 = Len(q) + 1 THEN x ELSE q[i + 1]
    <3>1. Len(Push(q, x, cap)) = Len(u) + 1
      BY <2>2, <2>3
    <3>2. \A i \in 1 .. Len(u) + 1 :
            Push(q, x, cap)[i] = IF i + 1 = Len(q) + 1 THEN x ELSE q[i + 1]
      BY <2>2, <2>4
    <3>3. QED
      BY <2>1, <3>1, <3>2
  <2>6. QED
    BY <2>5 DEF IsShifted
<1>3. QED
  BY <1>1, <1>2

LEMMA EmptyFunction ==
  ASSUME NEW S
  PROVE  DOMAIN <<>> = {} /\ <<>> \in [DOMAIN <<>> -> S] /\ <<>> \in Seq(S)
OBVIOUS

LEMMA UrlType == \A t \in Threads : Url(t) \in Urls
BY DEF Threads, Url

LEMMA ActiveType == TypeOK => session \in Sessions /\ Active[session] \subseteq Validators
<1> SUFFICES ASSUME TypeOK PROVE session \in Sessions /\ Active[session] \subseteq Validators
  OBVIOUS
<1>1. session \in Sessions
  <2>1. MaxSession \in Nat
    BY ConstantsAssumption DEF ConstantsAssumption
  <2>2. session \in 1 .. MaxSession
    BY DEF TypeOK
  <2>3. QED
    BY <2>1, <2>2 DEF Sessions
<1>2. \A s \in Sessions : Active[s] \subseteq Validators
  BY ConstantsAssumption DEF ConstantsAssumption
<1>3. QED
  BY <1>1, <1>2

LEMMA RoundStateType ==
  ASSUME TypeOK, NEW t \in Threads
  PROVE  RoundState(t) \in Observations
<1>1. Active[session] \subseteq Validators
  BY ActiveType
<1>2. [k \in Kinds |-> Active[session] \ cast[Url(t)][k]] \in [Kinds -> SUBSET Validators]
  BY <1>1
<1>3. QED
  BY <1>2 DEF RoundState, Observations, TypeOK

LEMMA TallyType ==
  ASSUME TypeOK, NEW e \in Observations
  PROVE  TallyOf(e) \in Tallies
<1>0. pos \in Nat \ {0} /\ {pos} \in SUBSET (Nat \ {0})
  BY DEF TypeOK
<1>1. CASE e.round \in DOMAIN result
  <2>1. result[e.round] \in Tallies
    BY <1>1 DEF TypeOK
  <2>2. \A k \in Kinds : Shorter(e.missing[k], result[e.round].missing[k]) \in SUBSET Validators
    BY <2>1 DEF Shorter, Tallies, Observations
  <2>3. result[e.round].count + 1 \in Nat /\ result[e.round].of \cup {pos} \in SUBSET (Nat \ {0})
    BY <1>0, <2>1 DEF Tallies
  <2>4. QED
    BY <1>1, <2>2, <2>3 DEF TallyOf, Tallies
<1>2. CASE e.round \notin DOMAIN result
  <2>1. e.missing \in [Kinds -> SUBSET Validators]
    BY DEF Observations
  <2>2. QED
    BY <1>0, <1>2, <2>1 DEF TallyOf, Tallies
<1>3. QED
  BY <1>1, <1>2

LEMMA NoMetricsType == IsMetrics(NoMetrics)
BY EmptyFunction, ConstantsAssumption DEF ConstantsAssumption, NoMetrics, IsMetrics

LEMMA NewMetricsType ==
  ASSUME TypeOK
  PROVE  IsMetrics(NewMetrics)
BY DEF TypeOK, NewMetrics, IsMetrics

(* Credit gives each validator at most one vote of each kind more.         *)
LEMMA CreditEffect ==
  ASSUME IsMetrics(metrics), NEW S, Credit(S)
  PROVE  /\ IsMetrics(metrics')
         /\ metrics'.currentSession = metrics.currentSession
         /\ metrics'.roundsProcessed = metrics.roundsProcessed
         /\ DOMAIN metrics'.validators = DOMAIN metrics.validators
         /\ \A v \in DOMAIN metrics.validators, k \in Kinds :
              metrics'.validators[v][k] = metrics.validators[v][k] +
                IF v \in S /\ grandpa_keys[v] \notin result[Entry.round].missing[k]
                THEN 1 ELSE 0
<1> DEFINE F == [v \in DOMAIN metrics.validators |-> [k \in Kinds |->
                   metrics.validators[v][k] +
                     IF v \in S /\ grandpa_keys[v] \notin result[Entry.round].missing[k]
                     THEN 1 ELSE 0]]
<1>1. IsMetrics(metrics)
  OBVIOUS
<1>2. metrics' = [metrics EXCEPT !.validators = F]
  BY DEF Credit
<1>3. metrics' = [currentSession  |-> metrics.currentSession, validators |-> F,
                  roundsProcessed |-> metrics.roundsProcessed]
  BY <1>1, <1>2 DEF IsMetrics
<1>4. \A v \in DOMAIN metrics.validators, k \in Kinds : metrics.validators[v][k] \in Nat
  BY <1>1 DEF IsMetrics
<1>5. F \in [DOMAIN metrics.validators -> [Kinds -> Nat]]
  BY <1>4
<1>6. QED
  BY <1>1, <1>3, <1>5 DEF IsMetrics

(* Every variable keeps its type, and the observation construct_metrics    *)
(* counts is one of its data.                                              *)
Working ==
  mpc \in {"votes", "round"} => pos <= Len(data)

LEMMA Typing == Spec => [](TypeOK /\ Working)
<1>1. Init => TypeOK
  <2> SUFFICES ASSUME Init PROVE TypeOK
    OBVIOUS
  <2>1. /\ session \in 1 .. MaxSession /\ round \in Rounds /\ failures \in 0 .. MaxFailures
        /\ current_session \in 1 .. MaxSession
    BY ConstantsAssumption DEF ConstantsAssumption, Init, Rounds
  <2>2. grandpa_keys \in [DOMAIN grandpa_keys -> Validators \cup {Null}]
    BY EmptyFunction DEF Init
  <2>3. result \in [DOMAIN result -> Tallies]
    BY EmptyFunction DEF Init
  <2>4. DOMAIN grandpa_keys = {} /\ DOMAIN result = {}
    BY EmptyFunction DEF Init
  <2>5. /\ cast \in [Urls -> [Kinds -> SUBSET Validators]]
        /\ tpc \in [Threads -> {"poll", "check", "remove", "except", "append",
                                "reconnect", "dead"}]
        /\ r \in [Threads -> Observations \cup {Null}]
        /\ votes_threshold \in Int /\ pos \in Nat \ {0}
    BY DEF Init, NoVotes
  <2>6. /\ q_votes_raw \in Seq(Observations) /\ q_outaged \in Seq(Urls)
        /\ q_rounds_processed \in Seq(Rounds) /\ data \in Seq(Observations)
    BY EmptyFunction DEF Init
  <2>7. QED
    BY <2>1, <2>2, <2>3, <2>4, <2>5, <2>6, NoMetricsType, Zenon DEF Init, TypeOK
<1>2. TypeOK /\ Working /\ [Next]_vars => TypeOK'
  <2> SUFFICES ASSUME TypeOK, Working, [Next]_vars PROVE TypeOK'
    OBVIOUS
  <2>1. CASE Chain
    <3>1. session' \in 1 .. MaxSession /\ round' \in Rounds
      <4>1. CASE \E u \in Urls, v \in Validators, k \in Kinds : Vote(u, v, k)
        BY <4>1 DEF Vote, TypeOK
      <4>2. CASE NextRound
        <5>1. round \in Rounds
          BY DEF TypeOK
        <5>2. QED
          BY <4>2, <5>1, ConstantsAssumption DEF NextRound, Rounds, ConstantsAssumption
      <4>3. QED
        BY <2>1, <4>1, <4>2 DEF Chain
    <3>2. cast' \in [Urls -> [Kinds -> SUBSET Validators]]
      <4>1. CASE \E u \in Urls, v \in Validators, k \in Kinds : Vote(u, v, k)
        BY <4>1 DEF Vote, TypeOK
      <4>2. CASE NextRound
        BY <4>2 DEF NextRound, NoVotes
      <4>3. QED
        BY <2>1, <4>1, <4>2 DEF Chain
    <3>3. QED
      BY <2>1, <3>1, <3>2 DEF Chain, TypeOK, pollerVars, metricVars, readVars, tallyVars
  <2>2. ASSUME NEW t \in Threads, Poller(t) PROVE TypeOK'
    <3>1. tpc' \in [Threads -> {"poll", "check", "remove", "except", "append",
                                "reconnect", "dead"}]
      BY <2>2 DEF Poller, PollOk, PollFail, CheckOutaged, RemoveOutaged, ExceptCheck,
                  AppendOutaged, Reconnect, Goto, TypeOK
    <3>2. failures' \in 0 .. MaxFailures /\ outaged_mutated' \in BOOLEAN
      <4>1. failures \in 0 .. MaxFailures /\ outaged_mutated \in BOOLEAN
        BY DEF TypeOK
      <4>2. \/ failures' = failures
            \/ failures < MaxFailures /\ failures' = failures + 1
        BY <2>2, Zenon DEF Poller, PollOk, PollFail, CheckOutaged, RemoveOutaged, ExceptCheck,
                    AppendOutaged, Reconnect
      <4>3. outaged_mutated' \in BOOLEAN
        BY <2>2, <4>1, Zenon DEF Poller, PollOk, PollFail, CheckOutaged, RemoveOutaged,
                            ExceptCheck, AppendOutaged, Reconnect
      <4>4. failures' \in 0 .. MaxFailures
        BY <4>1, <4>2, ConstantsAssumption DEF ConstantsAssumption
      <4>5. QED
        BY <4>3, <4>4
    <3>3. /\ r' \in [Threads -> Observations \cup {Null}]
          /\ q_votes_raw' \in Seq(Observations)
      <4>1. CASE PollOk(t)
        <5>1. r' = [r EXCEPT ![t] = RoundState(t)] /\ RoundState(t) \in Observations
          BY <4>1, RoundStateType DEF PollOk
        <5>2. CASE RoundOver(t, RoundState(t))
          <6>1. r[t] \in Observations
            BY <5>2 DEF RoundOver, TypeOK
          <6>2. q_votes_raw' = Push(q_votes_raw, r[t], RawCap)
            BY <4>1, <5>2 DEF PollOk, LastSeen
          <6>3. q_votes_raw' \in Seq(Observations)
            BY <6>1, <6>2, PushType, ConstantsAssumption DEF ConstantsAssumption, TypeOK
          <6>4. QED
            BY <5>1, <6>3 DEF TypeOK
        <5>3. CASE ~RoundOver(t, RoundState(t))
          BY <4>1, <5>1, <5>3 DEF PollOk, TypeOK
        <5>4. QED
          BY <5>2, <5>3
      <4>2. CASE ~PollOk(t)
        BY <2>2, <4>2 DEF Poller, PollFail, CheckOutaged, RemoveOutaged, ExceptCheck,
                          AppendOutaged, Reconnect, TypeOK
      <4>3. QED
        BY <4>1, <4>2
    <3>4. q_outaged' \in Seq(Urls)
      <4>1. CASE RemoveOutaged(t)
        <5>1. q_outaged' = q_outaged \/ \E i \in 1 .. Len(q_outaged) : q_outaged' = RemoveAt(q_outaged, i)
          BY <4>1 DEF RemoveOutaged
        <5>2. \A i \in 1 .. Len(q_outaged) : RemoveAt(q_outaged, i) \in Seq(Urls)
          <6>1. q_outaged \in Seq(Urls)
            BY DEF TypeOK
          <6>2. QED
            BY <6>1 DEF RemoveAt
        <5>3. QED
          BY <5>1, <5>2 DEF TypeOK
      <4>2. CASE AppendOutaged(t)
        BY <4>2, PushType, UrlType, ConstantsAssumption
           DEF AppendOutaged, ConstantsAssumption, TypeOK
      <4>3. CASE ~RemoveOutaged(t) /\ ~AppendOutaged(t)
        BY <2>2, <4>3 DEF Poller, PollOk, PollFail, CheckOutaged, ExceptCheck, Reconnect, TypeOK
      <4>4. QED
        BY <4>1, <4>2, <4>3
    <3>5. PollerLeaves
      BY <2>2 DEF Poller, PollOk, PollFail, CheckOutaged, RemoveOutaged, ExceptCheck,
                  AppendOutaged, Reconnect
    <3>6. QED
      BY <3>1, <3>2, <3>3, <3>4, <3>5 DEF PollerLeaves, TypeOK, metricVars, readVars, tallyVars
  <2>3. CASE ScanBegin \/ ScanEnd
    BY <2>3 DEF ScanBegin, ScanEnd, Step, MainLeaves, TypeOK, chainVars, pollerVars,
                metricVars, readVars, tallyVars
  <2>4. CASE ReadSession
    BY <2>4 DEF ReadSession, Step, MainLeaves, TypeOK, chainVars, pollerVars, metricVars, tallyVars
  <2>5. CASE ReadValidators
    <3>1. active_validators' \in SUBSET Validators
      BY <2>5, ActiveType DEF ReadValidators
    <3>2. votes_threshold' \in Int
      <4>1. Cardinality(Urls) \in Nat /\ Len(q_outaged) \in Nat /\ ThreadsPerUrl \in Nat
        BY ConstantsAssumption, FS_CardinalityType DEF ConstantsAssumption, TypeOK
      <4>2. QED
        BY <2>5, <4>1 DEF ReadValidators
    <3>3. QED
      BY <2>5, <3>1, <3>2 DEF ReadValidators, Step, MainLeaves, TypeOK, chainVars, pollerVars,
                              metricVars, tallyVars
  <2>6. CASE ReadKeys
    <3>1. /\ DOMAIN grandpa_keys' \subseteq Validators
          /\ grandpa_keys' \in [DOMAIN grandpa_keys' -> Validators \cup {Null}]
      BY <2>6 DEF ReadKeys, TypeOK
    <3>2. QED
      BY <2>6, <3>1 DEF ReadKeys, Step, MainLeaves, TypeOK, chainVars, pollerVars, metricVars, tallyVars
  <2>7. CASE ReadFail
    <3>1. failures' \in 0 .. MaxFailures /\ mpc' = "down"
      <4>1. failures \in 0 .. MaxFailures
        BY DEF TypeOK
      <4>2. QED
        BY <2>7, <4>1, ConstantsAssumption DEF ReadFail, Step, ConstantsAssumption
    <3>2. QED
      BY <2>7, <3>1 DEF ReadFail, TypeOK, pollerVars, metricVars, readVars, tallyVars
  <2>8. CASE Construct
    BY <2>8, NewMetricsType DEF Construct, Step, MainLeaves, TypeOK, chainVars, pollerVars, readVars
  <2>9. CASE SkipEntry
    BY <2>9 DEF SkipEntry, AtEntry, MainLeaves, TypeOK, chainVars, pollerVars, metricVars, readVars
  <2>10. CASE TallyEntry
    <3>1. Entry \in Observations
      BY <2>10 DEF TallyEntry, AtEntry, Entry, TypeOK
    <3>2. Entry.round \in Rounds /\ TallyOf(Entry) \in Tallies
      BY <3>1, TallyType DEF Observations
    <3>3. DOMAIN result' \subseteq Rounds /\ result' \in [DOMAIN result' -> Tallies]
      BY <2>10, <3>2 DEF TallyEntry, TypeOK
    <3>4. mpc' \in {"votes", "entry"} /\ pos' \in Nat \ {0}
      BY <2>10 DEF TallyEntry, TypeOK
    <3>5. QED
      BY <2>10, <3>3, <3>4 DEF TallyEntry, MainLeaves, TypeOK, chainVars, pollerVars, metricVars, readVars
  <2>11. CASE CountVotes
    <3>1. PICK S : Credit(S)
      BY <2>11, Zenon DEF CountVotes
    <3>2. mpc \in {"votes"} /\ mpc' \in {"round", "down"}
      BY <2>11 DEF CountVotes, Step
    <3>3. IsMetrics(metrics')
      BY <3>1, CreditEffect DEF TypeOK
    <3>4. QED
      BY <2>11, <3>2, <3>3 DEF CountVotes, MainLeaves, TypeOK, chainVars, pollerVars, readVars, tallyVars
  <2>12. CASE CountRound
    <3>1. IsMetrics(metrics')
      <4>1. IsMetrics(metrics)
        BY DEF TypeOK
      <4>2. metrics' = [metrics EXCEPT !.roundsProcessed = @ + 1]
        BY <2>12 DEF CountRound
      <4>3. QED
        BY <4>1, <4>2 DEF IsMetrics
    <3>2. q_rounds_processed' \in Seq(Rounds)
      <4>1. Entry \in Observations
        BY <2>12 DEF CountRound, Step, Working, Entry, TypeOK
      <4>2. Entry.round \in Rounds
        BY <4>1 DEF Observations
      <4>3. QED
        BY <2>12, <4>2, PushType, ConstantsAssumption DEF CountRound, TypeOK, ConstantsAssumption
    <3>3. mpc' = "entry" /\ pos' \in Nat \ {0}
      BY <2>12 DEF CountRound, Step, TypeOK
    <3>4. QED
      BY <2>12, <3>1, <3>2, <3>3 DEF CountRound, MainLeaves, TypeOK, chainVars, pollerVars, readVars
  <2>13. CASE ClearMetrics \/ PublishMetrics
    <3>1. CASE ClearMetrics
      <4>1. /\ result' \in [DOMAIN result' -> Tallies] /\ DOMAIN result' = {}
            /\ data' \in Seq(Observations) /\ pos' \in Nat \ {0}
        BY <3>1, EmptyFunction DEF ClearMetrics
      <4>2. QED
        BY <3>1, <4>1 DEF ClearMetrics, Step, MainLeaves, TypeOK, chainVars, pollerVars, readVars
    <3>2. CASE PublishMetrics
      BY <3>2 DEF PublishMetrics, Step, MainLeaves, TypeOK, chainVars, pollerVars, readVars, tallyVars
    <3>3. QED
      BY <2>13, <3>1, <3>2
  <2>14. CASE Restart
    <3>1. /\ result' \in [DOMAIN result' -> Tallies] /\ DOMAIN result' = {}
          /\ grandpa_keys' \in [DOMAIN grandpa_keys' -> Validators \cup {Null}]
          /\ DOMAIN grandpa_keys' = {}
      BY <2>14, EmptyFunction DEF Restart
    <3>2. /\ tpc' \in [Threads -> {"poll", "check", "remove", "except", "append",
                                   "reconnect", "dead"}]
          /\ r' \in [Threads -> Observations \cup {Null}]
          /\ current_session' \in 1 .. MaxSession /\ votes_threshold' \in Int
          /\ pos' \in Nat \ {0}
      BY <2>14, ConstantsAssumption DEF Restart, ConstantsAssumption
    <3>3. /\ q_votes_raw' \in Seq(Observations) /\ q_outaged' \in Seq(Urls)
          /\ q_rounds_processed' \in Seq(Rounds) /\ data' \in Seq(Observations)
      BY <2>14, EmptyFunction DEF Restart
    <3>4. QED
      BY <2>14, <3>1, <3>2, <3>3, NoMetricsType, Zenon DEF Restart, TypeOK, chainVars
  <2>15. CASE UNCHANGED vars
    BY <2>15 DEF vars, TypeOK, chainVars, pollerVars, metricVars, readVars, tallyVars
  <2>16. QED
    BY <2>1, <2>2, <2>3, <2>4, <2>5, <2>6, <2>7, <2>8, <2>9, <2>10, <2>11, <2>12,
       <2>13, <2>14, <2>15 DEF Next, Main
<1>3. Init => Working
  BY DEF Init, Working
<1>4. TypeOK /\ Working /\ [Next]_vars => Working'
  <2> SUFFICES ASSUME TypeOK, Working, [Next]_vars PROVE Working'
    OBVIOUS
  <2>1. CASE Chain \/ \E t \in Threads : Poller(t)
    BY <2>1 DEF Chain, Poller, PollOk, PollFail, CheckOutaged, RemoveOutaged, ExceptCheck,
                AppendOutaged, Reconnect, PollerLeaves, Working, tallyVars
  <2>2. CASE \/ ScanBegin \/ ScanEnd \/ ReadSession \/ ReadValidators \/ ReadKeys \/ ReadFail
             \/ Construct \/ SkipEntry \/ CountRound \/ ClearMetrics \/ PublishMetrics \/ Restart
    BY <2>2 DEF ScanBegin, ScanEnd, ReadSession, ReadValidators, ReadKeys, ReadFail, Construct,
                SkipEntry, AtEntry, CountRound, ClearMetrics, PublishMetrics, Restart, Step, Working
  <2>3. CASE TallyEntry \/ CountVotes
    BY <2>3 DEF TallyEntry, AtEntry, CountVotes, Step, Working, tallyVars
  <2>4. CASE UNCHANGED vars
    BY <2>4 DEF vars, Working, tallyVars
  <2>5. QED
    BY <2>1, <2>2, <2>3, <2>4 DEF Next, Main
<1>5. QED
  BY <1>1, <1>2, <1>3, <1>4, PTL DEF Spec

(* Every variable of the exporter keeps its type.                          *)
THEOREM TypeCorrect == Spec => []TypeOK
  BY Typing, PTL

-----------------------------------------------------------------------------
(* The participation ratio of a validator is at most one: main credits the *)
(* votes of a round and counts the round, whatever the observations say    *)
(* and however the authority sets of metrics and grandpa_keys differ.      *)
THEOREM VotesFitRounds == Spec => []VotesWithinRounds
<1>1. Init => VotesWithinRounds
  BY EmptyFunction DEF Init, NoMetrics, VotesWithinRounds
<1>2. TypeOK /\ Working /\ VotesWithinRounds /\ [Next]_vars => VotesWithinRounds'
  <2> SUFFICES ASSUME TypeOK, Working, VotesWithinRounds, [Next]_vars
               PROVE  VotesWithinRounds'
    OBVIOUS
  <2> DEFINE Accounts == DOMAIN metrics.validators
  <2>0. /\ metrics.roundsProcessed \in Nat
        /\ \A v \in Accounts, k \in Kinds : metrics.validators[v][k] \in Nat
    BY DEF TypeOK, IsMetrics
  <2>1. ASSUME metrics' = metrics, mpc \in {"round", "down"} => mpc' \in {"round", "down"}
        PROVE  VotesWithinRounds'
    BY <2>0, <2>1 DEF VotesWithinRounds
  <2>2. CASE Chain \/ \E t \in Threads : Poller(t)
    BY <2>1, <2>2 DEF Chain, Poller, PollOk, PollFail, CheckOutaged, RemoveOutaged, ExceptCheck,
                      AppendOutaged, Reconnect, PollerLeaves, metricVars
  <2>3. CASE \/ ScanBegin \/ ScanEnd \/ ReadSession \/ ReadValidators \/ ReadKeys \/ ReadFail
             \/ SkipEntry \/ TallyEntry \/ ClearMetrics \/ PublishMetrics
    BY <2>1, <2>3 DEF ScanBegin, ScanEnd, ReadSession, ReadValidators, ReadKeys, ReadFail,
                      SkipEntry, TallyEntry, ClearMetrics, PublishMetrics, AtEntry, Step, metricVars
  <2>4. CASE Construct
    <3>1. CASE metrics' = metrics
      BY <2>1, <2>4, <3>1 DEF Construct, Step
    <3>2. CASE metrics' = NewMetrics
      BY <3>2 DEF NewMetrics, VotesWithinRounds
    <3>3. QED
      BY <2>4, <3>1, <3>2 DEF Construct
  <2>5. CASE CountVotes
    <3>1. mpc = "votes" /\ mpc' \in {"round", "down"}
      BY <2>5 DEF CountVotes, Step
    <3>2. PICK S : Credit(S)
      BY <2>5, Zenon DEF CountVotes
    <3>3. /\ metrics'.roundsProcessed = metrics.roundsProcessed
          /\ DOMAIN metrics'.validators = Accounts
          /\ \A v \in Accounts, k \in Kinds :
               metrics'.validators[v][k] \in
                 {metrics.validators[v][k], metrics.validators[v][k] + 1}
      <4>1. IsMetrics(metrics)
        BY DEF TypeOK
      <4>2. /\ metrics'.roundsProcessed = metrics.roundsProcessed
            /\ DOMAIN metrics'.validators = Accounts
        BY <3>2, <4>1, CreditEffect
      <4>3. ASSUME NEW v \in Accounts, NEW k \in Kinds
            PROVE  metrics'.validators[v][k] = metrics.validators[v][k] +
                     IF v \in S /\ grandpa_keys[v] \notin result[Entry.round].missing[k]
                     THEN 1 ELSE 0
        BY <3>2, <4>1, <4>3, CreditEffect
      <4>4. QED
        BY <2>0, <4>2, <4>3
    <3>4. \A v \in Accounts, k \in Kinds : metrics.validators[v][k] <= metrics.roundsProcessed
      BY <2>0, <3>1 DEF VotesWithinRounds
    <3>5. QED
      BY <2>0, <3>1, <3>3, <3>4 DEF VotesWithinRounds
  <2>6. CASE CountRound
    <3>1. mpc = "round" /\ metrics' = [metrics EXCEPT !.roundsProcessed = @ + 1]
      BY <2>6 DEF CountRound, Step
    <3>2. /\ metrics'.roundsProcessed = metrics.roundsProcessed + 1
          /\ metrics'.validators = metrics.validators
      BY <3>1 DEF TypeOK, IsMetrics
    <3>3. \A v \in Accounts, k \in Kinds : metrics.validators[v][k] <= metrics.roundsProcessed + 1
      BY <3>1 DEF VotesWithinRounds
    <3>4. QED
      BY <2>0, <3>2, <3>3 DEF VotesWithinRounds
  <2>7. CASE Restart
    BY <2>7, EmptyFunction DEF Restart, NoMetrics, VotesWithinRounds
  <2>8. CASE UNCHANGED vars
    BY <2>1, <2>8 DEF vars, metricVars
  <2>9. QED
    BY <2>2, <2>3, <2>4, <2>5, <2>6, <2>7, <2>8 DEF Next, Main
<1>3. QED
  BY <1>1, <1>2, Typing, PTL DEF Spec
-----------------------------------------------------------------------------
NoRepeats(q) == \A i, j \in 1 .. Len(q) : q[i] = q[j] => i = j

LEMMA PushDistinct ==
  ASSUME NEW S, NEW q \in Seq(S), NEW x \in S, NEW cap \in Nat \ {0},
         NoRepeats(q), ~Contains(q, x)
  PROVE  NoRepeats(Push(q, x, cap))
<1> DEFINE p == Push(q, x, cap)
<1>1. PICK d \in Nat :
        /\ Len(p) + d = Len(q) + 1
        /\ \A i \in 1 .. Len(p) :
             p[i] = IF i + d = Len(q) + 1 THEN x ELSE q[i + d]
  <2>1. IsShifted(p, q, x)
    BY PushElements
  <2>2. QED
    BY <2>1 DEF IsShifted
<1>2. Len(q) \in Nat /\ Len(p) \in Nat
  BY PushType
<1> HIDE DEF p
<1>3. ASSUME NEW i \in 1 .. Len(p), NEW j \in 1 .. Len(p),
             p[i] = p[j]
      PROVE  i = j
  <2>1. i + d \in 1 .. Len(q) + 1 /\ j + d \in 1 .. Len(q) + 1
    BY <1>1, <1>2
  <2>2. \A n \in 1 .. Len(q) : q[n] # x
    BY DEF Contains
  <2>3. CASE i + d = Len(q) + 1 /\ j + d = Len(q) + 1
    BY <1>2, <2>3
  <2>4. CASE i + d # Len(q) + 1 /\ j + d # Len(q) + 1
    <3>1. q[i + d] = q[j + d] /\ i + d \in 1 .. Len(q) /\ j + d \in 1 .. Len(q)
      <4>1. p[i] = q[i + d] /\ p[j] = q[j + d]
        BY <1>1, <2>4
      <4>2. i + d \in 1 .. Len(q) /\ j + d \in 1 .. Len(q)
        BY <1>2, <2>1, <2>4
      <4>3. QED
        BY <1>3, <4>1, <4>2
    <3>2. i + d = j + d
      BY <3>1 DEF NoRepeats
    <3>3. QED
      BY <3>2
  <2>5. CASE i + d = Len(q) + 1 /\ j + d # Len(q) + 1
    <3>1. p[i] = x /\ p[j] = q[j + d]
      BY <1>1, <2>5
    <3>2. j + d \in 1 .. Len(q)
      BY <1>2, <2>1, <2>5
    <3>3. QED
      BY <1>3, <2>2, <3>1, <3>2
  <2>6. CASE i + d # Len(q) + 1 /\ j + d = Len(q) + 1
    <3>1. p[i] = q[i + d] /\ p[j] = x
      BY <1>1, <2>6
    <3>2. i + d \in 1 .. Len(q)
      BY <1>2, <2>1, <2>6
    <3>3. QED
      BY <1>3, <2>2, <3>1, <3>2
  <2>7. QED
    BY <2>3, <2>4, <2>5, <2>6
<1>4. QED
  BY <1>3 DEF NoRepeats, p

(* The round that is being counted is not among the rounds processed.      *)
Unseen == mpc \in {"votes", "round"} => ~Contains(q_rounds_processed, Entry.round)

(* A round is counted once for as long as q_rounds_processed remembers it, *)
(* however long its observations stay in q_votes_raw and however many of   *)
(* them come after it was counted.                                         *)
THEOREM OncePerRound == Spec => []ProcessedDistinct
<1>1. Init => Unseen /\ ProcessedDistinct
  BY DEF Init, Unseen, ProcessedDistinct
<1>2. TypeOK /\ Working /\ Unseen /\ [Next]_vars => Unseen'
  <2> SUFFICES ASSUME TypeOK, Working, Unseen, [Next]_vars PROVE Unseen'
    OBVIOUS
  <2>1. ASSUME mpc' \in {"votes", "round"} PROVE Unseen'
    <3>1. CASE TallyEntry
      BY <2>1, <3>1 DEF TallyEntry, Processed, Unseen, Entry, metricVars
    <3>2. CASE CountVotes
      BY <3>2 DEF CountVotes, Step, Unseen, Entry, tallyVars
    <3>3. CASE Chain \/ (\E t \in Threads : Poller(t)) \/ UNCHANGED vars
      BY <2>1, <3>3 DEF Chain, Poller, PollOk, PollFail, CheckOutaged, RemoveOutaged, ExceptCheck,
                        AppendOutaged, Reconnect, PollerLeaves, Unseen, Entry, metricVars,
                        tallyVars, vars
    <3>4. CASE \/ ScanBegin \/ ScanEnd \/ ReadSession \/ ReadValidators \/ ReadKeys \/ ReadFail
               \/ Construct \/ SkipEntry \/ CountRound \/ ClearMetrics \/ PublishMetrics \/ Restart
      BY <2>1, <3>4 DEF ScanBegin, ScanEnd, ReadSession, ReadValidators, ReadKeys, ReadFail,
                        Construct, SkipEntry, AtEntry, CountRound, ClearMetrics, PublishMetrics,
                        Restart, Step
    <3>5. QED
      BY <3>1, <3>2, <3>3, <3>4 DEF Next, Main
  <2>2. QED
    BY <2>1 DEF Unseen
<1>3. TypeOK /\ Working /\ Unseen /\ ProcessedDistinct /\ [Next]_vars => ProcessedDistinct'
  <2> SUFFICES ASSUME TypeOK, Working, Unseen, ProcessedDistinct, [Next]_vars
               PROVE  ProcessedDistinct'
    OBVIOUS
  <2>1. CASE CountRound
    <3>1. mpc = "round" /\ q_rounds_processed' = Push(q_rounds_processed, Entry.round, ProcCap)
      BY <2>1 DEF CountRound, Step
    <3>2. Entry \in Observations
      BY <3>1 DEF Working, Entry, TypeOK
    <3>3. Entry.round \in Rounds
      BY <3>2 DEF Observations
    <3>4. NoRepeats(q_rounds_processed) /\ ~Contains(q_rounds_processed, Entry.round)
      BY <3>1 DEF Unseen, ProcessedDistinct, NoRepeats
    <3>5. q_rounds_processed \in Seq(Rounds) /\ ProcCap \in Nat \ {0}
      BY ConstantsAssumption DEF ConstantsAssumption, TypeOK
    <3>6. NoRepeats(q_rounds_processed')
      BY <3>1, <3>3, <3>4, <3>5, PushDistinct
    <3>7. QED
      BY <3>6 DEF NoRepeats, ProcessedDistinct
  <2>2. CASE Restart
    BY <2>2 DEF Restart, ProcessedDistinct
  <2>3. CASE ~CountRound /\ ~Restart
    <3>1. q_rounds_processed' = q_rounds_processed
      BY <2>3 DEF Next, Chain, Poller, PollOk, PollFail, CheckOutaged, RemoveOutaged, ExceptCheck,
                  AppendOutaged, Reconnect, PollerLeaves, Main, ScanBegin, ScanEnd, ReadSession,
                  ReadValidators, ReadKeys, ReadFail, Construct, SkipEntry, TallyEntry, CountVotes,
                  ClearMetrics, PublishMetrics, metricVars, vars
    <3>2. QED
      BY <3>1 DEF ProcessedDistinct
  <2>4. QED
    BY <2>1, <2>2, <2>3
<1>4. QED
  BY <1>1, <1>2, <1>3, Typing, PTL DEF Spec
-----------------------------------------------------------------------------
(* Every record of missing validators, from the answer of the node to the  *)
(* tally, lists the authorities that never vote.                           *)
Silent == Offline \cap Resident

ListsSilent(o) == \A k \in Kinds : Silent \subseteq o.missing[k]

Evidence ==
  /\ \A u \in Urls, k \in Kinds : cast[u][k] \cap Offline = {}
  /\ \A t \in Threads : r[t] # Null => ListsSilent(r[t])
  /\ \A i \in 1 .. Len(q_votes_raw) : ListsSilent(q_votes_raw[i])

Verdict ==
  /\ \A i \in 1 .. Len(data) : ListsSilent(data[i])
  /\ \A n \in DOMAIN result : ListsSilent(result[n])
  /\ mpc = "votes" => Entry.round \in DOMAIN result
  /\ mpc \in {"construct", "entry", "votes", "round"} =>
       \A v \in Silent \cap DOMAIN grandpa_keys : grandpa_keys[v] = v

LEMMA PushListsSilent ==
  ASSUME NEW q \in Seq(Observations), NEW o \in Observations, NEW cap \in Nat \ {0},
         \A i \in 1 .. Len(q) : ListsSilent(q[i]), ListsSilent(o)
  PROVE  \A i \in 1 .. Len(Push(q, o, cap)) : ListsSilent(Push(q, o, cap)[i])
<1> DEFINE p == Push(q, o, cap)
<1>1. PICK d \in Nat :
        /\ Len(p) + d = Len(q) + 1
        /\ \A i \in 1 .. Len(p) : p[i] = IF i + d = Len(q) + 1 THEN o ELSE q[i + d]
  <2>1. IsShifted(p, q, o)
    BY PushElements
  <2>2. QED
    BY <2>1 DEF IsShifted
<1>2. Len(q) \in Nat /\ Len(p) \in Nat
  BY PushType
<1> HIDE DEF p
<1>3. ASSUME NEW i \in 1 .. Len(p) PROVE ListsSilent(p[i])
  <2>1. CASE i + d = Len(q) + 1
    BY <1>1, <2>1
  <2>2. CASE i + d # Len(q) + 1
    <3>1. i + d \in 1 .. Len(q)
      BY <1>1, <1>2, <2>2
    <3>2. QED
      BY <1>1, <2>2, <3>1
  <2>3. QED
    BY <2>1, <2>2
<1>4. QED
  BY <1>3 DEF p

LEMMA EvidenceInvariant == Spec => []Evidence
<1>1. Init => Evidence
  BY DEF Init, NoVotes, Evidence
<1>2. TypeOK /\ Evidence /\ [Next]_vars => Evidence'
  <2> SUFFICES ASSUME TypeOK, Evidence, [Next]_vars PROVE Evidence'
    OBVIOUS
  <2>1. CASE Chain
    <3>1. \A u \in Urls, k \in Kinds : cast'[u][k] \cap Offline = {}
      <4>1. CASE \E u \in Urls, v \in Validators, k \in Kinds : Vote(u, v, k)
        BY <4>1 DEF Vote, Evidence, TypeOK
      <4>2. CASE NextRound
        BY <4>2 DEF NextRound, NoVotes
      <4>3. QED
        BY <2>1, <4>1, <4>2 DEF Chain
    <3>2. r' = r /\ q_votes_raw' = q_votes_raw
      BY <2>1 DEF Chain, pollerVars
    <3>3. QED
      BY <3>1, <3>2 DEF Evidence
  <2>2. ASSUME NEW t \in Threads, PollOk(t) PROVE Evidence'
    <3>1. RoundState(t) \in Observations /\ r' = [r EXCEPT ![t] = RoundState(t)] /\ cast' = cast
      BY <2>2, RoundStateType DEF PollOk, PollerLeaves
    <3>2. ListsSilent(RoundState(t))
      <4>1. Silent \subseteq Active[session]
        BY ActiveType DEF Silent, Resident
      <4>2. Url(t) \in Urls
        BY DEF Threads, Url
      <4>3. QED
        BY <4>1, <4>2 DEF ListsSilent, RoundState, Evidence, Silent
    <3>3. \A e \in Threads : r'[e] # Null => ListsSilent(r'[e])
      BY <3>1, <3>2 DEF Evidence, TypeOK
    <3>4. \A i \in 1 .. Len(q_votes_raw') : ListsSilent(q_votes_raw'[i])
      <4>1. CASE RoundOver(t, RoundState(t))
        <5>1. r[t] # Null /\ q_votes_raw' = Push(q_votes_raw, r[t], RawCap)
          BY <2>2, <4>1 DEF PollOk, RoundOver, LastSeen
        <5>2. r[t] \in Observations /\ ListsSilent(r[t])
          BY <5>1 DEF Evidence, TypeOK
        <5>3. /\ q_votes_raw \in Seq(Observations) /\ RawCap \in Nat \ {0}
              /\ \A i \in 1 .. Len(q_votes_raw) : ListsSilent(q_votes_raw[i])
          BY ConstantsAssumption DEF ConstantsAssumption, TypeOK, Evidence
        <5>4. QED
          BY <5>1, <5>2, <5>3, PushListsSilent
      <4>2. CASE ~RoundOver(t, RoundState(t))
        BY <2>2, <4>2 DEF PollOk, Evidence
      <4>3. QED
        BY <4>1, <4>2
    <3>5. QED
      BY <3>1, <3>3, <3>4 DEF Evidence
  <2>3. CASE Restart
    BY <2>3 DEF Restart, Evidence, chainVars
  <2>4. CASE ~Chain /\ ~(\E t \in Threads : PollOk(t)) /\ ~Restart
    <3>1. cast' = cast /\ r' = r /\ q_votes_raw' = q_votes_raw
      BY <2>4 DEF Next, Poller, PollFail, CheckOutaged, RemoveOutaged, ExceptCheck, AppendOutaged,
                  Reconnect, PollerLeaves, Main, ScanBegin, ScanEnd, ReadSession, ReadValidators,
                  ReadKeys, ReadFail, Construct, SkipEntry, TallyEntry, CountVotes, CountRound,
                  ClearMetrics, PublishMetrics, MainLeaves, chainVars, pollerVars, vars
    <3>2. QED
      BY <3>1 DEF Evidence
  <2>5. QED
    BY <2>1, <2>2, <2>3, <2>4
<1>3. QED
  BY <1>1, <1>2, Typing, PTL DEF Spec
LEMMA VerdictInvariant == Spec => []Verdict
<1>1. Init => Verdict
  BY EmptyFunction DEF Init, Verdict
<1>2. TypeOK /\ Evidence /\ Verdict /\ [Next]_vars => Verdict'
  <2> SUFFICES ASSUME TypeOK, Evidence, Verdict, [Next]_vars PROVE Verdict'
    OBVIOUS
  <2>1. ASSUME data' = data, pos' = pos, result' = result, grandpa_keys' = grandpa_keys,
               mpc' = mpc \/ mpc' \notin {"construct", "entry", "votes"},
               mpc' = "round" => mpc \in {"votes", "round"}
        PROVE  Verdict'
    BY <2>1 DEF Verdict, Entry
  <2>2. CASE Chain \/ (\E t \in Threads : Poller(t)) \/ UNCHANGED vars
    BY <2>1, <2>2 DEF Chain, Poller, PollOk, PollFail, CheckOutaged, RemoveOutaged, ExceptCheck,
                      AppendOutaged, Reconnect, PollerLeaves, readVars, tallyVars, vars
  <2>3. CASE ScanBegin \/ ScanEnd \/ ReadSession \/ ReadFail \/ CountVotes \/ PublishMetrics
    BY <2>1, <2>3 DEF ScanBegin, ScanEnd, ReadSession, ReadFail, CountVotes, PublishMetrics, Step,
                      readVars, tallyVars
  <2>4. CASE ReadValidators
    BY <2>1, <2>4 DEF ReadValidators, Step, tallyVars
  <2>5. CASE ReadKeys
    <3>1. Silent \subseteq Active[session + 1]
      <4>1. session \in 1 .. MaxSession
        BY DEF TypeOK
      <4>2. session + 1 \in Sessions
        BY <4>1, ConstantsAssumption DEF ConstantsAssumption, Sessions
      <4>3. QED
        BY <4>2 DEF Silent, Resident
    <3>2. \A v \in Silent \cap DOMAIN grandpa_keys' : grandpa_keys'[v] = v
      BY <2>5, <3>1 DEF ReadKeys
    <3>3. mpc' = "construct" /\ data' = data /\ result' = result
      BY <2>5 DEF ReadKeys, Step, tallyVars
    <3>4. QED
      BY <3>2, <3>3 DEF Verdict
  <2>6. CASE Construct
    <3>1. /\ data' = q_votes_raw /\ result' = <<>> /\ grandpa_keys' = grandpa_keys
          /\ mpc = "construct" /\ mpc' = "entry"
      BY <2>6 DEF Construct, Step, readVars
    <3>2. \A n \in DOMAIN result' : ListsSilent(result'[n])
      BY <3>1, EmptyFunction
    <3>3. QED
      BY <3>1, <3>2 DEF Verdict, Evidence
  <2>7. CASE SkipEntry
    BY <2>7 DEF SkipEntry, AtEntry, Verdict, readVars
  <2>8. CASE TallyEntry
    <3>1. /\ AtEntry /\ data' = data /\ grandpa_keys' = grandpa_keys
          /\ mpc' = "entry" \/ (mpc' = "votes" /\ pos' = pos)
      BY <2>8 DEF TallyEntry, readVars
    <3>2. ListsSilent(Entry) /\ Entry \in Observations
      BY <3>1 DEF AtEntry, Entry, Verdict, TypeOK
    <3>3. ListsSilent(TallyOf(Entry))
      <4>1. CASE Entry.round \in DOMAIN result
        BY <3>2, <4>1 DEF TallyOf, Shorter, ListsSilent, Verdict
      <4>2. CASE Entry.round \notin DOMAIN result
        BY <3>2, <4>2 DEF TallyOf, ListsSilent
      <4>3. QED
        BY <4>1, <4>2
    <3>4. result' = [n \in DOMAIN result \cup {Entry.round} |->
                       IF n = Entry.round THEN TallyOf(Entry) ELSE result[n]]
      BY <2>8 DEF TallyEntry
    <3>5. \A n \in DOMAIN result' : ListsSilent(result'[n])
      BY <3>3, <3>4 DEF Verdict
    <3>6. mpc' = "votes" => Entry' = Entry /\ Entry.round \in DOMAIN result'
      BY <3>1, <3>4 DEF Entry
    <3>7. QED
      BY <3>1, <3>5, <3>6 DEF Verdict, AtEntry
  <2>9. CASE CountRound
    BY <2>9 DEF CountRound, Step, Verdict, readVars
  <2>10. CASE ClearMetrics \/ Restart
    BY <2>10, EmptyFunction DEF ClearMetrics, Restart, Step, Verdict
  <2>11. QED
    BY <2>2, <2>3, <2>4, <2>5, <2>6, <2>7, <2>8, <2>9, <2>10 DEF Next, Main
<1>3. QED
  BY <1>1, <1>2, Typing, EvidenceInvariant, PTL DEF Spec

(* An authority of every session that never votes never gets a vote,       *)
(* whichever endpoints lag, fail or disagree, whichever observations decide *)
(* a round and however low the threshold falls.                            *)
THEOREM OfflineUncredited == Spec => []OfflineNeverCredited
<1>1. Init => OfflineNeverCredited
  BY EmptyFunction DEF Init, NoMetrics, OfflineNeverCredited
<1>2. TypeOK /\ Verdict /\ OfflineNeverCredited /\ [Next]_vars => OfflineNeverCredited'
  <2> SUFFICES ASSUME TypeOK, Verdict, OfflineNeverCredited, [Next]_vars
               PROVE  OfflineNeverCredited'
    OBVIOUS
  <2>1. CASE CountVotes
    <3>1. mpc = "votes"
      BY <2>1 DEF CountVotes, Step
    <3>2. PICK S \in SUBSET DOMAIN grandpa_keys : Credit(S)
      BY <2>1, Zenon DEF CountVotes
    <3>3. IsMetrics(metrics)
      BY DEF TypeOK
    <3>4. DOMAIN metrics'.validators = DOMAIN metrics.validators
      BY <3>2, <3>3, CreditEffect
    <3>5. ASSUME NEW v \in Silent \cap DOMAIN metrics.validators, NEW k \in Kinds
          PROVE  metrics'.validators[v][k] = 0
      <4>1. v \in S => grandpa_keys[v] \in result[Entry.round].missing[k]
        BY <3>1, <3>2 DEF Verdict, ListsSilent
      <4>2. metrics'.validators[v][k] = metrics.validators[v][k] +
              IF v \in S /\ grandpa_keys[v] \notin result[Entry.round].missing[k]
              THEN 1 ELSE 0
        BY <3>2, <3>3, CreditEffect
      <4>3. metrics.validators[v][k] = 0
        BY DEF OfflineNeverCredited, Silent
      <4>4. QED
        BY <4>1, <4>2, <4>3
    <3>6. QED
      BY <3>4, <3>5 DEF OfflineNeverCredited, Silent
  <2>2. CASE CountRound
    <3>1. metrics' = [metrics EXCEPT !.roundsProcessed = @ + 1]
      BY <2>2 DEF CountRound
    <3>2. metrics'.validators = metrics.validators
      BY <3>1 DEF TypeOK, IsMetrics
    <3>3. QED
      BY <3>2 DEF OfflineNeverCredited
  <2>3. CASE Construct
    <3>1. CASE metrics' = NewMetrics
      BY <3>1 DEF NewMetrics, OfflineNeverCredited
    <3>2. CASE metrics' = metrics
      BY <3>2 DEF OfflineNeverCredited
    <3>3. QED
      BY <2>3, <3>1, <3>2 DEF Construct
  <2>4. CASE Restart
    BY <2>4, EmptyFunction DEF Restart, NoMetrics, OfflineNeverCredited
  <2>5. CASE ~CountVotes /\ ~CountRound /\ ~Construct /\ ~Restart
    <3>1. metrics' = metrics
      BY <2>5 DEF Next, Chain, Poller, PollOk, PollFail, CheckOutaged, RemoveOutaged, ExceptCheck,
                  AppendOutaged, Reconnect, PollerLeaves, Main, ScanBegin, ScanEnd, ReadSession,
                  ReadValidators, ReadKeys, ReadFail, SkipEntry, TallyEntry, ClearMetrics,
                  PublishMetrics, metricVars, vars
    <3>2. QED
      BY <3>1 DEF OfflineNeverCredited
  <2>6. QED
    BY <2>1, <2>2, <2>3, <2>4, <2>5
<1>3. QED
  BY <1>1, <1>2, Typing, VerdictInvariant, PTL DEF Spec
========================================
