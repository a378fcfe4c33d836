------------------------ MODULE FinalityTallyProofs ------------------------
(***************************************************************************)
(* Theorems about the tally of FinalityExporter: whose list is kept when   *)
(* the shorter of two missing lists is, that no vote of that node is lost, *)
(* and that every round is counted on the word of distinct threads.        *)
(***************************************************************************)
EXTENDS FinalityProofs

(* What a deque holds after a Push was pushed, or was there before.        *)
LEMMA PushHolds ==
  ASSUME NEW S, NEW q \in Seq(S), NEW x \in S, NEW cap \in Nat \ {0},
         NEW i \in 1 .. Len(Push(q, x, cap))
  PROVE  \/ Push(q, x, cap)[i] = x
         \/ \E j \in 1 .. Len(q) : Push(q, x, cap)[i] = q[j]
<1> DEFINE p == Push(q, x, cap)
<1>1. PICK d \in Nat :
        /\ Len(p) + d = Len(q) + 1
        /\ \A n \in 1 .. Len(p) : p[n] = IF n + d = Len(q) + 1 THEN x ELSE q[n + d]
  <2>1. IsShifted(p, q, x)
    BY PushElements
  <2>2. QED
    BY <2>1 DEF IsShifted
<1>2. Len(q) \in Nat /\ Len(p) \in Nat
  BY PushType
<1> HIDE DEF p
<1>3. i \in 1 .. Len(p)
  BY DEF p
<1>4. i + d = Len(q) + 1 => p[i] = x
  BY <1>1, <1>3
<1>5. i + d # Len(q) + 1 => i + d \in 1 .. Len(q) /\ p[i] = q[i + d]
  BY <1>1, <1>2, <1>3
<1>6. QED
  BY <1>4, <1>5 DEF p

(* Of two sets, one in the other, the one that is not larger is in the     *)
(* other.                                                                  *)
LEMMA SmallerIsIn ==
  ASSUME NEW m, NEW e, IsFiniteSet(m), IsFiniteSet(e), m \subseteq e \/ e \subseteq m,
         Cardinality(m) <= Cardinality(e)
  PROVE  m \subseteq e
<1>1. CASE e \subseteq m /\ e # m
  <2>1. Cardinality(e) <= Cardinality(m) /\ Cardinality(m) # Cardinality(e)
    BY <1>1, FS_Subset
  <2>2. Cardinality(m) \in Nat /\ Cardinality(e) \in Nat
    BY FS_CardinalityType
  <2>3. QED
    BY <2>1, <2>2
<1>2. QED
  BY <1>1

-----------------------------------------------------------------------------
(* The observations the exporter holds, wherever they are.                 *)
Held(o) ==
  \/ \E t \in Threads : r[t] # Null /\ o = r[t]
  \/ \E i \in 1 .. Len(q_votes_raw) : o = q_votes_raw[i]
  \/ \E i \in 1 .. Len(data) : o = data[i]

(* A node only adds votes to a round, so its answers list fewer and fewer  *)
(* missing validators, and any two of them can be compared.                *)
UpToDate(o) ==
  /\ o.round <= round
  /\ o.round = round =>
       \A k \in Kinds : Active[session] \ cast[Url(o.by)][k] \subseteq o.missing[k]

Comparable(o, p) ==
  o.round = p.round /\ Url(o.by) = Url(p.by) =>
    \A k \in Kinds : o.missing[k] \subseteq p.missing[k] \/ p.missing[k] \subseteq o.missing[k]

Chained ==
  /\ \A o \in Observations : Held(o) => UpToDate(o)
  /\ \A o, p \in Observations : Held(o) /\ Held(p) => Comparable(o, p)

(* Only the answer to a request is a new observation.                      *)
LEMMA HeldStep ==
  ASSUME TypeOK, [Next]_vars, NEW o \in Observations, Held(o)'
  PROVE  Held(o) \/ \E t \in Threads : PollOk(t) /\ o = RoundState(t)
<1>1. ASSUME NEW t \in Threads, PollOk(t)
      PROVE  Held(o) \/ o = RoundState(t)
  <2>1. /\ r' = [r EXCEPT ![t] = RoundState(t)] /\ data' = data
        /\ q_votes_raw' = IF RoundOver(t, RoundState(t))
                          THEN Push(q_votes_raw, r[t], RawCap) ELSE q_votes_raw
    BY <1>1 DEF PollOk, PollerLeaves, tallyVars, LastSeen
  <2>2. ASSUME NEW i \in 1 .. Len(q_votes_raw'), o = q_votes_raw'[i]
        PROVE  Held(o)
    <3>1. CASE RoundOver(t, RoundState(t))
      <4>1. r[t] # Null /\ r[t] \in Observations
        BY <3>1 DEF RoundOver, TypeOK
      <4>2. RawCap \in Nat \ {0} /\ q_votes_raw \in Seq(Observations)
        BY ConstantsAssumption DEF ConstantsAssumption, TypeOK
      <4>3. o = r[t] \/ \E j \in 1 .. Len(q_votes_raw) : o = q_votes_raw[j]
        BY <2>1, <2>2, <3>1, <4>1, <4>2, PushHolds
      <4>4. QED
        BY <4>1, <4>3 DEF Held
    <3>2. CASE ~RoundOver(t, RoundState(t))
      BY <2>1, <2>2, <3>2 DEF Held
    <3>3. QED
      BY <3>1, <3>2
  <2>3. ASSUME NEW e \in Threads, r'[e] # Null, o = r'[e]
        PROVE  Held(o) \/ o = RoundState(t)
    BY <2>1, <2>3 DEF Held, TypeOK
  <2>4. QED
    BY <2>1, <2>2, <2>3 DEF Held
<1>2. CASE Construct
  BY <1>2 DEF Construct, MainLeaves, pollerVars, Held
<1>3. CASE ClearMetrics
  BY <1>3 DEF ClearMetrics, MainLeaves, pollerVars, Held
<1>4. CASE Restart
  BY <1>4 DEF Restart, Held
<1>5. CASE ~(\E t \in Threads : PollOk(t)) /\ ~Construct /\ ~ClearMetrics /\ ~Restart
  <2>1. UNCHANGED <<r, q_votes_raw, data>>
    BY <1>5 DEF Next, Chain, Poller, PollFail, CheckOutaged, RemoveOutaged, ExceptCheck,
                AppendOutaged, Reconnect, PollerLeaves, Main, ScanBegin, ScanEnd, ReadSession,
                ReadValidators, ReadKeys, ReadFail, SkipEntry, TallyEntry, CountVotes, CountRound,
                PublishMetrics, MainLeaves, pollerVars, tallyVars, vars
  <2>2. QED
    BY <2>1 DEF Held
<1>6. QED
  BY <1>1, <1>2, <1>3, <1>4, <1>5

LEMMA RoundNumbers ==
  ASSUME TypeOK
  PROVE  /\ round \in Nat
         /\ \A o \in Observations : o.round \in Nat /\ o.by \in Threads /\ Url(o.by) \in Urls
<1>1. Rounds \subseteq Nat
  BY ConstantsAssumption DEF ConstantsAssumption, Rounds
<1>2. round \in Rounds
  BY DEF TypeOK
<1>3. \A o \in Observations : o.round \in Rounds /\ o.by \in Threads /\ Url(o.by) \in Urls
  BY DEF Observations, Threads, Url
<1>4. QED
  BY <1>1, <1>2, <1>3

LEMMA ChainedInvariant == Spec => []Chained
<1>1. Init => Chained
  BY DEF Init, Chained, Held
<1>2. TypeOK /\ Chained /\ [Next]_vars => Chained'
  <2> SUFFICES ASSUME TypeOK, Chained, [Next]_vars PROVE Chained'
    OBVIOUS
  <2>1. \A o \in Observations : o.round \in Nat
    BY RoundNumbers
  <2>2. round \in Nat
    BY RoundNumbers
  <2>3. ASSUME NEW o \in Observations, Held(o) PROVE UpToDate(o)'
    <3>1. UpToDate(o)
      BY <2>3 DEF Chained
    <3>2. CASE Chain
      <4>1. CASE \E u \in Urls, v \in Validators, k \in Kinds : Vote(u, v, k)
        <5>1. /\ round' = round /\ session' = session
              /\ \A u \in Urls, k \in Kinds : cast[u][k] \subseteq cast'[u][k]
          BY <4>1 DEF Vote, TypeOK
        <5>2. Url(o.by) \in Urls
          BY RoundNumbers
        <5>3. QED
          BY <3>1, <5>1, <5>2 DEF UpToDate
      <4>2. CASE NextRound
        <5>1. round' = round + 1
          BY <4>2 DEF NextRound
        <5>2. QED
          BY <2>1, <2>2, <3>1, <5>1 DEF UpToDate
      <4>3. QED
        BY <3>2, <4>1, <4>2 DEF Chain
    <3>3. CASE ~Chain
      <4>1. UNCHANGED <<session, round, cast>>
        BY <3>3 DEF Next, Poller, PollOk, PollFail, CheckOutaged, RemoveOutaged, ExceptCheck,
                    AppendOutaged, Reconnect, PollerLeaves, Main, ScanBegin, ScanEnd, ReadSession,
                    ReadValidators, ReadKeys, ReadFail, Construct, SkipEntry, TallyEntry,
                    CountVotes, CountRound, ClearMetrics, PublishMetrics, Restart, MainLeaves,
                    chainVars, vars
      <4>2. QED
        BY <3>1, <4>1 DEF UpToDate
    <3>4. QED
      BY <3>2, <3>3
  <2>4. ASSUME NEW t \in Threads, PollOk(t)
        PROVE  /\ RoundState(t) \in Observations /\ UpToDate(RoundState(t))'
               /\ \A o \in Observations : Held(o) => Comparable(o, RoundState(t))
    <3>1. /\ RoundState(t) \in Observations
          /\ RoundState(t).round = round /\ RoundState(t).by = t
          /\ \A k \in Kinds : RoundState(t).missing[k] = Active[session] \ cast[Url(t)][k]
      BY RoundStateType DEF RoundState
    <3>2. UNCHANGED <<session, round, cast>>
      BY <2>4 DEF PollOk, PollerLeaves
    <3>3. UpToDate(RoundState(t))'
      BY <2>2, <3>1, <3>2 DEF UpToDate, RoundState
    <3>4. ASSUME NEW o \in Observations, Held(o) PROVE Comparable(o, RoundState(t))
      <4>1. UpToDate(o)
        BY <3>4 DEF Chained
      <4>2. QED
        BY <3>1, <4>1 DEF UpToDate, Comparable
    <3>5. QED
      BY <3>1, <3>3, <3>4
  <2>5. ASSUME NEW o \in Observations, Held(o)' PROVE UpToDate(o)'
    <3>1. CASE Held(o)
      BY <2>3, <3>1
    <3>2. CASE \E t \in Threads : PollOk(t) /\ o = RoundState(t)
      <4>1. PICK t \in Threads : PollOk(t) /\ o = RoundState(t)
        BY <3>2
      <4>2. UpToDate(RoundState(t))'
        BY <2>4, <4>1
      <4>3. o = RoundState(t) /\ UNCHANGED <<session, round, cast>>
        BY <4>1 DEF PollOk, PollerLeaves
      <4>4. QED
        BY <4>2, <4>3 DEF UpToDate, RoundState
    <3>3. QED
      BY <2>5, <3>1, <3>2, HeldStep
  <2>6. ASSUME NEW o \in Observations, NEW p \in Observations, Held(o)', Held(p)'
        PROVE  Comparable(o, p)
    <3>1. CASE Held(o) /\ Held(p)
      BY <3>1 DEF Chained
    <3>2. ASSUME NEW t \in Threads, PollOk(t), o = RoundState(t) PROVE Comparable(o, p)
      <4>1. CASE Held(p)
        BY <2>4, <3>2, <4>1 DEF Comparable
      <4>2. CASE ~Held(p)
        <5>1. PICK u \in Threads : PollOk(u) /\ p = RoundState(u)
          BY <2>6, <4>2, HeldStep
        <5>2. QED
          BY <3>2, <5>1 DEF Comparable, RoundState
      <4>3. QED
        BY <4>1, <4>2
    <3>3. ASSUME NEW t \in Threads, PollOk(t), p = RoundState(t), Held(o) PROVE Comparable(o, p)
      BY <2>4, <3>3
    <3>4. QED
      BY <2>6, <3>1, <3>2, <3>3, HeldStep
  <2>7. QED
    BY <2>5, <2>6 DEF Chained, Comparable
<1>3. QED
  BY <1>1, <1>2, Typing, PTL DEF Spec

-----------------------------------------------------------------------------
(* The list kept for k is that of the observation i.                       *)
KeptOf(i, kept, of, k) ==
  /\ kept = data[i].missing[k]
  /\ \A j \in of :
       /\ Cardinality(data[i].missing[k]) <= Cardinality(data[j].missing[k])
       /\ Url(data[i].by) = Url(data[j].by) => data[i].missing[k] \subseteq data[j].missing[k]

(* A tally is what the observations it is made of amount to.  While a      *)
(* round is open it has not been counted before, and none of its           *)
(* observations is left out.                                               *)
Adds(n) ==
  /\ result[n].of \in SUBSET (1 .. Len(data))
  /\ \A j \in result[n].of : data[j].round = n
  /\ result[n].count = Cardinality(result[n].of)
  /\ \A k \in Kinds : \E i \in result[n].of : KeptOf(i, result[n].missing[k], result[n].of, k)

Open(n) ==
  ~Enough(result[n].count) =>
    /\ ~Contains(q_rounds_processed, n)
    /\ \A i \in result[n].of, j \in 1 .. pos - 1 :
         i < j /\ data[j].round = n => j \in result[n].of

Behind(n) == \A j \in result[n].of : j < pos \/ (mpc # "entry" /\ j = pos)

Passing == {"entry", "votes", "round"}

TallyInv ==
  /\ \A n \in DOMAIN result : Adds(n)
  /\ mpc \in Passing => \A n \in DOMAIN result : Open(n) /\ Behind(n)
  /\ mpc \in {"votes", "round"} => Entry.round \in DOMAIN result /\ Enough(result[Entry.round].count)

(* The observation at pos is added to the tally of its round.              *)
LEMMA TallyAdds ==
  ASSUME TypeOK, Chained, TallyInv, AtEntry
  PROVE  LET n == Entry.round
             t == TallyOf(Entry)
         IN  /\ t.of = {pos} \cup (IF n \in DOMAIN result THEN result[n].of ELSE {})
             /\ t.of \in SUBSET (1 .. Len(data))
             /\ \A j \in t.of : data[j].round = n
             /\ t.count = Cardinality(t.of)
             /\ \A k \in Kinds : \E i \in t.of : KeptOf(i, t.missing[k], t.of, k)
<1> DEFINE n == Entry.round
           t == TallyOf(Entry)
<1>1. pos \in 1 .. Len(data) /\ Entry = data[pos] /\ Entry \in Observations
  BY DEF AtEntry, Entry, TypeOK
<1>2. \A o \in Observations, k \in Kinds :
        IsFiniteSet(o.missing[k]) /\ Cardinality(o.missing[k]) \in Nat
  <2>1. \A o \in Observations, k \in Kinds : o.missing[k] \in SUBSET Validators
    BY DEF Observations
  <2>2. QED
    BY <2>1, FS_Subset, FS_CardinalityType, ConstantsAssumption DEF ConstantsAssumption
<1>3. CASE n \notin DOMAIN result
  <2>1. t = [count |-> 1, missing |-> Entry.missing, of |-> {pos}]
    BY <1>3 DEF TallyOf
  <2>2. Cardinality({pos}) = 1
    BY FS_Singleton
  <2>3. \A k \in Kinds : KeptOf(pos, Entry.missing[k], {pos}, k)
    BY <1>1, <1>2 DEF KeptOf
  <2>4. t.of = {pos} /\ t.count = 1 /\ t.missing = Entry.missing
    BY <2>1
  <2>5. \A k \in Kinds : \E i \in t.of : KeptOf(i, t.missing[k], t.of, k)
    BY <2>3, <2>4
  <2>6. /\ t.of \in SUBSET (1 .. Len(data)) /\ \A j \in t.of : data[j].round = n
        /\ t.count = Cardinality(t.of)
    BY <1>1, <2>2, <2>4
  <2>7. t.of = {pos} \cup (IF n \in DOMAIN result THEN result[n].of ELSE {})
    BY <1>3, <2>4
  <2>8. QED
    BY <2>5, <2>6, <2>7
<1>4. CASE n \in DOMAIN result
  <2> DEFINE old == result[n]
  <2>1. old \in Tallies
    BY <1>4 DEF TypeOK
  <2>2. t = [count |-> old.count + 1,
             missing |-> [k \in Kinds |-> Shorter(Entry.missing[k], old.missing[k])],
             of |-> old.of \cup {pos}]
    BY <1>4 DEF TallyOf
  <2>3. /\ old.of \in SUBSET (1 .. Len(data)) /\ old.count = Cardinality(old.of)
        /\ \A j \in old.of : data[j].round = n /\ j < pos
        /\ \A k \in Kinds : \E i \in old.of : KeptOf(i, old.missing[k], old.of, k)
    <3>1. Adds(n) /\ Behind(n) /\ mpc = "entry"
      BY <1>4 DEF TallyInv, AtEntry, Passing
    <3>2. QED
      BY <3>1 DEF Adds, Behind
  <2>4. t.count = Cardinality(t.of)
    <3>1. IsFiniteSet(old.of) /\ pos \notin old.of
      <4>1. Len(data) \in Nat
        BY DEF TypeOK
      <4>2. IsFiniteSet(1 .. Len(data))
        BY <4>1, FS_Interval
      <4>3. QED
        BY <1>1, <2>3, <4>2, FS_Subset
    <3>2. Cardinality(old.of \cup {pos}) = Cardinality(old.of) + 1
      BY <3>1, FS_AddElement
    <3>3. QED
      BY <2>2, <2>3, <3>2
  <2>5. ASSUME NEW k \in Kinds
        PROVE  \E i \in t.of : KeptOf(i, t.missing[k], t.of, k)
    <3> DEFINE m == old.missing[k]
               e == Entry.missing[k]
               list(j) == data[j].missing[k]
    <3>1. PICK i \in old.of : KeptOf(i, m, old.of, k)
      BY <2>3
    <3>2. t.missing[k] = Shorter(e, m) /\ t.of = old.of \cup {pos}
      BY <2>2
    <3>3. /\ \A j \in t.of : /\ j \in 1 .. Len(data) /\ data[j] \in Observations
                             /\ data[j].round = Entry.round /\ Held(data[j])
          /\ i \in t.of /\ pos \in t.of
      BY <1>1, <2>3, <3>1, <3>2, SMTT(30) DEF Held, TypeOK
    <3>4. \A j \in t.of : IsFiniteSet(list(j)) /\ Cardinality(list(j)) \in Nat
      BY <1>2, <3>3
    <3>5. \A j, l \in t.of :
            Url(data[j].by) = Url(data[l].by) => list(j) \subseteq list(l) \/ list(l) \subseteq list(j)
      BY <3>3 DEF Chained, Comparable
    <3>6. \A j, l \in t.of :
            Url(data[j].by) = Url(data[l].by) /\ Cardinality(list(j)) <= Cardinality(list(l))
              => list(j) \subseteq list(l)
      BY <3>4, <3>5, SmallerIsIn
    <3>7. m = list(i) /\ e = list(pos) /\ \A j \in old.of : Cardinality(list(i)) <= Cardinality(list(j))
      BY <1>1, <3>1 DEF KeptOf
    <3>8. CASE Cardinality(e) < Cardinality(m)
      <4>1. t.missing[k] = list(pos)
        BY <3>2, <3>7, <3>8 DEF Shorter
      <4>2. \A j \in t.of : Cardinality(list(pos)) <= Cardinality(list(j))
        BY <3>2, <3>3, <3>4, <3>7, <3>8
      <4>3. QED
        BY <3>3, <3>6, <4>1, <4>2 DEF KeptOf
    <3>9. CASE ~(Cardinality(e) < Cardinality(m))
      <4>1. t.missing[k] = list(i)
        BY <3>2, <3>7, <3>9 DEF Shorter
      <4>2. \A j \in t.of : Cardinality(list(i)) <= Cardinality(list(j))
        BY <3>2, <3>3, <3>4, <3>7, <3>9
      <4>3. QED
        BY <3>3, <3>6, <4>1, <4>2 DEF KeptOf
    <3>10. QED
      BY <3>8, <3>9
  <2>6. t.of = {pos} \cup old.of
    BY <2>2
  <2>7. t.of \in SUBSET (1 .. Len(data)) /\ \A j \in t.of : data[j].round = n
    <3> HIDE DEF old, t
    <3>1. QED
      BY <1>1, <2>3, <2>6
  <2> HIDE DEF t
  <2>8. QED
    BY <1>4, <2>4, <2>5, <2>6, <2>7 DEF t
<1>5. QED
  BY <1>3, <1>4

LEMMA TallyInvariant == Spec => []TallyInv
<1>1. Init => TallyInv
  BY EmptyFunction DEF Init, TallyInv, Passing
<1>2. TypeOK /\ Working /\ Chained /\ TallyInv /\ [Next]_vars => TallyInv'
  <2> SUFFICES ASSUME TypeOK, Working, Chained, TallyInv, [Next]_vars PROVE TallyInv'
    OBVIOUS
  <2>1. ASSUME UNCHANGED <<data, pos, result>>,
               mpc' \notin Passing \/ /\ UNCHANGED <<votes_threshold, q_rounds_processed>>
                                      /\ mpc' = mpc \/ (mpc = "votes" /\ mpc' = "round")
        PROVE  TallyInv'
    <3>1. \A n \in DOMAIN result : Adds(n)'
      BY <2>1 DEF TallyInv, Adds, KeptOf
    <3>2. CASE mpc' \notin Passing
      BY <2>1, <3>1, <3>2 DEF TallyInv, Passing
    <3>3. CASE mpc' \in Passing
      <4>1. /\ UNCHANGED <<votes_threshold, q_rounds_processed>>
            /\ mpc' = mpc \/ (mpc = "votes" /\ mpc' = "round")
        BY <2>1, <3>3
      <4>2. mpc \in Passing
        BY <3>3, <4>1 DEF Passing
      <4>3. \A n \in DOMAIN result : Open(n)' /\ Behind(n)'
        BY <2>1, <4>1, <4>2 DEF TallyInv, Open, Behind, Enough
      <4>4. mpc' \in {"votes", "round"} => Entry.round \in DOMAIN result /\ Enough(result[Entry.round].count)
        BY <4>1 DEF TallyInv
      <4>5. QED
        BY <2>1, <3>1, <4>1, <4>3, <4>4 DEF TallyInv, Entry, Enough
    <3>4. QED
      BY <3>2, <3>3
  <2>2. CASE Chain \/ (\E t \in Threads : Poller(t)) \/ UNCHANGED vars
    BY <2>1, <2>2 DEF Chain, Poller, PollOk, PollFail, CheckOutaged, RemoveOutaged, ExceptCheck,
                      AppendOutaged, Reconnect, PollerLeaves, readVars, metricVars, tallyVars, vars
  <2>3. CASE \/ ScanBegin \/ ScanEnd \/ ReadSession \/ ReadValidators \/ ReadKeys \/ ReadFail
             \/ PublishMetrics
    BY <2>1, <2>3 DEF ScanBegin, ScanEnd, ReadSession, ReadValidators, ReadKeys, ReadFail,
                      PublishMetrics, Step, Passing, tallyVars
  <2>4. CASE CountVotes
    BY <2>1, <2>4 DEF CountVotes, Step, Passing, tallyVars, readVars
  <2>5. CASE Construct \/ ClearMetrics \/ Restart
    <3>1. DOMAIN result' = {} /\ mpc' \notin {"votes", "round"}
      BY <2>5, EmptyFunction DEF Construct, ClearMetrics, Restart, Step
    <3>2. QED
      BY <3>1 DEF TallyInv
  <2>6. CASE SkipEntry
    <3>1. /\ mpc = "entry" /\ mpc' = "entry" /\ pos' = pos + 1
          /\ UNCHANGED <<data, result, votes_threshold, q_rounds_processed>>
          /\ Contains(q_rounds_processed, data[pos].round)
      BY <2>6 DEF SkipEntry, AtEntry, Processed, Entry, readVars, metricVars
    <3>2. \A n \in DOMAIN result : Adds(n)'
      BY <3>1, ZenonT(60) DEF TallyInv, Adds, KeptOf
    <3>3. ASSUME NEW n \in DOMAIN result PROVE Open(n)' /\ Behind(n)'
      <4>1. Adds(n) /\ Open(n) /\ Behind(n)
        BY <3>1 DEF TallyInv, Passing
      <4>2. pos \in Nat /\ result[n].of \in SUBSET Nat
        BY <4>1 DEF TypeOK, Adds
      <4>3. Behind(n)'
        BY <3>1, <4>1, <4>2 DEF Behind
      <4>4. Open(n)'
        BY <3>1, <4>1, <4>2 DEF Open, Enough
      <4>5. QED
        BY <4>3, <4>4
    <3>4. QED
      BY <3>1, <3>2, <3>3 DEF TallyInv
  <2>7. CASE TallyEntry
    <3> DEFINE m == Entry.round
               t == TallyOf(Entry)
    <3>1. /\ AtEntry /\ ~Contains(q_rounds_processed, m)
          /\ result' = [n \in DOMAIN result \cup {m} |-> IF n = m THEN t ELSE result[n]]
          /\ IF Enough(t.count) THEN mpc' = "votes" /\ pos' = pos
                                ELSE mpc' = "entry" /\ pos' = pos + 1
          /\ UNCHANGED <<data, votes_threshold, q_rounds_processed>>
      BY <2>7 DEF TallyEntry, Processed, readVars, metricVars
    <3>2. mpc = "entry" /\ pos \in 1 .. Len(data) /\ m = data[pos].round
      BY <3>1 DEF AtEntry, Entry, TypeOK
    <3>3. /\ t.of = {pos} \cup (IF m \in DOMAIN result THEN result[m].of ELSE {})
          /\ t.of \in SUBSET (1 .. Len(data))
          /\ \A j \in t.of : data[j].round = m
          /\ t.count = Cardinality(t.of)
          /\ \A k \in Kinds : \E i \in t.of : KeptOf(i, t.missing[k], t.of, k)
      BY <3>1, TallyAdds
    <3> HIDE DEF t, m
    <3>4. result'[m] = t /\ \A n \in DOMAIN result \ {m} : result'[n] = result[n]
      BY <3>1
    <3>5. ASSUME NEW n \in DOMAIN result' PROVE Adds(n)'
      <4>1. CASE n = m
        BY <3>1, <3>3, <3>4, <4>1, ZenonT(60) DEF Adds, KeptOf
      <4>2. CASE n # m
        <5>1. n \in DOMAIN result /\ result'[n] = result[n] /\ Adds(n)
          BY <3>1, <3>4, <4>2 DEF TallyInv
        <5>2. QED
          BY <3>1, <5>1 DEF Adds, KeptOf
      <4>3. QED
        BY <4>1, <4>2
    <3>6. ASSUME NEW n \in DOMAIN result' PROVE Open(n)' /\ Behind(n)'
      <4>1. CASE n = m
        <5>1. m \in DOMAIN result => Adds(m) /\ Open(m) /\ Behind(m)
          BY <3>2 DEF TallyInv, Passing
        <5>2. Behind(n)'
          <6>1. m \in DOMAIN result => \A j \in result[m].of : j < pos /\ j \in Nat
            BY <3>2, <5>1 DEF Behind, Adds
          <6>2. QED
            BY <3>1, <3>2, <3>3, <3>4, <4>1, <6>1 DEF Behind
        <5>3. ASSUME ~Enough(t.count)
              PROVE  /\ \A i \in t.of, j \in 1 .. pos :
                          i < j /\ data[j].round = m => j \in t.of
                     /\ pos' = pos + 1
          <6>1. ASSUME NEW i \in t.of, NEW j \in 1 .. pos - 1, i < j, data[j].round = m
                PROVE  j \in t.of
            <7>1. i # pos
              BY <3>2, <6>1
            <7>2. m \in DOMAIN result /\ i \in result[m].of
              BY <3>3, <7>1
            <7>3. ~Enough(result[m].count)
              <8>1. result[m].count \in Nat /\ result[m].of \in SUBSET (1 .. Len(data))
                BY <5>1, <7>2 DEF Adds, TypeOK, Tallies
              <8>2. t.count = result[m].count + 1
                BY <7>2 DEF TallyOf, t, m
              <8>3. QED
                BY <5>3, <8>1, <8>2 DEF Enough, TypeOK
            <7>4. j \in result[m].of
              BY <5>1, <6>1, <7>2, <7>3 DEF Open
            <7>5. QED
              BY <3>3, <7>2, <7>4
          <6>2. QED
            BY <3>1, <3>2, <3>3, <5>3, <6>1
        <5>4. Open(n)'
          BY <3>1, <3>2, <3>4, <4>1, <5>3 DEF Open, Enough
        <5>5. QED
          BY <5>2, <5>4
      <4>2. CASE n # m
        <5>1. /\ n \in DOMAIN result /\ result'[n] = result[n]
              /\ Adds(n) /\ Open(n) /\ Behind(n)
          BY <3>1, <3>2, <3>4, <4>2 DEF TallyInv, Passing
        <5>2. /\ pos' = pos \/ pos' = pos + 1
              /\ pos \in Nat /\ result[n].of \in SUBSET Nat
          BY <3>1, <3>2, <5>1 DEF Adds
        <5>3. Behind(n)'
          BY <3>2, <5>1, <5>2 DEF Behind
        <5>4. Open(n)'
          <6>1. ASSUME ~Enough(result[n].count), NEW i \in result[n].of, NEW j \in 1 .. pos' - 1,
                       i < j, data[j].round = n
                PROVE  j \in result[n].of
            <7>1. j # pos
              BY <3>2, <4>2, <6>1
            <7>2. j \in 1 .. pos - 1
              <8>1. j \in Nat /\ 1 <= j /\ j <= pos
                BY <5>2, <6>1
              <8>2. QED
                BY <5>2, <7>1, <8>1
            <7>3. QED
              BY <5>1, <6>1, <7>2 DEF Open
          <6>2. ~Enough(result[n].count) => ~Contains(q_rounds_processed, n)
            BY <5>1 DEF Open
          <6>3. QED
            BY <3>1, <5>1, <6>1, <6>2 DEF Open, Enough
        <5>5. QED
          BY <5>3, <5>4
      <4>3. QED
        BY <4>1, <4>2
    <3>7. (mpc \in {"votes", "round"} =>
             Entry.round \in DOMAIN result /\ Enough(result[Entry.round].count))'
      <4>1. mpc' = "votes" => m \in DOMAIN result' /\ result'[m] = t /\ Enough(t.count)
                              /\ data'[pos'].round = m
        BY <3>1, <3>2, <3>4
      <4>2. mpc' # "round"
        BY <3>1
      <4>3. QED
        BY <3>1, <4>1, <4>2 DEF Entry, Enough
    <3>8. QED
      BY <3>5, <3>6, <3>7 DEF TallyInv
  <2>8. CASE CountRound
    <3>1. /\ mpc = "round" /\ mpc' = "entry" /\ pos' = pos + 1
          /\ q_rounds_processed' = Push(q_rounds_processed, data[pos].round, ProcCap)
          /\ UNCHANGED <<data, result, votes_threshold>>
      BY <2>8 DEF CountRound, Step, Entry, readVars
    <3>2. pos \in 1 .. Len(data) /\ data[pos].round \in Rounds
      <4>1. pos \in 1 .. Len(data) /\ data[pos] \in Observations
        BY <3>1 DEF Working, TypeOK
      <4>2. QED
        BY <4>1 DEF Observations
    <3>3. \A n \in DOMAIN result : Adds(n)'
      BY <3>1 DEF TallyInv, Adds, KeptOf
    <3>4. ASSUME NEW n \in DOMAIN result PROVE Open(n)' /\ Behind(n)'
      <4>1. Adds(n) /\ Open(n) /\ Behind(n) /\ Enough(result[data[pos].round].count)
        BY <3>1 DEF TallyInv, Passing, Entry
      <4>2. result[n].of \in SUBSET Nat
        BY <4>1 DEF Adds
      <4>3. Behind(n)'
        BY <3>1, <3>2, <4>1, <4>2 DEF Behind
      <4>4. ASSUME ~Enough(result[n].count)
            PROVE  ~Contains(q_rounds_processed', n)
        <5>1. ~Contains(q_rounds_processed, n) /\ n # data[pos].round
          BY <4>1, <4>4 DEF Open
        <5>2. q_rounds_processed \in Seq(Rounds) /\ ProcCap \in Nat \ {0}
          BY ConstantsAssumption DEF ConstantsAssumption, TypeOK
        <5>3. \A i \in 1 .. Len(q_rounds_processed') :
                \/ q_rounds_processed'[i] = data[pos].round
                \/ \E j \in 1 .. Len(q_rounds_processed) : q_rounds_processed'[i] = q_rounds_processed[j]
          BY <3>1, <3>2, <5>2, PushHolds
        <5>4. QED
          BY <5>1, <5>3 DEF Contains
      <4>5. Open(n)'
        BY <3>1, <3>2, <4>1, <4>2, <4>4 DEF Open, Enough
      <4>6. QED
        BY <4>3, <4>5
    <3>5. QED
      BY <3>1, <3>3, <3>4 DEF TallyInv
  <2>9. QED
    BY <2>2, <2>3, <2>4, <2>5, <2>6, <2>7, <2>8 DEF Next, Main
<1>3. QED
  BY <1>1, <1>2, Typing, ChainedInvariant, PTL DEF Spec

(* Whichever endpoint lags behind, whatever each of them has seen, and in  *)
(* whatever order the observations of a round come: the list that is kept  *)
(* is a shortest one, and it has every vote that a thread of its own node  *)
(* saw, for the answers of one node can be compared.                       *)
THEOREM VotesAreKept == Spec => []VotesKeptPerNode
<1>1. TallyInv => VotesKeptPerNode
  BY DEF TallyInv, Passing, Adds, KeptOf, Open, VotesKeptPerNode
<1>2. QED
  BY <1>1, TallyInvariant, PTL

-----------------------------------------------------------------------------
(* No thread observes a round twice.                                       *)
Once(q) ==
  \A i, j \in 1 .. Len(q) : q[i].by = q[j].by /\ q[i].round = q[j].round => i = j

LEMMA PushOnce ==
  ASSUME NEW S, NEW q \in Seq(S), NEW x \in S, NEW cap \in Nat \ {0}, Once(q),
         \A i \in 1 .. Len(q) : q[i].by = x.by => q[i].round # x.round
  PROVE  Once(Push(q, x, cap))
<1> DEFINE p == Push(q, x, cap)
<1>1. PICK d \in Nat :
        /\ Len(p) + d = Len(q) + 1
        /\ \A i \in 1 .. Len(p) : p[i] = IF i + d = Len(q) + 1 THEN x ELSE q[i + d]
  <2>1. IsShifted(p, q, x)
    BY PushElements
  <2>2. QED
    BY <2>1 DEF IsShifted
<1>2. Len(q) \in Nat /\ Len(p) \in Nat
  BY PushType
<1> HIDE DEF p
<1>3. ASSUME NEW i \in 1 .. Len(p), NEW j \in 1 .. Len(p),
             p[i].by = p[j].by, p[i].round = p[j].round
      PROVE  i = j
  <2>1. i \in Nat /\ j \in Nat /\ i <= Len(p) /\ j <= Len(p)
    BY <1>2
  <2>2. CASE i + d = Len(q) + 1
    <3>1. CASE j + d = Len(q) + 1
      BY <1>2, <2>1, <2>2, <3>1
    <3>2. CASE j + d # Len(q) + 1
      <4>1. j + d \in 1 .. Len(q)
        <5>1. j + d \in Nat /\ j + d >= 1 /\ j + d <= Len(q) + 1
          BY <1>1, <1>2, <2>1
        <5>2. QED
          BY <1>2, <3>2, <5>1
      <4>2. p[i] = x /\ p[j] = q[j + d]
        BY <1>1, <2>2, <3>2
      <4>3. QED
        BY <1>3, <4>1, <4>2
    <3>3. QED
      BY <3>1, <3>2
  <2>3. CASE i + d # Len(q) + 1
    <3>1. i + d \in 1 .. Len(q) /\ p[i] = q[i + d]
      BY <1>1, <1>2, <2>1, <2>3
    <3>2. CASE j + d = Len(q) + 1
      <4>1. p[j] = x
        BY <1>1, <3>2
      <4>2. QED
        BY <1>3, <3>1, <4>1
    <3>3. CASE j + d # Len(q) + 1
      <4>1. j + d \in 1 .. Len(q) /\ p[j] = q[j + d]
        BY <1>1, <1>2, <2>1, <3>3
      <4>2. i + d = j + d
        BY <1>3, <3>1, <4>1 DEF Once
      <4>3. QED
        BY <2>1, <4>2
    <3>4. QED
      BY <3>2, <3>3
  <2>4. QED
    BY <2>2, <2>3
<1>4. QED
  BY <1>3 DEF Once, p

(* The last answer to a thread is of no later round than the chain's, its  *)
(* observations of earlier ones than that.                                 *)
Heard(t) == r[t] # Null => r[t].by = t /\ r[t].round <= round

Earlier(o) == o.round < round /\ (r[o.by] # Null => o.round < r[o.by].round)

DistinctInv ==
  /\ \A t \in Threads : Heard(t)
  /\ \A i \in 1 .. Len(q_votes_raw) : Earlier(q_votes_raw[i])
  /\ Once(q_votes_raw)
  /\ Once(data)

LEMMA DistinctInvariant == Spec => []DistinctInv
<1>1. Init => DistinctInv
  BY DEF Init, DistinctInv, Heard, Earlier, Once
<1>2. TypeOK /\ DistinctInv /\ [Next]_vars => DistinctInv'
  <2> SUFFICES ASSUME TypeOK, DistinctInv, [Next]_vars PROVE DistinctInv'
    OBVIOUS
  <2>1. round \in Nat /\ \A o \in Observations : o.round \in Nat /\ o.by \in Threads
    BY RoundNumbers
  <2>2. \A i \in 1 .. Len(q_votes_raw) : q_votes_raw[i] \in Observations
    BY DEF TypeOK
  <2>3. CASE Chain
    <3>1. UNCHANGED <<r, q_votes_raw, data>> /\ (round' = round \/ round' = round + 1)
      BY <2>3 DEF Chain, Vote, NextRound, pollerVars, tallyVars
    <3>2. \A t \in Threads : Heard(t)'
      BY <2>1, <3>1 DEF DistinctInv, Heard, TypeOK
    <3>3. ASSUME NEW i \in 1 .. Len(q_votes_raw) PROVE Earlier(q_votes_raw[i])'
      BY <2>1, <2>2, <3>1 DEF DistinctInv, Earlier
    <3>4. QED
      BY <3>1, <3>2, <3>3 DEF DistinctInv
  <2>4. ASSUME NEW t \in Threads, PollOk(t) PROVE DistinctInv'
    <3> DEFINE d == RoundState(t)
    <3>1. /\ r' = [r EXCEPT ![t] = d] /\ round' = round /\ data' = data
          /\ q_votes_raw' = IF RoundOver(t, d) THEN Push(q_votes_raw, r[t], RawCap) ELSE q_votes_raw
      BY <2>4 DEF PollOk, PollerLeaves, LastSeen, tallyVars
    <3>2. d.by = t /\ d.round = round
      BY DEF RoundState
    <3> HIDE DEF d
    <3>3. r'[t] = d /\ \A u \in Threads \ {t} : r'[u] = r[u]
      BY <3>1 DEF TypeOK
    <3>4. \A u \in Threads : Heard(u)'
      BY <2>1, <3>1, <3>2, <3>3 DEF DistinctInv, Heard
    <3>5. ASSUME NEW o \in Observations, Earlier(o) PROVE Earlier(o)'
      BY <2>1, <3>1, <3>2, <3>3, <3>5 DEF Earlier
    <3>6. CASE RoundOver(t, d)
      <4>1. r[t] # Null /\ r[t] \in Observations /\ r[t].by = t /\ r[t].round < round
        BY <2>1, <3>2, <3>6 DEF RoundOver, DistinctInv, Heard, TypeOK
      <4>2. ASSUME NEW o \in Observations, o = r[t] PROVE Earlier(o)'
        BY <3>1, <3>2, <3>3, <4>1, <4>2 DEF Earlier
      <4>3. \A i \in 1 .. Len(q_votes_raw) :
              q_votes_raw[i].by = r[t].by => q_votes_raw[i].round # r[t].round
        BY <2>1, <2>2, <4>1 DEF DistinctInv, Earlier
      <4>4. /\ RawCap \in Nat \ {0} /\ q_votes_raw \in Seq(Observations)
            /\ q_votes_raw' = Push(q_votes_raw, r[t], RawCap)
        BY <3>1, <3>6, ConstantsAssumption DEF ConstantsAssumption, TypeOK
      <4>5. Once(q_votes_raw')
        BY <4>1, <4>3, <4>4, PushOnce DEF DistinctInv
      <4>6. ASSUME NEW i \in 1 .. Len(q_votes_raw')
            PROVE  \E o \in Observations : o = q_votes_raw'[i] /\ Earlier(o)'
        <5>1. q_votes_raw'[i] = r[t] \/ \E j \in 1 .. Len(q_votes_raw) : q_votes_raw'[i] = q_votes_raw[j]
          BY <4>1, <4>4, PushHolds
        <5>2. CASE q_votes_raw'[i] = r[t]
          BY <4>1, <4>2, <5>2
        <5>3. CASE \E j \in 1 .. Len(q_votes_raw) : q_votes_raw'[i] = q_votes_raw[j]
          <6>1. PICK j \in 1 .. Len(q_votes_raw) : q_votes_raw'[i] = q_votes_raw[j]
            BY <5>3
          <6>2. Earlier(q_votes_raw[j])
            BY DEF DistinctInv
          <6>3. QED
            BY <2>2, <3>5, <6>1, <6>2
        <5>4. QED
          BY <5>1, <5>2, <5>3
      <4>7. (\A i \in 1 .. Len(q_votes_raw) : Earlier(q_votes_raw[i]))'
        BY <4>6 DEF Earlier
      <4>8. QED
        BY <3>1, <3>4, <4>5, <4>7 DEF DistinctInv, Once
    <3>7. CASE ~RoundOver(t, d)
      <4>1. q_votes_raw' = q_votes_raw
        BY <3>1, <3>7
      <4>2. (\A i \in 1 .. Len(q_votes_raw) : Earlier(q_votes_raw[i]))'
        <5>1. \A i \in 1 .. Len(q_votes_raw) :
                \E o \in Observations : o = q_votes_raw[i] /\ Earlier(o)'
          BY <2>2, <3>5 DEF DistinctInv
        <5>2. QED
          BY <4>1, <5>1 DEF Earlier
      <4>3. QED
        BY <3>1, <3>4, <4>1, <4>2 DEF DistinctInv, Once
    <3>8. QED
      BY <3>6, <3>7
  <2>5. CASE Construct
    BY <2>5 DEF Construct, MainLeaves, chainVars, pollerVars, DistinctInv, Heard, Earlier, Once
  <2>6. CASE ClearMetrics
    BY <2>6 DEF ClearMetrics, MainLeaves, chainVars, pollerVars, DistinctInv, Heard, Earlier, Once
  <2>7. CASE Restart
    BY <2>7 DEF Restart, chainVars, DistinctInv, Heard, Earlier, Once
  <2>8. CASE ~Chain /\ ~(\E t \in Threads : PollOk(t)) /\ ~Construct /\ ~ClearMetrics /\ ~Restart
    <3>1. UNCHANGED <<round, r, q_votes_raw, data>>
      BY <2>8 DEF Next, Poller, PollFail, CheckOutaged, RemoveOutaged, ExceptCheck,
                  AppendOutaged, Reconnect, PollerLeaves, Main, ScanBegin, ScanEnd, ReadSession,
                  ReadValidators, ReadKeys, ReadFail, SkipEntry, TallyEntry, CountVotes, CountRound,
                  PublishMetrics, MainLeaves, chainVars, pollerVars, tallyVars, vars
    <3>2. QED
      BY <3>1 DEF DistinctInv, Heard, Earlier, Once
  <2>9. QED
    BY <2>3, <2>4, <2>5, <2>6, <2>7, <2>8
<1>3. QED
  BY <1>1, <1>2, Typing, PTL DEF Spec

(* Whichever threads fail, and whatever the deques have dropped: a round   *)
(* that is counted was observed by as many threads as the threshold says,  *)
(* since no two observations of its tally are of one thread.               *)
THEOREM ThreadsAreDistinct == Spec => []CountedByDistinctThreads
<1>1. TypeOK /\ TallyInv /\ DistinctInv => CountedByDistinctThreads
  <2> SUFFICES ASSUME TypeOK, TallyInv, DistinctInv, mpc = "votes"
               PROVE  Cardinality({data[j].by : j \in result[Entry.round].of}) >= votes_threshold
    BY DEF CountedByDistinctThreads
  <2> DEFINE of == result[Entry.round].of
             threads == {data[j].by : j \in of}
             by == [j \in of |-> data[j].by]
  <2>1. /\ of \in SUBSET (1 .. Len(data)) /\ \A j \in of : data[j].round = Entry.round
        /\ Cardinality(of) >= votes_threshold
    <3>1. Entry.round \in DOMAIN result /\ Enough(result[Entry.round].count)
      BY DEF TallyInv
    <3>2. QED
      BY <3>1 DEF TallyInv, Adds, Enough
  <2>2. IsFiniteSet(of)
    <3>1. Len(data) \in Nat
      BY DEF TypeOK
    <3>2. IsFiniteSet(1 .. Len(data))
      BY <3>1, FS_Interval
    <3>3. QED
      BY <2>1, <3>2, FS_Subset
  <2> HIDE DEF of
  <2>3. \A i, j \in of : by[i] = by[j] => i = j
    BY <2>1 DEF DistinctInv, Once
  <2>4. by \in Bijection(of, threads)
    <3>1. by \in [of -> threads] /\ \A t \in threads : \E j \in of : by[j] = t
      OBVIOUS
    <3>2. QED
      BY <2>3, <3>1 DEF Bijection, Injection, Surjection, IsInjective
  <2>5. Cardinality(threads) = Cardinality(of)
    <3>1. ExistsBijection(of, threads)
      BY <2>4 DEF ExistsBijection
    <3>2. QED
      BY <2>2, <3>1, FS_Bijection
  <2>6. QED
    BY <2>1, <2>5 DEF of
<1>2. QED
  BY <1>1, Typing, TallyInvariant, DistinctInvariant, PTL
=============================================================================
