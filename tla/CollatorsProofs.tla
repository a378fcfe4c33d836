--------------------------- MODULE CollatorsProofs ---------------------------
(***************************************************************************)
(* Proofs about Collators: that no block counts twice as a block of the    *)
(* period, and that what is published is whole.                            *)
(***************************************************************************)
EXTENDS Collators, FiniteSetTheorems, SequenceTheorems, TLAPS

(* The interval in BlocksAreDistinct, and how many blocks it has.          *)
LEMMA BlocksUpTo ==
  ASSUME NEW s \in Nat, NEW h \in Nat, NEW m \in Nat, m <= h
  PROVE  /\ {b \in s .. h : b <= m} = s .. m
         /\ Cardinality(s .. m) = IF s > m THEN 0 ELSE m - s + 1
<1>1. {b \in s .. h : b <= m} = s .. m
  OBVIOUS
<1>2. s \in Int /\ m \in Int
  OBVIOUS
<1>3. QED
  BY <1>1, <1>2, FS_Interval

LEMMA MaxOfTwo ==
  ASSUME NEW x \in Nat, NEW y \in Nat
  PROVE  Max({x, y}) = IF x >= y THEN x ELSE y
<1>1. CASE x >= y
  <2>1. \A z \in {x, y} : x >= z
    BY <1>1
  <2>2. \A w \in {x, y} : (\A z \in {x, y} : w >= z) => w = x
    BY <1>1
  <2>3. QED
    BY <1>1, <2>1, <2>2 DEF Max
<1>2. CASE ~(x >= y)
  <2>1. \A z \in {x, y} : y >= z
    BY <1>2
  <2>2. \A w \in {x, y} : (\A z \in {x, y} : w >= z) => w = y
    BY <1>2
  <2>3. QED
    BY <1>2, <2>1, <2>2 DEF Max
<1>3. QED
  BY <1>1, <1>2

LEMMA Division ==
  ASSUME NEW n \in Nat, NEW l \in Nat \ {0}
  PROVE  /\ n \div l \in Int
         /\ l * (n \div l) <= n
         /\ n < l * (n \div l) + l
OBVIOUS

(* The first period is 1, and periods do not go back.                      *)
LEMMA PeriodIsPositive ==
  ASSUME NEW b \in Nat \ {0}
  PROVE  PeriodOf(b) \in Nat \ {0}
<1>1. PeriodLength \in Nat \ {0}
  BY ConstantsAssumption DEF ConstantsAssumption
<1> DEFINE n == b + PeriodLength - 1
<1>2. n \in Nat /\ n >= PeriodLength
  BY <1>1
<1>3. n \div PeriodLength \in Int /\ PeriodLength * (n \div PeriodLength) <= n
       /\ n < PeriodLength * (n \div PeriodLength) + PeriodLength
  BY <1>1, <1>2, Division
<1>4. n \div PeriodLength > 0
  BY <1>1, <1>2, <1>3
<1>5. QED
  BY <1>3, <1>4 DEF PeriodOf

LEMMA PeriodsGoOn ==
  ASSUME NEW a \in Nat \ {0}, NEW b \in Nat \ {0}, a <= b
  PROVE  PeriodOf(a) <= PeriodOf(b)
<1>1. PeriodLength \in Nat \ {0}
  BY ConstantsAssumption DEF ConstantsAssumption
<1> DEFINE m == a + PeriodLength - 1
           n == b + PeriodLength - 1
           p == m \div PeriodLength
           q == n \div PeriodLength
<1>2. m \in Nat /\ n \in Nat /\ m <= n
  BY <1>1
<1>3. p \in Int /\ q \in Int /\ PeriodLength * p <= m /\ n < PeriodLength * q + PeriodLength
  BY <1>1, <1>2, Division
<1> HIDE DEF p, q, m, n
<1>4. p > q => PeriodLength * p >= PeriodLength * q + PeriodLength
  <2> SUFFICES ASSUME p > q PROVE PeriodLength * p >= PeriodLength * q + PeriodLength
    OBVIOUS
  <2>1. PICK d \in Nat : p = q + 1 + d
    <3>1. p - q - 1 \in Nat /\ p = q + 1 + (p - q - 1)
      BY <1>3
    <3>2. QED
      BY <3>1
  <2>2. PeriodLength * p = PeriodLength * q + PeriodLength + PeriodLength * d
    BY <1>1, <1>3, <2>1
  <2>3. PeriodLength * d >= 0
    BY <1>1
  <2>4. QED
    BY <1>1, <1>3, <2>2, <2>3
<1>5. p <= q
  BY <1>1, <1>2, <1>3, <1>4
<1>6. QED
  BY <1>5 DEF p, q, m, n, PeriodOf

LEMMA HeadPeriod ==
  ASSUME NEW h \in 1 .. MaxBlock
  PROVE  PeriodOf(h) \in Periods
BY PeriodIsPositive, PeriodsGoOn, ConstantsAssumption DEF ConstantsAssumption, Periods

-----------------------------------------------------------------------------
(* What the worker may do with a result.                                   *)
LEMMA ResultFields ==
  ASSUME NEW r, IsResult(r)
  PROVE  /\ r # None /\ r # Live
         /\ r.period \in Periods /\ r.blocks \in Nat
         /\ DOMAIN r.count \in SUBSET Collators /\ r.count \in [DOMAIN r.count -> Nat]
<1>1. r # None /\ r # Live
  BY ConstantsAssumption DEF ConstantsAssumption
<1>2. PICK cs \in SUBSET Collators : r \in Results(cs)
  BY DEF IsResult
<1>3. QED
  BY <1>1, <1>2 DEF Results

LEMMA Crediting ==
  ASSUME NEW r, IsResult(r), NEW c
  PROVE  LET n == [r EXCEPT !.count[c] = @ + 1]
         IN  /\ IsResult(n) /\ n.period = r.period /\ n.blocks = r.blocks
             /\ DOMAIN n.count = DOMAIN r.count
<1>1. PICK cs \in SUBSET Collators : r \in Results(cs)
  BY DEF IsResult
<1> DEFINE n == [r EXCEPT !.count[c] = @ + 1]
<1>2. n = [period |-> r.period, blocks |-> r.blocks, seen |-> r.seen,
           count |-> [r.count EXCEPT ![c] = r.count[c] + 1]]
  BY <1>1 DEF Results
<1>3. r.count \in [cs -> Nat]
  BY <1>1 DEF Results
<1>4. [r.count EXCEPT ![c] = r.count[c] + 1] \in [cs -> Nat]
  <2> DEFINE f == r.count
  <2>1. f \in [cs -> Nat]
    BY <1>3
  <2> HIDE DEF f
  <2>2. c \in cs => f[c] + 1 \in Nat
    BY <2>1
  <2>3. [f EXCEPT ![c] = f[c] + 1] \in [cs -> Nat]
    BY <2>1, <2>2
  <2>4. QED
    BY <2>3 DEF f
<1>5. n \in Results(cs)
  BY <1>1, <1>2, <1>4 DEF Results
<1>6. QED
  BY <1>2, <1>3, <1>4, <1>5 DEF IsResult

LEMMA Looking ==
  ASSUME NEW r, IsResult(r), NEW c \in Collators
  PROVE  LET n == [r EXCEPT !.seen = @ \cup {c}]
         IN  IsResult(n) /\ n.period = r.period /\ n.blocks = r.blocks /\ n.count = r.count
<1>1. PICK cs \in SUBSET Collators : r \in Results(cs)
  BY DEF IsResult
<1> DEFINE n == [r EXCEPT !.seen = @ \cup {c}]
<1>2. n = [period |-> r.period, blocks |-> r.blocks, seen |-> r.seen \cup {c}, count |-> r.count]
  BY <1>1 DEF Results
<1>3. n \in Results(cs)
  BY <1>1, <1>2 DEF Results
<1>4. QED
  BY <1>2, <1>3 DEF IsResult

LEMMA Counting ==
  ASSUME NEW r, IsResult(r), NEW m \in Nat
  PROVE  LET n == [r EXCEPT !.blocks = m]
         IN  IsResult(n) /\ n.period = r.period /\ n.blocks = m /\ n.count = r.count
<1>1. PICK cs \in SUBSET Collators : r \in Results(cs)
  BY DEF IsResult
<1> DEFINE n == [r EXCEPT !.blocks = m]
<1>2. n = [period |-> r.period, blocks |-> m, seen |-> r.seen, count |-> r.count]
  BY <1>1 DEF Results
<1>3. n \in Results(cs)
  BY <1>1, <1>2 DEF Results
<1>4. QED
  BY <1>2, <1>3 DEF IsResult

Entered(r, c, m) ==
  [r EXCEPT !.count = [x \in DOMAIN @ \cup {c} |-> IF x = c THEN m ELSE @[x]]]

LEMMA Entering ==
  ASSUME NEW r, IsResult(r), NEW c \in Collators, NEW m \in Nat
  PROVE  /\ IsResult(Entered(r, c, m))
         /\ Entered(r, c, m).period = r.period /\ Entered(r, c, m).blocks = r.blocks
         /\ Entered(r, c, m).count = [x \in DOMAIN r.count \cup {c} |-> IF x = c THEN m ELSE r.count[x]]
<1>1. PICK cs \in SUBSET Collators : r \in Results(cs)
  BY DEF IsResult
<1> DEFINE entered == [x \in DOMAIN r.count \cup {c} |-> IF x = c THEN m ELSE r.count[x]]
<1>2. Entered(r, c, m) = [period |-> r.period, blocks |-> r.blocks, seen |-> r.seen, count |-> entered]
  BY <1>1 DEF Results, Entered
<1>3. r.count \in [cs -> Nat]
  BY <1>1 DEF Results
<1>4. entered \in [cs \cup {c} -> Nat]
  BY <1>3
<1>5. Entered(r, c, m) \in Results(cs \cup {c})
  BY <1>1, <1>2, <1>4 DEF Results
<1>6. QED
  BY <1>2, <1>5 DEF IsResult

LEMMA Starting ==
  ASSUME NEW cs \in SUBSET Collators, current \in Periods
  PROVE  /\ IsResult(NewResult(cs)) /\ NewResult(cs).blocks = 0 /\ NewResult(cs).period = current
         /\ DOMAIN NewResult(cs).count = IF exporter = "acala" THEN {} ELSE cs
<1> DEFINE ds == IF exporter = "acala" THEN {} ELSE cs
<1>1. NewResult(cs) = [period |-> current, blocks |-> 0, seen |-> {}, count |-> [c \in ds |-> 0]]
  BY DEF NewResult
<1>2. [c \in ds |-> 0] \in [ds -> Nat] /\ ds \in SUBSET Collators
  OBVIOUS
<1>3. NewResult(cs) \in Results(ds)
  BY <1>1, <1>2 DEF Results
<1>4. QED
  BY <1>1, <1>2, <1>3 DEF IsResult

LEMMA PointsAreCounts ==
  ASSUME NEW c, head \in Nat
  PROVE  SessionPoints(c) \in Nat
<1> DEFINE made == {b \in {h \in 1 .. head : PeriodOf(h) = PeriodOf(head)} : authors[b] = c}
<1>1. made \in SUBSET (1 .. head) /\ IsFiniteSet(1 .. head)
  BY FS_Interval
<1>2. IsFiniteSet(made)
  BY <1>1, FS_Subset
<1>3. QED
  BY <1>2, FS_CardinalityType DEF SessionPoints, AuthoredIn

-----------------------------------------------------------------------------
(* The types, and what of them depends on where the worker and the scrape  *)
(* are.                                                                    *)
ChainOK ==
  /\ exporter \in {"moonbeam", "astar", "acala"}
  /\ authors \in Seq(Collators)
  /\ head \in 1 .. MaxBlock
  /\ failures \in 0 .. MaxFailures

PassOK ==
  /\ pc \in {"period", "active", "head", "author", "round", "number", "collator", "clear", "append"}
  /\ {period, current} \subseteq {0} \cup Periods
  /\ pc # "period" => current \in Periods
  /\ {block, last_block} \subseteq 0 .. head
  /\ active_collators \in Seq(Collators)
  /\ i \in 1 .. Len(active_collators) + 1
  /\ IF pc = "collator" THEN i <= Len(active_collators) ELSE i = 1

ResultOK ==
  /\ since \in 0 .. head
  /\ result # None => IsResult(result) /\ active_collators # <<>>
  /\ result = None => period = 0 /\ pc \in {"period", "active"} /\ q_metrics = None /\ view = None

ScrapeOK ==
  /\ \A r \in {q_metrics, view} \ {None, Live} : IsResult(r)
  /\ spc \in {"idle", "get", "period", "counts"}
  /\ spc \in {"period", "counts"} => view # None
  /\ label \in {0} \cup Periods
  /\ spc = "counts" => label \in Periods
  /\ page # None => page.period \in Periods /\ \E cs \in SUBSET Collators : page.count \in [cs -> Nat]

TypeInv == ChainOK /\ PassOK /\ ResultOK /\ ScrapeOK

LEMMA ShownIsResult ==
  ASSUME TypeInv, NEW ref \in {q_metrics, view}, ref # None
  PROVE  IsResult(Shown(ref))
BY DEF TypeInv, ResultOK, ScrapeOK, Shown

LEMMA AuthorTypes ==
  ASSUME TypeInv, NEW c \in Collators, Author(c)
  PROVE  TypeInv'
<1>1. authors' \in Seq(Collators) /\ head' = head + 1 /\ head + 1 \in 1 .. MaxBlock
  BY ConstantsAssumption DEF ConstantsAssumption, TypeInv, ChainOK, Author, head
<1>2. ChainOK'
  BY <1>1 DEF TypeInv, ChainOK, Author
<1>3. PassOK'
  BY <1>1 DEF TypeInv, ChainOK, PassOK, Author, passVars
<1>4. ResultOK'
  BY <1>1 DEF TypeInv, ChainOK, ResultOK, Author, passVars, resultVars, scrapeVars
<1>5. ScrapeOK'
  BY DEF TypeInv, ScrapeOK, Author, scrapeVars
<1>6. QED
  BY <1>2, <1>3, <1>4, <1>5 DEF TypeInv

(* Steps that leave result and the scrape alone.                           *)
LEMMA QuietTypes ==
  ASSUME TypeInv, UNCHANGED <<chainVars, resultVars, scrapeVars, q_metrics>>,
         ReadPeriod \/ ReadHead \/ Fail
  PROVE  TypeInv'
<1>1. head' = head
  BY DEF chainVars, head
<1>2. PeriodOf(head) \in Periods /\ PeriodOf(head) # 0
  BY HeadPeriod, PeriodIsPositive DEF TypeInv, ChainOK
<1>3. ChainOK'
  <2>1. failures' \in 0 .. MaxFailures
    BY ConstantsAssumption
       DEF ConstantsAssumption, TypeInv, ChainOK, ReadPeriod, ReadHead, Fail, Leaves
  <2>2. QED
    BY <1>1, <2>1 DEF TypeInv, ChainOK, chainVars
<1>4. PassOK' /\ (result = None => period' = 0 /\ pc' \in {"period", "active"})
  <2>1. CASE ReadPeriod
    BY <1>1, <1>2, <2>1 DEF TypeInv, PassOK, ResultOK, ReadPeriod, Step, IsNew
  <2>2. CASE ReadHead
    BY <1>1, <2>2 DEF TypeInv, ChainOK, PassOK, ResultOK, ReadHead, Step, NextPass
  <2>3. CASE Fail
    BY <1>1, <2>3 DEF TypeInv, ChainOK, PassOK, ResultOK, Fail, NextPass
  <2>4. QED
    BY <2>1, <2>2, <2>3
<1>5. active_collators' = active_collators
  BY DEF ReadPeriod, ReadHead, Fail, NextPass
<1>6. ResultOK'
  BY <1>1, <1>4, <1>5 DEF TypeInv, ResultOK, resultVars, scrapeVars
<1>7. ScrapeOK'
  BY DEF TypeInv, ScrapeOK, scrapeVars
<1>8. QED
  BY <1>3, <1>4, <1>6, <1>7 DEF TypeInv

LEMMA ActiveTypes ==
  ASSUME TypeInv, ReadActive
  PROVE  TypeInv'
<1> DEFINE cs == Range(active_collators')
<1>1. head' = head /\ UNCHANGED <<chainVars, failures>>
  BY DEF ReadActive, Leaves, chainVars, head
<1>2. active_collators' \in Seq(Collators) \ {<<>>}
  BY HeadPeriod, ConstantsAssumption DEF ConstantsAssumption, TypeInv, ChainOK, ReadActive
<1>3. cs \in SUBSET Collators
  BY <1>2 DEF Range
<1>4. current \in Periods
  BY DEF TypeInv, PassOK, ReadActive, Step
<1>5. IsResult(result')
  <2>1. result' = NewResult(cs)
    BY DEF ReadActive
  <2>2. QED
    BY <1>3, <1>4, <2>1, Starting
<1>6. ChainOK'
  BY <1>1 DEF TypeInv, ChainOK, chainVars
<1>7. PassOK'
  BY <1>1, <1>2, <1>4 DEF TypeInv, ChainOK, PassOK, ReadActive, Step
<1>8. result' # None
  BY <1>5, ResultFields
<1>9. ResultOK'
  BY <1>1, <1>2, <1>5, <1>8 DEF TypeInv, ChainOK, ResultOK, ReadActive
<1>10. ASSUME NEW ref \in {q_metrics, view}, ref = None PROVE Shown(ref) = None
  BY <1>10, ConstantsAssumption DEF ConstantsAssumption, Shown
<1>11. \A ref \in {q_metrics', view'} \ {None} : IsResult(ref)
  BY <1>10, ShownIsResult DEF ReadActive
<1>12. view # None => view' # None
  BY <1>11, ShownIsResult, ResultFields DEF ReadActive
<1>13. ScrapeOK'
  BY <1>11, <1>12 DEF TypeInv, ScrapeOK, ReadActive, Leaves
<1>14. QED
  BY <1>6, <1>7, <1>9, <1>13 DEF TypeInv

(* Steps that put one more thing into the result.                          *)
LEMMA EnteringTypes ==
  ASSUME TypeInv, ReadAuthor \/ ReadProgress \/ ReadAuthored \/ ReadPoints
  PROVE  TypeInv' /\ IsResult(result) /\ IsResult(result')
<1>1. UNCHANGED <<chainVars, failures, spc, label, page, view, q_metrics, since>> /\ head' = head
  BY DEF ReadAuthor, ReadProgress, ReadAuthored, ReadPoints, Leaves, chainVars, head
<1>2. IsResult(result) /\ active_collators # <<>>
  BY DEF TypeInv, ResultOK, ReadAuthor, ReadProgress, ReadAuthored, ReadPoints, Step
<1>3. ChainOK'
  BY <1>1 DEF TypeInv, ChainOK, chainVars
<1>4. PassOK' /\ active_collators' = active_collators
  <2>1. CASE ReadAuthor \/ ReadProgress
    BY <1>1, <2>1 DEF TypeInv, ChainOK, PassOK, ReadAuthor, ReadProgress, Step, passVars
  <2>2. CASE ReadAuthored \/ ReadPoints
    <3>1. NextCollator /\ pc = "collator"
          /\ UNCHANGED <<period, block, current, last_block, active_collators>>
      BY <2>2 DEF ReadAuthored, ReadPoints
    <3>2. Len(active_collators) \in Nat \ {0}
      BY <1>2 DEF TypeInv, PassOK
    <3>3. /\ pc' \in {"collator", "clear"}
          /\ i' \in 1 .. Len(active_collators) + 1
          /\ IF pc' = "collator" THEN i' <= Len(active_collators) ELSE i' = 1
      BY <3>1, <3>2 DEF TypeInv, PassOK, NextCollator
    <3>4. QED
      BY <1>1, <3>1, <3>3 DEF TypeInv, ChainOK, PassOK
  <2>3. QED
    BY <2>1, <2>2
<1>5. pc = "collator" => active_collators[i] \in Collators
  BY DEF TypeInv, PassOK
<1>6. IsResult(result')
  <2>1. CASE ReadAuthor
    BY <1>2, <2>1, Crediting DEF ReadAuthor, Credit
  <2>2. CASE ReadProgress
    <3>1. result.blocks + 1 \in Nat
      BY <1>2, ResultFields
    <3>2. IsResult([result EXCEPT !.blocks = result.blocks + 1])
      BY <1>2, <3>1, Counting
    <3>3. QED
      BY <1>2, <2>2, <3>2 DEF ReadProgress
  <2>3. CASE ReadAuthored
    <3> DEFINE c == active_collators[i]
               looked == [result EXCEPT !.seen = @ \cup {c}]
               credited == IF c \in result.seen /\ LastAuthoredBlock(c) = last_block
                           THEN Credit(c) ELSE looked
    <3>1. c \in Collators
      BY <1>5, <2>3 DEF ReadAuthored
    <3>2. IsResult(looked) /\ IsResult(Credit(c))
      BY <1>2, <3>1, Looking, Crediting DEF Credit
    <3>3. IsResult(credited)
      BY <3>2
    <3>4. result' = [credited EXCEPT !.blocks = IF i = Len(active_collators) THEN @ + 1 ELSE @]
      BY <2>3 DEF ReadAuthored
    <3> HIDE DEF credited
    <3>5. (IF i = Len(active_collators) THEN credited.blocks + 1 ELSE credited.blocks) \in Nat
      BY <3>3, ResultFields
    <3>6. QED
      BY <3>3, <3>4, <3>5, Counting
  <2>4. CASE ReadPoints
    <3>1. active_collators[i] \in Collators
      BY <1>5, <2>4 DEF ReadPoints
    <3>2. SessionPoints(active_collators[i]) \in Nat
      BY PointsAreCounts DEF TypeInv, ChainOK
    <3>3. result' = Entered(result, active_collators[i], SessionPoints(active_collators[i]))
      BY <2>4 DEF ReadPoints, Entered
    <3>4. QED
      BY <1>2, <3>1, <3>2, <3>3, Entering
  <2>5. QED
    BY <2>1, <2>2, <2>3, <2>4
<1>7. result' # None
  BY <1>6, ResultFields
<1>8. ResultOK'
  BY <1>1, <1>2, <1>4, <1>6, <1>7 DEF TypeInv, ResultOK
<1>9. ScrapeOK'
  BY <1>1 DEF TypeInv, ScrapeOK
<1>10. QED
  BY <1>2, <1>3, <1>4, <1>6, <1>8, <1>9 DEF TypeInv

LEMMA PublishingTypes ==
  ASSUME TypeInv, Clear \/ Publish
  PROVE  TypeInv'
<1>1. head' = head /\ UNCHANGED <<chainVars, failures>>
  BY DEF Clear, Publish, Leaves, chainVars, head
<1>2. ChainOK'
  BY <1>1 DEF TypeInv, ChainOK, chainVars
<1>3. PassOK'
  BY <1>1 DEF TypeInv, ChainOK, PassOK, Clear, Publish, Step, passVars, NextPass
<1>4. ResultOK'
  BY <1>1 DEF TypeInv, ResultOK, Clear, Publish, Step, passVars, NextPass, resultVars
<1>5. ScrapeOK'
  BY DEF TypeInv, ScrapeOK, Clear, Publish, Leaves
<1>6. QED
  BY <1>2, <1>3, <1>4, <1>5 DEF TypeInv

LEMMA ScrapeTypes ==
  ASSUME TypeInv, Scrape
  PROVE  TypeInv'
<1>1. head' = head /\ UNCHANGED <<chainVars, pc, period, block, passVars, resultVars, q_metrics, failures>>
  BY DEF Scrape, chainVars, head
<1>2. ChainOK' /\ PassOK'
  BY <1>1 DEF TypeInv, ChainOK, PassOK, chainVars, passVars
<1>3. \/ ScrapeTest \/ ScrapePeriod \/ ScrapeCounts
      \/ \E from \in {"idle", "get"} : ScrapeGet(from)
  BY DEF Scrape, MoonbeamScrape, AstarScrape, AcalaScrape
<1>4. ScrapeOK' /\ (view' = view \/ view' = None \/ view' = q_metrics)
  <2>1. CASE ScrapeTest
    BY <1>1, <2>1 DEF TypeInv, ScrapeOK, ScrapeTest
  <2>2. CASE \E from \in {"idle", "get"} : ScrapeGet(from)
    BY <1>1, <2>2 DEF TypeInv, ScrapeOK, ScrapeGet
  <2>3. CASE ScrapePeriod
    <3>1. Shown(view).period \in Periods
      BY <2>3, ShownIsResult, ResultFields DEF TypeInv, ScrapeOK, ScrapePeriod
    <3>2. QED
      BY <1>1, <2>3, <3>1 DEF TypeInv, ScrapeOK, ScrapePeriod
  <2>4. CASE ScrapeCounts
    <3>1. /\ DOMAIN Shown(view).count \in SUBSET Collators
          /\ Shown(view).count \in [DOMAIN Shown(view).count -> Nat]
      BY <2>4, ShownIsResult, ResultFields DEF TypeInv, ScrapeOK, ScrapeCounts
    <3>2. page'.period = label /\ page'.count = Shown(view).count /\ label \in Periods
      BY <2>4 DEF TypeInv, ScrapeOK, ScrapeCounts
    <3>3. QED
      BY <1>1, <2>4, <3>1, <3>2 DEF TypeInv, ScrapeOK, ScrapeCounts
  <2>5. QED
    BY <1>3, <2>1, <2>2, <2>3, <2>4
<1>5. ResultOK'
  BY <1>1, <1>4 DEF TypeInv, ResultOK, passVars, resultVars
<1>6. QED
  BY <1>2, <1>4, <1>5 DEF TypeInv

LEMMA TypeStep == TypeInv /\ [Next]_vars => TypeInv'
<1> SUFFICES ASSUME TypeInv, [Next]_vars PROVE TypeInv'
  OBVIOUS
<1>1. CASE \E c \in Collators : Author(c)
  BY <1>1, AuthorTypes
<1>2. CASE ReadPeriod \/ ReadHead \/ Fail
  BY <1>2, QuietTypes DEF ReadPeriod, ReadHead, Fail, Leaves, scrapeVars
<1>3. CASE ReadActive
  BY <1>3, ActiveTypes
<1>4. CASE ReadAuthor \/ ReadProgress \/ ReadAuthored \/ ReadPoints
  BY <1>4, EnteringTypes
<1>5. CASE Clear \/ Publish
  BY <1>5, PublishingTypes
<1>6. CASE Scrape
  BY <1>6, ScrapeTypes
<1>7. CASE UNCHANGED vars
  <2>1. ChainOK' /\ PassOK'
    BY <1>7 DEF vars, chainVars, passVars, head, TypeInv, ChainOK, PassOK
  <2>2. ResultOK'
    <3>1. UNCHANGED <<authors, pc, period, active_collators, result, since, q_metrics, view>>
      BY <1>7 DEF vars, chainVars, passVars, resultVars, scrapeVars
    <3>2. ResultOK
      BY DEF TypeInv
    <3>3. QED
      BY <3>1, <3>2 DEF head, ResultOK
  <2>3. ScrapeOK'
    BY <1>7 DEF vars, scrapeVars, TypeInv, ScrapeOK
  <2>4. QED
    BY <2>1, <2>2, <2>3 DEF TypeInv
<1>8. QED
  BY <1>1, <1>2, <1>3, <1>4, <1>5, <1>6, <1>7 DEF Next, Main, Moonbeam, Astar, Acala

LEMMA TypeInvariantInit == Init => TypeInv
<1> SUFFICES ASSUME Init PROVE TypeInv
  OBVIOUS
<1>1. Active[1] \in Seq(Collators)
  BY HeadPeriod, PeriodIsPositive, ConstantsAssumption DEF ConstantsAssumption, Periods
<1>2. Range(Active[1]) \subseteq Collators
  BY <1>1 DEF Range
<1>3. authors \in [1 .. 1 -> Collators] /\ authors \in Seq(Collators) /\ head = 1
  <2>1. authors \in [1 .. 1 -> Collators]
    BY <1>2 DEF Init
  <2>2. authors \in Seq(Collators)
    BY <2>1, SeqDef
  <2>3. Len(authors) = 1
    BY <2>1, <2>2, LenProperties
  <2>4. QED
    BY <2>1, <2>2, <2>3 DEF head
<1>4. ChainOK
  BY <1>3, ConstantsAssumption DEF ConstantsAssumption, Init, ChainOK
<1>5. PassOK
  BY <1>3 DEF Init, PassOK
<1>6. ResultOK /\ ScrapeOK
  BY <1>3 DEF Init, ResultOK, ScrapeOK
<1>7. QED
  BY <1>4, <1>5, <1>6 DEF TypeInv

LEMMA TypeInvariant == Spec => []TypeInv
BY TypeInvariantInit, TypeStep, PTL DEF Spec

(* The types hold for any chain, however many collators and periods it has *)
(* and however often requests fail.                                        *)
THEOREM Typing == Spec => []TypeOK
<1>1. TypeInv => TypeOK
  <2> SUFFICES ASSUME TypeInv PROVE TypeOK
    OBVIOUS
  <2>1. result # Live
    BY ResultFields, ConstantsAssumption DEF ConstantsAssumption, TypeInv, ResultOK
  <2>2. {block, last_block, since} \subseteq 0 .. MaxBlock
    BY ConstantsAssumption DEF ConstantsAssumption, TypeInv, ChainOK, PassOK, ResultOK
  <2>3. \A r \in {result, q_metrics, view} \ {None, Live} : IsResult(r)
    BY DEF TypeInv, ResultOK, ScrapeOK
  <2>4. QED
    BY <2>1, <2>2, <2>3 DEF TypeInv, TypeOK, ChainOK, PassOK, ResultOK, ScrapeOK
<1>2. QED
  BY <1>1, TypeInvariant, PTL

-----------------------------------------------------------------------------
(* Blocks are counted on the way from a head to the next.                  *)
UpTo(m) == IF since > m THEN 0 ELSE m - since + 1

PlaceInv ==
  /\ pc \in {"period", "active", "head"} => last_block = 0
  /\ exporter = "acala" =>
       /\ pc \notin {"head", "author", "round", "number"}
       /\ result # None => result.blocks = 0
  /\ exporter # "acala" /\ pc \in {"author", "round", "number", "collator", "clear", "append"} =>
       block < last_block /\ since <= last_block

CountInv ==
  /\ PlaceInv
  /\ result # None => result.blocks <= UpTo(IF pc \in {"clear", "append"} THEN last_block ELSE block)

LEMMA CountStep == TypeInv /\ CountInv /\ [Next]_vars => CountInv'
<1> SUFFICES ASSUME TypeInv, CountInv, [Next]_vars PROVE CountInv'
  OBVIOUS
<1> USE DEF CountInv, PlaceInv, UpTo, Step, Leaves, chainVars, resultVars, scrapeVars, passVars
<1>1. /\ {block, last_block, since} \subseteq Nat /\ head \in Nat
      /\ block <= head /\ last_block <= head /\ since <= head
      /\ result # None => result.blocks \in Nat
      /\ pc \notin {"period", "active"} => result # None
  BY ResultFields DEF TypeInv, ChainOK, PassOK, ResultOK
<1>2. CASE \E c \in Collators : Author(c)
  BY <1>1, <1>2 DEF Author
<1>3. CASE ReadPeriod
  BY <1>1, <1>3 DEF ReadPeriod
<1>4. CASE ReadActive
  <2>1. active_collators' \in Seq(Collators)
    BY <1>4, TypeStep DEF TypeInv, PassOK
  <2>2. Range(active_collators') \in SUBSET Collators /\ current \in Periods
    BY <1>4, <2>1 DEF Range, TypeInv, PassOK, ReadActive
  <2>3. NewResult(Range(active_collators')).blocks = 0
    BY <2>2, Starting
  <2>4. result'.blocks = 0
    BY <1>4, <2>3 DEF ReadActive
  <2>5. since' = head /\ UNCHANGED <<block, last_block, exporter>> /\ pc' \in {"collator", "head"}
        /\ (exporter = "acala" <=> pc' = "collator") /\ pc = "active"
    BY <1>4 DEF ReadActive
  <2>6. QED
    BY <1>1, <2>4, <2>5
<1>5. CASE ReadHead
  BY <1>1, <1>5 DEF ReadHead, NextPass, TypeInv, ChainOK
<1>6. CASE ReadAuthor
  <2>1. result'.blocks = result.blocks
    BY <1>1, <1>6, Crediting DEF ReadAuthor, Credit, TypeInv, ResultOK
  <2>2. QED
    BY <1>1, <1>6, <2>1 DEF ReadAuthor
<1>7. CASE ReadProgress
  <2>1. CASE Step("round", "number") /\ UNCHANGED result
    BY <1>1, <1>7, <2>1 DEF ReadProgress
  <2>2. CASE Step("number", "clear") /\ result' = [result EXCEPT !.blocks = @ + 1]
    <3>1. result.blocks + 1 \in Nat /\ IsResult(result)
      BY <1>1, <2>2 DEF TypeInv, ResultOK
    <3>2. result'.blocks = result.blocks + 1
      BY <2>2, <3>1, Counting
    <3>3. QED
      BY <1>1, <1>7, <2>2, <3>2 DEF ReadProgress
  <2>3. QED
    BY <1>7, <2>1, <2>2 DEF ReadProgress
<1>8. CASE exporter = "astar" /\ ReadAuthored
  <2>1. result'.blocks = IF i = Len(active_collators) THEN result.blocks + 1 ELSE result.blocks
    <3> DEFINE c == active_collators[i]
               looked == [result EXCEPT !.seen = @ \cup {c}]
               credited == IF c \in result.seen /\ LastAuthoredBlock(c) = last_block
                           THEN Credit(c) ELSE looked
    <3>1. c \in Collators /\ IsResult(result)
      BY <1>1, <1>8 DEF TypeInv, PassOK, ResultOK, ReadAuthored
    <3>2. IsResult(looked) /\ looked.blocks = result.blocks
      BY <3>1, Looking
    <3>3. IsResult(Credit(c)) /\ Credit(c).blocks = result.blocks
      BY <3>1, Crediting DEF Credit
    <3>4. IsResult(credited) /\ credited.blocks = result.blocks
      BY <3>2, <3>3
    <3>5. result' = [credited EXCEPT !.blocks = IF i = Len(active_collators) THEN @ + 1 ELSE @]
      BY <1>8 DEF ReadAuthored
    <3> HIDE DEF credited
    <3>6. (IF i = Len(active_collators) THEN credited.blocks + 1 ELSE credited.blocks) \in Nat
      BY <3>4, ResultFields
    <3>7. QED
      BY <3>4, <3>5, <3>6, Counting
  <2>2. /\ pc' = IF i = Len(active_collators) THEN "clear" ELSE "collator"
        /\ pc = "collator"
        /\ UNCHANGED <<block, last_block, since, exporter>>
    BY <1>8 DEF ReadAuthored, NextCollator, TypeInv, PassOK
  <2>3. QED
    BY <1>1, <1>8, <2>1, <2>2
<1>9. CASE exporter = "acala" /\ ReadPoints
  <2>1. active_collators[i] \in Collators /\ IsResult(result)
    BY <1>1, <1>9 DEF TypeInv, PassOK, ResultOK, ReadPoints
  <2>2. SessionPoints(active_collators[i]) \in Nat
    BY <1>1, PointsAreCounts
  <2>3. result' = Entered(result, active_collators[i], SessionPoints(active_collators[i]))
    BY <1>9 DEF ReadPoints, Entered
  <2>4. result'.blocks = result.blocks
    BY <2>1, <2>2, <2>3, Entering
  <2>5. /\ pc' \in {"clear", "collator"} /\ pc = "collator"
        /\ UNCHANGED <<block, last_block, since, exporter>>
    BY <1>9 DEF ReadPoints, NextCollator
  <2>6. QED
    BY <1>1, <1>9, <2>4, <2>5
<1>10. CASE Clear \/ Publish
  BY <1>1, <1>10 DEF Clear, Publish, NextPass
<1>11. CASE Fail
  BY <1>1, <1>11 DEF Fail, NextPass
<1>12. CASE Scrape \/ UNCHANGED vars
  BY <1>1, <1>12 DEF Scrape, vars
<1>13. QED
  BY <1>2, <1>3, <1>4, <1>5, <1>6, <1>7, <1>8, <1>9, <1>10, <1>11, <1>12
     DEF Next, Main, Moonbeam, Astar, Acala

LEMMA CountInvariant == Spec => []CountInv
<1>1. Init => CountInv
  BY DEF Init, CountInv, PlaceInv
<1>2. QED
  BY <1>1, CountStep, TypeInvariant, PTL DEF Spec

(* However often requests fail in the middle of a pass, and however many   *)
(* passes it takes: a period does not get more blocks than there were      *)
(* heads since its result was started.                                     *)
THEOREM BlocksCountOnce == Spec => []BlocksAreDistinct
<1>1. TypeInv /\ CountInv => BlocksAreDistinct
  <2> SUFFICES ASSUME TypeInv, CountInv, result # None
               PROVE  result.blocks <= Cardinality({b \in since .. head : b <= Max({block, last_block})})
    BY DEF BlocksAreDistinct
  <2> DEFINE m == Max({block, last_block})
  <2>1. /\ {block, last_block, since} \subseteq Nat /\ head \in Nat
        /\ block <= head /\ last_block <= head
    BY DEF TypeInv, ChainOK, PassOK, ResultOK
  <2>2. m \in Nat /\ m <= head /\ block <= m /\ last_block <= m
    BY <2>1, MaxOfTwo
  <2> HIDE DEF m
  <2>3. Cardinality({b \in since .. head : b <= m}) = UpTo(m)
    <3>1. since \in Nat /\ head \in Nat /\ m \in Nat /\ m <= head
      BY <2>1, <2>2
    <3>2. /\ {b \in since .. head : b <= m} = since .. m
          /\ Cardinality(since .. m) = IF since > m THEN 0 ELSE m - since + 1
      BY <3>1, BlocksUpTo
    <3>3. QED
      BY <3>2 DEF UpTo
  <2>4. result.blocks <= UpTo(m)
    BY <2>1, <2>2, ResultFields DEF TypeInv, ResultOK, CountInv, UpTo
  <2>5. QED
    BY <2>3, <2>4 DEF m
<1>2. QED
  BY <1>1, TypeInvariant, CountInvariant, PTL

-----------------------------------------------------------------------------
(* A result that is not whole is not published: acala is at it, or it will *)
(* be given up, for its period is not remembered.                          *)
Gathered ==
  /\ exporter = "acala" /\ pc = "collator"
  /\ period < PeriodOf(head)
  /\ DOMAIN result.count = {active_collators[j] : j \in 1 .. i - 1}

Dropped == pc \in {"period", "active"} /\ period < PeriodOf(head)

Hidden == Live \notin {q_metrics, view}

PeriodInv ==
  /\ period <= PeriodOf(head) /\ current <= PeriodOf(head)
  /\ pc = "active" => period < PeriodOf(head)

LiveInv ==
  result # None =>
    /\ PeriodOf(since) \in Periods /\ active_collators = Active[PeriodOf(since)]
    /\ result.period <= PeriodOf(since)
    /\ DOMAIN result.count = Range(active_collators) \/ ((Gathered \/ Dropped) /\ Hidden)

Listing(r, p) == DOMAIN r.count = Range(Active[p]) /\ p >= r.period

OldInv == \A r \in {q_metrics, view} \ {None, Live} : \E p \in Periods : Listing(r, p)

WholeInv == PeriodInv /\ LiveInv /\ OldInv

LEMMA ShownIsWhole ==
  ASSUME TypeInv, WholeInv, NEW ref \in {q_metrics, view}, ref # None
  PROVE  \E p \in Periods : Listing(Shown(ref), p) /\ (ref = Live => p = PeriodOf(since))
<1>1. CASE ref = Live
  <2>1. result # None /\ Shown(ref) = result
    BY <1>1 DEF Shown, TypeInv, ResultOK
  <2>2. PeriodOf(since) \in Nat /\ result.period \in Nat
    BY <2>1, ResultFields DEF WholeInv, LiveInv, TypeInv, ResultOK, Periods
  <2>3. Listing(result, PeriodOf(since))
    BY <1>1, <2>1, <2>2 DEF WholeInv, LiveInv, Hidden, Listing
  <2>4. QED
    BY <2>1, <2>3 DEF WholeInv, LiveInv
<1>2. CASE ref # Live
  BY <1>2 DEF WholeInv, OldInv, Shown
<1>3. QED
  BY <1>1, <1>2

LEMMA PeriodStep == TypeInv /\ PeriodInv /\ [Next]_vars => PeriodInv' /\ PeriodOf(head) <= PeriodOf(head')
<1> SUFFICES ASSUME TypeInv, PeriodInv, [Next]_vars
             PROVE  PeriodInv' /\ PeriodOf(head) <= PeriodOf(head')
  OBVIOUS
<1> USE DEF PeriodInv, Step, Leaves, chainVars, NextPass
<1>1. head \in Nat \ {0} /\ PeriodOf(head) \in Nat \ {0} /\ {period, current} \subseteq Nat
  <2>1. head \in 1 .. MaxBlock
    BY DEF TypeInv, ChainOK
  <2>2. {period, current} \subseteq {0} \cup Periods
    BY DEF TypeInv, PassOK
  <2>3. QED
    BY <2>1, <2>2, PeriodIsPositive DEF Periods
<1>2. CASE \E c \in Collators : Author(c)
  <2>1. head' = head + 1 /\ UNCHANGED <<pc, period, current>>
    BY <1>2 DEF Author, passVars, head, TypeInv, ChainOK
  <2>2. PeriodOf(head') \in Nat /\ PeriodOf(head) <= PeriodOf(head')
    BY <1>1, <2>1, PeriodIsPositive, PeriodsGoOn
  <2>3. QED
    BY <1>1, <2>1, <2>2
<1>3. ASSUME UNCHANGED authors PROVE PeriodOf(head') = PeriodOf(head)
  BY <1>3 DEF head
<1>4. CASE ReadPeriod
  BY <1>1, <1>3, <1>4 DEF ReadPeriod, IsNew
<1>5. CASE ReadActive \/ ReadHead
  BY <1>1, <1>3, <1>5 DEF ReadActive, ReadHead
<1>6. CASE ReadAuthor \/ ReadProgress \/ ReadAuthored \/ ReadPoints
  BY <1>1, <1>3, <1>6 DEF ReadAuthor, ReadProgress, ReadAuthored, ReadPoints, NextCollator, passVars
<1>7. CASE Clear \/ Publish \/ Fail
  BY <1>1, <1>3, <1>7 DEF Clear, Publish, Fail, passVars
<1>8. CASE Scrape \/ UNCHANGED vars
  BY <1>1, <1>3, <1>8 DEF Scrape, vars, passVars
<1>9. QED
  BY <1>2, <1>4, <1>5, <1>6, <1>7, <1>8 DEF Next, Main, Moonbeam, Astar, Acala

(* Steps that keep the collators of the result.                            *)
LEMMA SameCollators ==
  ASSUME TypeInv, WholeInv, PeriodInv', UNCHANGED <<active_collators, since>>,
         \/ UNCHANGED result
         \/ result # None /\ DOMAIN result'.count = DOMAIN result.count /\ result'.period = result.period,
         {q_metrics', view'} \subseteq {q_metrics, view, None},
         (Gathered \/ Dropped) /\ result # None => (Gathered \/ Dropped)'
  PROVE  WholeInv'
<1>1. LiveInv'
  <2>1. CASE result = None
    BY <2>1 DEF WholeInv, LiveInv
  <2>2. CASE result # None
    <3>1. DOMAIN result'.count = DOMAIN result.count /\ result'.period = result.period
          /\ PeriodOf(since') = PeriodOf(since)
      OBVIOUS
    <3>2. Hidden => Hidden'
      BY ConstantsAssumption DEF ConstantsAssumption, Hidden
    <3>3. QED
      BY <2>2, <3>1, <3>2 DEF WholeInv, LiveInv
  <2>3. QED
    BY <2>1, <2>2
<1>2. OldInv'
  BY DEF WholeInv, OldInv
<1>3. QED
  BY <1>1, <1>2 DEF WholeInv

LEMMA ActiveIsWhole ==
  ASSUME TypeInv, WholeInv, PeriodInv', ReadActive
  PROVE  WholeInv'
<1> DEFINE cs == Range(active_collators')
<1>1. head' = head /\ pc = "active" /\ UNCHANGED <<exporter, period, i>>
  BY DEF ReadActive, Leaves, Step, chainVars, head
<1>2. PeriodOf(head) \in Periods /\ active_collators' = Active[PeriodOf(head)]
  BY HeadPeriod DEF TypeInv, ChainOK, ReadActive
<1>3. active_collators' \in Seq(Collators)
  BY <1>2, ConstantsAssumption DEF ConstantsAssumption
<1>4. cs \in SUBSET Collators /\ current \in Periods
  BY <1>1, <1>3 DEF Range, TypeInv, PassOK
<1>5. DOMAIN result'.count = IF exporter = "acala" THEN {} ELSE cs
  BY <1>4, Starting DEF ReadActive
<1>6. \A ref \in {q_metrics', view'} \ {None} : ref # Live /\ \E p \in Periods : Listing(ref, p)
  <2>1. q_metrics' = Shown(q_metrics) /\ view' = Shown(view)
    BY DEF ReadActive
  <2>2. ASSUME NEW ref \in {q_metrics, view}, Shown(ref) # None
        PROVE  Shown(ref) # Live /\ \E p \in Periods : Listing(Shown(ref), p)
    <3>1. ref # None
      BY <2>2, ConstantsAssumption DEF ConstantsAssumption, Shown
    <3>2. QED
      BY <3>1, ShownIsWhole, ShownIsResult, ResultFields
  <2>3. QED
    BY <2>1, <2>2
<1>7. Hidden'
  BY <1>6, ConstantsAssumption DEF ConstantsAssumption, Hidden
<1>8. exporter = "acala" => Gathered'
  <2>1. i = 1
    BY <1>1 DEF TypeInv, PassOK
  <2>2. {active_collators'[j] : j \in 1 .. i' - 1} = {}
    BY <1>1, <2>1
  <2>3. exporter = "acala" => pc' = "collator" /\ period < PeriodOf(head)
    BY <1>1 DEF ReadActive, Step, WholeInv, PeriodInv
  <2>4. QED
    BY <1>1, <1>5, <2>2, <2>3 DEF Gathered
<1>9. LiveInv'
  <2>1. since' = head /\ PeriodOf(since') = PeriodOf(head)
    BY DEF ReadActive
  <2>2. result'.period = current /\ current <= PeriodOf(head)
    BY <1>4, Starting DEF ReadActive, WholeInv, PeriodInv
  <2>3. QED
    BY <1>1, <1>2, <1>5, <1>7, <1>8, <2>1, <2>2 DEF LiveInv
<1>10. OldInv'
  BY <1>6 DEF OldInv
<1>11. QED
  BY <1>9, <1>10 DEF WholeInv

(* acala enters the next collator.                                         *)
LEMMA PointsAreWhole ==
  ASSUME TypeInv, WholeInv, PeriodInv', exporter = "acala", ReadPoints
  PROVE  WholeInv'
<1> DEFINE c == active_collators[i]
           Upto(n) == {active_collators[j] : j \in 1 .. n}
<1>1. /\ head' = head /\ pc = "collator" /\ result # None
      /\ UNCHANGED <<exporter, period, active_collators, q_metrics, view>>
      /\ NextCollator
  BY DEF ReadPoints, Leaves, chainVars, head, TypeInv, ResultOK
<1>2. active_collators \in Seq(Collators) /\ i \in 1 .. Len(active_collators) /\ c \in Collators
  BY <1>1 DEF TypeInv, PassOK
<1>3. Range(active_collators) = Upto(Len(active_collators))
  BY <1>2 DEF Range
<1>4. /\ DOMAIN result'.count = DOMAIN result.count \cup {c}
      /\ result'.period = result.period /\ PeriodOf(since') = PeriodOf(since)
  <2>1. PICK m \in Nat : m = SessionPoints(c)
    BY <1>1, PointsAreCounts DEF TypeInv, ChainOK
  <2>2. IsResult(result)
    BY <1>1 DEF TypeInv, ResultOK
  <2>3. result' = Entered(result, c, m)
    BY <2>1 DEF ReadPoints, Entered
  <2>4. \A d \in Collators : /\ Entered(result, d, m).count = [x \in DOMAIN result.count \cup {d} |->
                                                                IF x = d THEN m ELSE result.count[x]]
                             /\ Entered(result, d, m).period = result.period
    BY <2>2, Entering
  <2>5. since' = since
    BY DEF ReadPoints
  <2>6. QED
    BY <1>2, <2>3, <2>4, <2>5
<1>5. LiveInv'
  <2>0. /\ PeriodOf(since') \in Periods /\ active_collators' = Active[PeriodOf(since')]
        /\ result'.period <= PeriodOf(since')
    BY <1>1, <1>4 DEF WholeInv, LiveInv
  <2>1. CASE DOMAIN result.count = Range(active_collators)
    <3>1. DOMAIN result'.count = Range(active_collators)
      BY <1>2, <1>3, <1>4, <2>1
    <3>2. QED
      BY <1>1, <2>0, <3>1 DEF LiveInv
  <2>2. CASE Gathered /\ Hidden
    <3>1. Hidden'
      BY <1>1, <2>2 DEF Hidden
    <3>2. DOMAIN result'.count = Upto(i)
      <4>1. Upto(i) = Upto(i - 1) \cup {c}
        BY <1>2
      <4>2. QED
        BY <1>4, <2>2, <4>1 DEF Gathered
    <3>3. CASE i < Len(active_collators)
      <4>1. pc' = "collator" /\ i' - 1 = i
        BY <1>1, <1>2, <3>3 DEF NextCollator
      <4>2. {active_collators'[j] : j \in 1 .. i' - 1} = Upto(i)
        BY <1>1, <4>1
      <4>3. Gathered'
        BY <1>1, <2>2, <3>2, <4>1, <4>2 DEF Gathered
      <4>4. QED
        BY <1>1, <2>0, <3>1, <4>3 DEF LiveInv
    <3>4. CASE i = Len(active_collators)
      BY <1>1, <1>3, <2>0, <3>2, <3>4 DEF LiveInv
    <3>5. QED
      BY <1>2, <3>3, <3>4
  <2>3. QED
    BY <1>1, <2>1, <2>2 DEF WholeInv, LiveInv, Dropped
<1>6. OldInv'
  BY <1>1 DEF WholeInv, OldInv
<1>7. QED
  BY <1>5, <1>6 DEF WholeInv

LEMMA WholeStep == TypeInv /\ WholeInv /\ [Next]_vars => WholeInv'
<1> SUFFICES ASSUME TypeInv, WholeInv, [Next]_vars PROVE WholeInv'
  OBVIOUS
<1> USE DEF Step, Leaves, chainVars, passVars, resultVars, scrapeVars
<1>1. PeriodInv' /\ PeriodOf(head) <= PeriodOf(head') /\ PeriodOf(head) \in Nat
      /\ PeriodOf(head') \in Nat /\ period \in Nat
  <2>1. PeriodInv' /\ PeriodOf(head) <= PeriodOf(head')
    BY PeriodStep DEF WholeInv
  <2>2. head \in Nat \ {0} /\ period \in Nat
    BY DEF TypeInv, ChainOK, PassOK, Periods
  <2>3. TypeInv'
    BY TypeStep
  <2>4. head' \in Nat \ {0}
    BY <2>3 DEF TypeInv, ChainOK
  <2>5. QED
    BY <2>1, <2>2, <2>4, PeriodIsPositive
<1>2. /\ pc \notin {"period", "active"} => result # None
      /\ result # None => IsResult(result)
  BY DEF TypeInv, ResultOK
<1>3. CASE \E c \in Collators : Author(c)
  <2>1. Gathered \/ Dropped => (Gathered \/ Dropped)'
    BY <1>1, <1>3 DEF Author, Gathered, Dropped
  <2>2. QED
    BY <1>1, <1>3, <2>1, SameCollators DEF Author
<1>4. CASE ReadPeriod
  <2>1. head' = head
    BY <1>4 DEF ReadPeriod, head
  <2>2. Gathered \/ Dropped => (Gathered \/ Dropped)'
    BY <1>1, <1>4, <2>1 DEF ReadPeriod, IsNew, Gathered, Dropped
  <2>3. QED
    BY <1>1, <1>4, <2>2, SameCollators DEF ReadPeriod
<1>5. CASE ReadActive
  BY <1>1, <1>5, ActiveIsWhole
<1>6. CASE ReadHead
  <2>1. ~(Gathered \/ Dropped)
    BY <1>6 DEF ReadHead, Gathered, Dropped
  <2>2. QED
    BY <1>1, <1>6, <2>1, SameCollators DEF ReadHead, NextPass
<1>7. CASE ReadAuthor \/ ReadProgress
  <2>1. ~(Gathered \/ Dropped) /\ result # None /\ IsResult(result)
    BY <1>2, <1>7 DEF ReadAuthor, ReadProgress, Gathered, Dropped
  <2>2. DOMAIN result'.count = DOMAIN result.count /\ result'.period = result.period
    <3>1. CASE ReadAuthor
      BY <2>1, <3>1, Crediting DEF ReadAuthor, Credit
    <3>2. CASE ReadProgress
      <4>1. result.blocks + 1 \in Nat
        BY <2>1, ResultFields
      <4>2. LET n == [result EXCEPT !.blocks = result.blocks + 1]
            IN  n.count = result.count /\ n.period = result.period
        BY <2>1, <4>1, Counting
      <4>3. QED
        BY <3>2, <4>2 DEF ReadProgress
    <3>3. QED
      BY <1>7, <3>1, <3>2
  <2>3. QED
    BY <1>1, <1>7, <2>1, <2>2, SameCollators DEF ReadAuthor, ReadProgress
<1>8. CASE exporter = "astar" /\ ReadAuthored
  <2> DEFINE c == active_collators[i]
             looked == [result EXCEPT !.seen = @ \cup {c}]
             credited == IF c \in result.seen /\ LastAuthoredBlock(c) = last_block
                         THEN Credit(c) ELSE looked
  <2>1. ~(Gathered \/ Dropped) /\ result # None /\ IsResult(result) /\ c \in Collators
    BY <1>2, <1>8 DEF ReadAuthored, Gathered, Dropped, TypeInv, PassOK
  <2>2. IsResult(looked) /\ DOMAIN looked.count = DOMAIN result.count /\ looked.period = result.period
    BY <2>1, Looking
  <2>3. IsResult(Credit(c)) /\ DOMAIN Credit(c).count = DOMAIN result.count /\ Credit(c).period = result.period
    BY <2>1, Crediting DEF Credit
  <2>4. IsResult(credited) /\ DOMAIN credited.count = DOMAIN result.count /\ credited.period = result.period
    BY <2>2, <2>3
  <2>5. result' = [credited EXCEPT !.blocks = IF i = Len(active_collators) THEN @ + 1 ELSE @]
    BY <1>8 DEF ReadAuthored
  <2> HIDE DEF credited
  <2>6. (IF i = Len(active_collators) THEN credited.blocks + 1 ELSE credited.blocks) \in Nat
    BY <2>4, ResultFields
  <2>7. DOMAIN result'.count = DOMAIN result.count /\ result'.period = result.period
    BY <2>4, <2>5, <2>6, Counting
  <2>8. QED
    BY <1>1, <1>8, <2>1, <2>7, SameCollators DEF ReadAuthored
<1>9. CASE exporter = "acala" /\ ReadPoints
  BY <1>1, <1>9, PointsAreWhole
<1>10. CASE Clear
  <2>1. ~(Gathered \/ Dropped)
    BY <1>10 DEF Clear, Gathered, Dropped
  <2>2. QED
    BY <1>1, <1>10, <2>1, SameCollators DEF Clear
<1>11. CASE Publish
  <2>1. result # None /\ DOMAIN result.count = Range(active_collators)
    BY <1>2, <1>11 DEF Publish, WholeInv, LiveInv, Gathered, Dropped
  <2>2. LiveInv' /\ OldInv'
    BY <1>11, <2>1 DEF Publish, NextPass, WholeInv, LiveInv, OldInv
  <2>3. QED
    BY <1>1, <2>2 DEF WholeInv
<1>12. CASE Fail
  <2>1. head' = head
    BY <1>12 DEF Fail, head
  <2>2. Gathered \/ Dropped => (Gathered \/ Dropped)'
    BY <1>12, <2>1 DEF Fail, Gathered, Dropped
  <2>3. QED
    BY <1>1, <1>12, <2>2, SameCollators DEF Fail, NextPass
<1>13. CASE Scrape
  <2>1. head' = head /\ view' \in {view, q_metrics, None}
    BY <1>13 DEF Scrape, MoonbeamScrape, AstarScrape, AcalaScrape, ScrapeTest, ScrapeGet,
                 ScrapePeriod, ScrapeCounts, head
  <2>2. Gathered \/ Dropped => (Gathered \/ Dropped)'
    BY <1>13, <2>1 DEF Scrape, Gathered, Dropped
  <2>3. QED
    BY <1>1, <1>13, <2>1, <2>2, SameCollators DEF Scrape
<1>14. CASE UNCHANGED vars
  <2>1. Gathered \/ Dropped => (Gathered \/ Dropped)'
    BY <1>14 DEF vars, Gathered, Dropped, head
  <2>2. QED
    BY <1>1, <1>14, <2>1, SameCollators DEF vars
<1>15. QED
  BY <1>3, <1>4, <1>5, <1>6, <1>7, <1>8, <1>9, <1>10, <1>11, <1>12, <1>13, <1>14
     DEF Next, Main, Moonbeam, Astar, Acala

LEMMA WholeInvariant == Spec => []WholeInv
<1>1. Init => WholeInv
  <2> SUFFICES ASSUME Init PROVE WholeInv
    OBVIOUS
  <2>1. TypeInv
    BY TypeInvariantInit
  <2>2. PeriodOf(head) \in Nat \ {0}
    BY <2>1, PeriodIsPositive DEF TypeInv, ChainOK
  <2>3. QED
    BY <2>2 DEF Init, WholeInv, PeriodInv, LiveInv, OldInv
<1>2. QED
  BY <1>1, WholeStep, TypeInvariant, PTL DEF Spec

(* Wherever the worker is and wherever it has failed: what a scrape holds, *)
(* and what it can get, lists all the collators of its period, or of the   *)
(* later one that had begun when they were read.                           *)
THEOREM PublishingIsWhole == Spec => []PublishedIsWhole
<1>1. TypeInv /\ WholeInv => PublishedIsWhole
  BY ShownIsWhole DEF PublishedIsWhole, Listing
<1>2. QED
  BY <1>1, TypeInvariant, WholeInvariant, PTL
=============================================================================
