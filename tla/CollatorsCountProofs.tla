------------------------ MODULE CollatorsCountProofs ------------------------
(***************************************************************************)
(* Proofs about what Collators counts for a collator: moonbeam and astar   *)
(* credit it with no more than it has made, but for the passes that fail   *)
(* and for the block moonbeam may credit twice; and the pages of the three *)
(* exporters do not go back.                                               *)
(***************************************************************************)
EXTENDS CollatorsProofs, WellFoundedInduction

(* A set of natural numbers that has a bound has a greatest element.       *)
Below == {ss \in Nat \X Nat : ss[1] < ss[2]}

LEMMA MaxGreatest ==
  ASSUME NEW n \in Nat, NEW S \in SUBSET (0 .. n), S # {}
  PROVE  Max(S) \in S /\ \A x \in S : x <= Max(S)
<1> DEFINE T == {n - x : x \in S}
<1>1. T \in SUBSET Nat /\ T # {}
  <2>1. \A x \in S : n - x \in Nat
    OBVIOUS
  <2>2. QED
    BY <2>1
<1>2. IsWellFoundedOn(Below, Nat)
  BY NatLessThanWellFounded DEF Below, OpToRel
<1>3. PICK t \in T : \A u \in T : <<u, t>> \notin Below
  <2> HIDE DEF T
  <2>1. QED
    BY <1>1, <1>2, WFMin
<1>4. PICK x \in S : t = n - x
  BY <1>3
<1>5. \A y \in S : y <= x
  <2> SUFFICES ASSUME NEW y \in S PROVE y <= x
    OBVIOUS
  <2>1. <<n - y, n - x>> \notin Below
    BY <1>3, <1>4
  <2>2. n - y \in Nat /\ n - x \in Nat /\ y \in Nat /\ x \in Nat
    OBVIOUS
  <2>3. QED
    BY <2>1, <2>2 DEF Below
<1>6. \E z \in S : \A y \in S : z >= y
  BY <1>5
<1>7. QED
  BY <1>6 DEF Max

-----------------------------------------------------------------------------
(* How many of the blocks s to m, by the authors blocks, are of c.             *)
Count(blocks, s, c, m) == Cardinality({b \in s .. m : blocks[b] = c})

LEMMA CountIsNumber ==
  ASSUME NEW blocks \in Seq(Collators), NEW s \in Nat, NEW c, NEW m \in Nat
  PROVE  IsFiniteSet({b \in s .. m : blocks[b] = c}) /\ Count(blocks, s, c, m) \in Nat
<1> DEFINE S == {b \in s .. m : blocks[b] = c}
<1>1. IsFiniteSet(S)
  <2>1. S \in SUBSET (s .. m) /\ IsFiniteSet(s .. m)
    BY FS_Interval
  <2>2. QED
    BY <2>1, FS_Subset
<1>2. Cardinality(S) \in Nat
  BY <1>1, FS_CardinalityType
<1>3. QED
  BY <1>1, <1>2 DEF Count

LEMMA CountGrows ==
  ASSUME NEW blocks \in Seq(Collators), NEW s \in Nat, NEW c, NEW m \in Nat, NEW n \in Nat, m <= n
  PROVE  Count(blocks, s, c, m) <= Count(blocks, s, c, n)
<1> DEFINE S(k) == {b \in s .. k : blocks[b] = c}
<1>1. S(m) \subseteq S(n) /\ IsFiniteSet(S(n))
  <2>1. s .. m \subseteq s .. n
    OBVIOUS
  <2>2. S(m) \subseteq S(n)
    BY <2>1
  <2>3. IsFiniteSet(S(n))
    BY CountIsNumber
  <2>4. QED
    BY <2>2, <2>3
<1>2. Cardinality(S(m)) <= Cardinality(S(n))
  BY <1>1, FS_Subset
<1>3. QED
  BY <1>2 DEF Count

LEMMA CountOneMore ==
  ASSUME NEW blocks \in Seq(Collators), NEW s \in Nat, NEW m \in Nat, NEW n \in Nat, m < n, s <= n
  PROVE  Count(blocks, s, blocks[n], m) + 1 <= Count(blocks, s, blocks[n], n)
<1> DEFINE S(k) == {b \in s .. k : blocks[b] = blocks[n]}
<1>1. /\ S(m) \cup {n} \subseteq S(n) /\ n \notin S(m)
      /\ IsFiniteSet(S(m)) /\ IsFiniteSet(S(n))
  <2>1. s .. m \subseteq s .. n /\ n \in s .. n /\ n \notin s .. m
    OBVIOUS
  <2>2. S(m) \cup {n} \subseteq S(n) /\ n \notin S(m)
    BY <2>1
  <2>3. IsFiniteSet(S(m)) /\ IsFiniteSet(S(n))
    BY CountIsNumber
  <2>4. QED
    BY <2>2, <2>3
<1>2. Cardinality(S(m) \cup {n}) <= Cardinality(S(n))
  BY <1>1, FS_Subset
<1>3. Cardinality(S(m) \cup {n}) = Cardinality(S(m)) + 1
  BY <1>1, FS_AddElement
<1>4. QED
  BY <1>2, <1>3 DEF Count

(* A new block does not change what was made before it.                    *)
LEMMA CountStays ==
  ASSUME NEW blocks \in Seq(Collators), NEW a \in Collators, NEW s \in Nat \ {0}, NEW c,
         NEW m \in 0 .. Len(blocks)
  PROVE  Count(Append(blocks, a), s, c, m) = Count(blocks, s, c, m)
<1>1. \A b \in s .. m : Append(blocks, a)[b] = blocks[b]
  <2>1. s .. m \subseteq 1 .. Len(blocks)
    OBVIOUS
  <2>2. \A b \in 1 .. Len(blocks) : Append(blocks, a)[b] = blocks[b]
    OBVIOUS
  <2>3. QED
    BY <2>1, <2>2
<1>2. {b \in s .. m : Append(blocks, a)[b] = c} = {b \in s .. m : blocks[b] = c}
  BY <1>1
<1>3. QED
  BY <1>2 DEF Count

LEMMA CreditCounts ==
  ASSUME NEW r, IsResult(r), NEW c
  PROVE  LET n == [r EXCEPT !.count[c] = @ + 1]
         IN  \A x \in DOMAIN r.count : n.count[x] = r.count[x] + IF x = c THEN 1 ELSE 0
<1>1. PICK cs \in SUBSET Collators : r \in Results(cs)
  BY DEF IsResult
<1> DEFINE n == [r EXCEPT !.count[c] = @ + 1]
<1>2. n.count = [r.count EXCEPT ![c] = r.count[c] + 1] /\ r.count \in [cs -> Nat]
  BY <1>1 DEF Results
<1>3. QED
  BY <1>2

(* A block that is the last of a collator is one that it has made.         *)
LEMMA LastIsAuthored ==
  ASSUME head \in Nat, NEW c, LastAuthoredBlock(c) # 0
  PROVE  authors[LastAuthoredBlock(c)] = c
<1> DEFINE S == {0} \cup {b \in 1 .. head : authors[b] = c}
<1>1. Max(S) \in S
  <2>1. S \in SUBSET (0 .. head) /\ S # {}
    OBVIOUS
  <2>2. QED
    BY <2>1, MaxGreatest
<1>2. QED
  BY <1>1 DEF LastAuthoredBlock

-----------------------------------------------------------------------------
(* What c has made since the result was started, up to block m.            *)
Made(c, m) == Count(authors, since, c, m)

Ways ==
  /\ exporter = "moonbeam" => pc # "collator"
  /\ exporter = "astar" => pc \notin {"author", "round", "number"}
  /\ result # None => since # 0

(* astar credits a collator at most once in a pass, and the block of the   *)
(* pass with it.                                                           *)
Looked(c) ==
  \/ pc \in {"clear", "append"}
  \/ pc = "collator" /\ c \in {active_collators[j] : j \in 1 .. i - 1}

AstarInv ==
  exporter = "astar" /\ result # None =>
    \A c \in DOMAIN result.count :
      result.count[c] <= Made(c, block) + failures
                           + IF Looked(c) /\ authors[last_block] = c THEN 1 ELSE 0

(* moonbeam credits block h, the head by the time it asks, for the block   *)
(* it has seen: no two passes see the same, so that a block is credited by *)
(* the passes before it is seen, and by the one that sees it.              *)
InHand == pc \in {"round", "number", "clear", "append"}

Doubled(h) ==
  /\ pc = "author" => h <= last_block
  /\ \A c \in DOMAIN result.count :
       /\ ~InHand => result.count[c] <= Made(c, h) + Made(c, block) + failures
       /\ InHand => /\ result.count[c] <= Made(c, h) + Made(c, block) + failures + 1
                    /\ result.count[c] <= Made(c, h) + Made(c, last_block) + failures

MoonbeamInv == exporter = "moonbeam" /\ result # None => \E h \in since .. head : Doubled(h)

LEMMA Numbers ==
  ASSUME TypeInv
  PROVE  /\ authors \in Seq(Collators) /\ head \in Nat \ {0} /\ head = Len(authors)
         /\ {block, last_block, since, failures} \subseteq Nat
         /\ block <= head /\ last_block <= head /\ since <= head
         /\ result # None => IsResult(result) /\ \A c \in DOMAIN result.count : result.count[c] \in Nat
         /\ \A c, m : m \in Nat => Made(c, m) \in Nat
         /\ pc \notin {"period", "active"} => result # None
<1>1. /\ authors \in Seq(Collators) /\ head \in Nat \ {0} /\ head = Len(authors)
      /\ {block, last_block, since, failures} \subseteq Nat
      /\ block <= head /\ last_block <= head /\ since <= head
      /\ result # None => IsResult(result)
      /\ pc \notin {"period", "active"} => result # None
  BY ConstantsAssumption DEF ConstantsAssumption, TypeInv, ChainOK, PassOK, ResultOK, head
<1>2. result # None => \A c \in DOMAIN result.count : result.count[c] \in Nat
  BY <1>1, ResultFields
<1>3. \A c, m : m \in Nat => Made(c, m) \in Nat
  BY <1>1, CountIsNumber DEF Made
<1>4. QED
  BY <1>1, <1>2, <1>3

LEMMA WaysStep == TypeInv /\ Ways /\ [Next]_vars => Ways'
<1> SUFFICES ASSUME TypeInv, Ways, [Next]_vars PROVE Ways'
  OBVIOUS
<1> USE DEF Ways, Step, Leaves, chainVars, resultVars
<1>1. pc \notin {"period", "active"} => result # None
  BY Numbers
<1>2. CASE (\E c \in Collators : Author(c)) \/ Scrape \/ UNCHANGED vars
  BY <1>2 DEF Author, Scrape, vars
<1>3. CASE ReadPeriod \/ ReadHead \/ Clear \/ Publish \/ Fail
  BY <1>3 DEF ReadPeriod, ReadHead, Clear, Publish, Fail
<1>4. CASE ReadActive
  BY <1>4, Numbers DEF ReadActive
<1>5. CASE exporter = "moonbeam" /\ (ReadAuthor \/ ReadProgress)
  BY <1>1, <1>5 DEF ReadAuthor, ReadProgress
<1>6. CASE exporter = "astar" /\ ReadAuthored
  BY <1>1, <1>6 DEF ReadAuthored, NextCollator
<1>7. CASE exporter = "acala" /\ ReadPoints
  BY <1>1, <1>7 DEF ReadPoints, NextCollator
<1>8. QED
  BY <1>2, <1>3, <1>4, <1>5, <1>6, <1>7 DEF Next, Main, Moonbeam, Astar, Acala

(* Steps that count nothing.                                               *)
LEMMA StartsAtZero ==
  ASSUME TypeInv, ReadActive, exporter # "acala"
  PROVE  /\ since' = head /\ head' = head
         /\ \A c \in DOMAIN result'.count : result'.count[c] = 0
<1>1. since' = head /\ head' = head /\ UNCHANGED exporter
  BY DEF ReadActive, Leaves, chainVars, head
<1>2. result'.count = [c \in Range(active_collators') |-> 0]
  BY DEF ReadActive, NewResult
<1>3. QED
  BY <1>1, <1>2

LEMMA AuthorKeepsMade ==
  ASSUME TypeInv, NEW a \in Collators, Author(a), result # None, Ways
  PROVE  /\ head' = head + 1 /\ Made(a, 0) \in Nat
         /\ \A c, m : m \in 0 .. head => Count(authors', since', c, m) = Made(c, m)
<1>1. /\ authors \in Seq(Collators) /\ head = Len(authors) /\ since \in Nat \ {0}
      /\ authors' = Append(authors, a) /\ since' = since
  BY Numbers DEF Author, Ways, resultVars
<1>2. head' = head + 1
  BY <1>1 DEF head
<1>3. \A c, m : m \in 0 .. head => Count(authors', since', c, m) = Made(c, m)
  BY <1>1, CountStays DEF Made
<1>4. QED
  BY <1>2, <1>3, Numbers

-----------------------------------------------------------------------------
LEMMA ExporterStays == [Next]_vars => exporter' = exporter
<1> SUFFICES ASSUME [Next]_vars PROVE exporter' = exporter
  OBVIOUS
<1>1. CASE (\E c \in Collators : Author(c)) \/ Scrape \/ UNCHANGED vars
  BY <1>1 DEF Author, Scrape, vars, chainVars
<1>2. CASE ReadPeriod \/ ReadActive \/ ReadHead \/ ReadAuthor \/ ReadProgress
  BY <1>2 DEF ReadPeriod, ReadActive, ReadHead, ReadAuthor, ReadProgress, Leaves, chainVars
<1>3. CASE ReadAuthored \/ ReadPoints \/ Clear \/ Publish \/ Fail
  BY <1>3 DEF ReadAuthored, ReadPoints, Clear, Publish, Fail, Leaves, chainVars
<1>4. QED
  BY <1>1, <1>2, <1>3 DEF Next, Main, Moonbeam, Astar, Acala

LEMMA AstarStep ==
  ASSUME TypeInv, CountInv, WholeInv, Ways, AstarInv, [Next]_vars
  PROVE  AstarInv'
<1> USE DEF Step, Leaves, chainVars, resultVars, passVars, NextPass
<1>1. /\ authors \in Seq(Collators) /\ head \in Nat \ {0} /\ head = Len(authors)
      /\ {block, last_block, since, failures} \subseteq Nat
      /\ block <= head /\ last_block <= head /\ since <= head
      /\ result # None => IsResult(result) /\ \A c \in DOMAIN result.count : result.count[c] \in Nat
      /\ \A c, m : m \in Nat => Made(c, m) \in Nat
      /\ pc \notin {"period", "active"} => result # None
  BY Numbers
<1>2. \A c : Made(c, block) \in Nat
  BY <1>1
<1> SUFFICES ASSUME exporter' = "astar", result' # None, NEW c \in DOMAIN result'.count
             PROVE  result'.count[c] <= Made(c, block)' + failures'
                      + IF Looked(c)' /\ authors'[last_block'] = c THEN 1 ELSE 0
  BY DEF AstarInv
<1> DEFINE bound == Made(c, block) + failures
                      + IF Looked(c) /\ authors[last_block] = c THEN 1 ELSE 0
<1>3. exporter = "astar"
  BY ExporterStays
<1>4. result # None /\ c \in DOMAIN result.count => result.count[c] <= bound
  BY <1>3 DEF AstarInv
<1> HIDE DEF Made
<1>5. CASE \E a \in Collators : Author(a)
  <2>1. PICK a \in Collators : Author(a)
    BY <1>5
  <2>2. UNCHANGED <<pc, block, last_block, active_collators, i, result, since, failures>>
    BY <2>1 DEF Author
  <2>3. Made(c, block)' = Made(c, block)
    <3>1. Count(authors', since', c, block) = Made(c, block)
      BY <1>1, <2>1, <2>2, AuthorKeepsMade
    <3>2. QED
      BY <2>2, <3>1 DEF Made
  <2>4. last_block > 0 => authors'[last_block] = authors[last_block]
    BY <1>1, <2>1 DEF Author
  <2>5. Looked(c)' = Looked(c) /\ (Looked(c) => last_block > 0)
    BY <1>1, <1>3, <2>2 DEF Looked, CountInv, PlaceInv
  <2>6. QED
    BY <1>4, <2>2, <2>3, <2>4, <2>5
<1>6. CASE ReadPeriod \/ ReadHead \/ Scrape \/ UNCHANGED vars
  <2>1. /\ UNCHANGED <<authors, since, result, failures>>
        /\ UNCHANGED <<pc, block, last_block, active_collators, i>>
           \/ (~Looked(c) /\ (block' = block \/ block' = head))
    BY <1>1, <1>3, <1>6 DEF ReadPeriod, ReadHead, Scrape, vars, Looked
  <2>2. Made(c, block) <= Made(c, block') /\ Made(c, block') \in Nat
    BY <1>1, <2>1, CountGrows DEF Made
  <2>3. Made(c, block') = Made(c, block)'
    BY <2>1 DEF Made
  <2>4. QED
    BY <1>1, <1>2, <1>4, <2>1, <2>2, <2>3 DEF Looked
<1>7. CASE ReadActive
  <2>1. result'.count[c] = 0 /\ UNCHANGED <<authors, block, failures>> /\ since' \in Nat
    BY <1>1, <1>3, <1>7, StartsAtZero DEF ReadActive
  <2>2. Made(c, block)' \in Nat
    BY <1>1, <2>1, CountIsNumber DEF Made
  <2>3. QED
    BY <1>1, <2>1, <2>2
<1>8. CASE ReadAuthored
  <2> DEFINE d == active_collators[i]
             looked   == [result EXCEPT !.seen = @ \cup {d}]
             credited == IF d \in result.seen /\ LastAuthoredBlock(d) = last_block
                         THEN Credit(d) ELSE looked
  <2>1. /\ pc = "collator" /\ result # None /\ IsResult(result)
        /\ d \in Collators /\ active_collators \in Seq(Collators) /\ i \in 1 .. Len(active_collators)
        /\ UNCHANGED <<authors, block, last_block, active_collators, since, failures>>
        /\ block < last_block
    BY <1>1, <1>3, <1>8 DEF ReadAuthored, TypeInv, PassOK, CountInv, PlaceInv
  <2>2. /\ IsResult(looked) /\ looked.count = result.count
        /\ IsResult(Credit(d)) /\ DOMAIN Credit(d).count = DOMAIN result.count
        /\ \A x \in DOMAIN result.count : Credit(d).count[x] = result.count[x] + IF x = d THEN 1 ELSE 0
    <3>1. IsResult(looked) /\ looked.count = result.count
      BY <2>1, Looking
    <3>2. IsResult(Credit(d)) /\ DOMAIN Credit(d).count = DOMAIN result.count
      BY <2>1, Crediting DEF Credit
    <3>3. \A x \in DOMAIN result.count : Credit(d).count[x] = result.count[x] + IF x = d THEN 1 ELSE 0
      BY <2>1, CreditCounts DEF Credit
    <3>4. QED
      BY <3>1, <3>2, <3>3
  <2>3. IsResult(credited) /\ DOMAIN credited.count = DOMAIN result.count
    BY <2>2
  <2>4. result'.count = credited.count
    <3>1. result' = [credited EXCEPT !.blocks = IF i = Len(active_collators) THEN @ + 1 ELSE @]
      BY <1>8 DEF ReadAuthored
    <3> HIDE DEF credited
    <3>2. (IF i = Len(active_collators) THEN credited.blocks + 1 ELSE credited.blocks) \in Nat
      BY <2>3, ResultFields
    <3>3. QED
      BY <2>3, <3>1, <3>2, Counting
  <2>5. c \in DOMAIN result.count /\ result.count[c] \in Nat /\ result.count[c] <= bound
    BY <1>1, <1>4, <2>1, <2>3, <2>4
  <2>6. Made(c, block)' = Made(c, block)
    BY <2>1 DEF Made
  <2>7. Looked(c) => Looked(c)'
    BY <1>8, <2>1 DEF ReadAuthored, NextCollator, Looked
  <2>8. ASSUME c = d PROVE Looked(c)' /\ ~Looked(c)
    <3>1. IsInjective(active_collators)
      <4>1. PICK p \in Periods : active_collators = Active[p]
        BY <2>1 DEF WholeInv, LiveInv
      <4>2. QED
        BY <4>1, ConstantsAssumption DEF ConstantsAssumption
    <3>2. \A j \in 1 .. i - 1 : active_collators[j] # c
      BY <2>1, <2>8, <3>1 DEF IsInjective
    <3>3. ~Looked(c)
      BY <2>1, <3>2 DEF Looked
    <3>4. CASE i < Len(active_collators)
      <4>1. pc' = "collator" /\ i' = i + 1
        BY <1>8, <3>4 DEF ReadAuthored, NextCollator
      <4>2. i \in 1 .. i' - 1 /\ active_collators'[i] = c
        BY <2>1, <2>8, <4>1
      <4>3. QED
        BY <3>3, <4>1, <4>2 DEF Looked
    <3>5. CASE ~(i < Len(active_collators))
      BY <1>8, <3>3, <3>5 DEF ReadAuthored, NextCollator, Looked
    <3>6. QED
      BY <3>4, <3>5
  <2>9. CASE result'.count[c] = result.count[c]
    BY <1>1, <1>2, <2>1, <2>5, <2>6, <2>7, <2>9
  <2>10. CASE result'.count[c] # result.count[c]
    <3>1. c = d /\ LastAuthoredBlock(c) = last_block /\ result'.count[c] = result.count[c] + 1
      BY <2>2, <2>4, <2>5, <2>10
    <3>2. authors[last_block] = c
      BY <1>1, <2>1, <3>1, LastIsAuthored
    <3>3. Looked(c)' /\ ~Looked(c)
      BY <2>8, <3>1
    <3>4. result.count[c] <= Made(c, block) + failures
      BY <1>1, <1>2, <2>5, <3>3
    <3>5. result'.count[c] <= Made(c, block) + failures + 1
      BY <1>1, <1>2, <2>5, <3>1, <3>4
    <3>6. authors'[last_block'] = c /\ failures' = failures
      BY <2>1, <3>2
    <3>7. QED
      BY <2>6, <3>3, <3>5, <3>6
  <2>11. QED
    BY <2>9, <2>10
<1>9. CASE Clear
  <2>1. /\ UNCHANGED <<authors, since, result, failures, block, last_block>>
        /\ Looked(c) /\ Looked(c)'
    BY <1>9 DEF Clear, Looked
  <2>2. QED
    BY <1>4, <2>1 DEF Made
<1>10. CASE Publish
  <2>1. /\ UNCHANGED <<authors, since, result, failures>> /\ block' = last_block
        /\ block < last_block /\ since <= last_block
        /\ ~Looked(c)' /\ result # None
    BY <1>1, <1>3, <1>10 DEF Publish, Looked, CountInv, PlaceInv
  <2>2. Made(c, block)' = Made(c, last_block)
    BY <2>1 DEF Made
  <2>3. /\ Made(c, block) <= Made(c, last_block) /\ Made(c, last_block) \in Nat
        /\ authors[last_block] = c => Made(c, block) + 1 <= Made(c, last_block)
    <3>1. Made(c, block) <= Made(c, last_block) /\ Made(c, last_block) \in Nat
      BY <1>1, <2>1, CountGrows DEF Made
    <3>2. ASSUME authors[last_block] = c PROVE Made(c, block) + 1 <= Made(c, last_block)
      BY <1>1, <2>1, <3>2, CountOneMore DEF Made
    <3>3. QED
      BY <3>1, <3>2
  <2>4. QED
    BY <1>1, <1>2, <1>4, <2>1, <2>2, <2>3
<1>11. CASE Fail
  <2>1. UNCHANGED <<authors, since, result, block>> /\ failures' = failures + 1
    BY <1>11 DEF Fail
  <2>2. Made(c, block)' = Made(c, block)
    BY <2>1 DEF Made
  <2>3. QED
    BY <1>1, <1>2, <1>4, <2>1, <2>2
<1>12. QED
  BY <1>3, <1>5, <1>6, <1>7, <1>8, <1>9, <1>10, <1>11
     DEF Next, Main, Moonbeam, Astar, Acala

-----------------------------------------------------------------------------
(* The author of the head by now is credited.                              *)
LEMMA CreditIsDoubled ==
  ASSUME TypeInv, CountInv, MoonbeamInv, exporter = "moonbeam", ReadAuthor,
         NEW g, g = head
  PROVE  g \in since' .. head' /\ Doubled(g)'
<1> USE DEF Step, Leaves, chainVars, passVars
<1>1. /\ authors \in Seq(Collators) /\ head = Len(authors) /\ g \in Nat
      /\ {block, last_block, since, failures} \subseteq Nat
      /\ result # None /\ IsResult(result)
      /\ \A c \in DOMAIN result.count : result.count[c] \in Nat
      /\ \A c, m : m \in Nat => Made(c, m) \in Nat
  BY Numbers DEF ReadAuthor
<1>2. /\ pc = "author" /\ pc' = "round"
      /\ UNCHANGED <<authors, block, last_block, since, failures>> /\ head' = head
      /\ block < last_block /\ since <= last_block /\ last_block <= g
  BY <1>1, Numbers DEF ReadAuthor, CountInv, PlaceInv, head
<1>3. PICK h \in since .. head : Doubled(h)
  BY <1>1 DEF MoonbeamInv
<1>4. h \in Nat /\ h <= last_block
  BY <1>1, <1>2, <1>3 DEF Doubled
<1>5. /\ DOMAIN result'.count = DOMAIN result.count
      /\ \A c \in DOMAIN result.count :
           result'.count[c] = result.count[c] + IF c = authors[g] THEN 1 ELSE 0
  BY <1>1, Crediting, CreditCounts DEF ReadAuthor, Credit
<1>6. ASSUME NEW c \in DOMAIN result.count
      PROVE  /\ result'.count[c] <= Made(c, g) + Made(c, block) + failures + 1
             /\ result'.count[c] <= Made(c, g) + Made(c, last_block) + failures
  <2>1. result.count[c] \in Nat /\ result.count[c] <= Made(c, h) + Made(c, block) + failures
    BY <1>1, <1>2, <1>3 DEF Doubled, InHand
  <2>2. /\ Made(c, h) \in Nat /\ Made(c, g) \in Nat
        /\ Made(c, block) \in Nat /\ Made(c, last_block) \in Nat /\ failures \in Nat
    BY <1>1, <1>4
  <2>3. Made(c, h) <= Made(c, g) /\ Made(c, block) <= Made(c, last_block)
    BY <1>1, <1>2, <1>4, CountGrows DEF Made
  <2>4. CASE c # authors[g]
    <3>1. result'.count[c] = result.count[c]
      BY <1>5, <2>1, <2>4
    <3>2. QED
      BY <2>1, <2>2, <2>3, <3>1
  <2>5. CASE c = authors[g]
    <3>1. h < g => Made(c, h) + 1 <= Made(c, g)
      <4>1. since \in Nat /\ h \in Nat /\ g \in Nat /\ since <= g
        BY <1>1, <1>2, <1>4
      <4>2. authors \in Seq(Collators)
        BY <1>1
      <4>3. h < g => Count(authors, since, authors[g], h) + 1 <= Count(authors, since, authors[g], g)
        BY <4>1, <4>2, CountOneMore
      <4>4. QED
        BY <2>5, <4>3 DEF Made
    <3>2. h = g => Made(c, block) + 1 <= Made(c, last_block)
      <4>1. ASSUME h = g PROVE last_block = g /\ block < g /\ since <= g
        BY <1>1, <1>2, <1>4, <4>1
      <4>2. block < g /\ since <= g => Made(c, block) + 1 <= Made(c, g)
        BY <1>1, <2>5, CountOneMore DEF Made
      <4>3. QED
        BY <4>1, <4>2
    <3>3. h < g \/ h = g
      BY <1>1, <1>2, <1>4
    <3>4. result'.count[c] = result.count[c] + 1
      BY <1>5, <2>5
    <3>5. QED
      BY <2>1, <2>2, <2>3, <3>1, <3>2, <3>3, <3>4
  <2>6. QED
    BY <2>4, <2>5
<1>7. g \in since' .. head'
  BY <1>1, <1>2
<1>8. QED
  BY <1>2, <1>5, <1>6, <1>7 DEF Doubled, InHand, Made

LEMMA MoonbeamStep ==
  ASSUME TypeInv, CountInv, Ways, MoonbeamInv, [Next]_vars
  PROVE  MoonbeamInv'
<1> USE DEF Step, Leaves, chainVars, resultVars, passVars, NextPass
<1>1. /\ authors \in Seq(Collators) /\ head \in Nat \ {0} /\ head = Len(authors)
      /\ {block, last_block, since, failures} \subseteq Nat
      /\ block <= head /\ last_block <= head /\ since <= head
      /\ result # None => IsResult(result) /\ \A c \in DOMAIN result.count : result.count[c] \in Nat
      /\ \A c, m : m \in Nat => Made(c, m) \in Nat
      /\ pc \notin {"period", "active"} => result # None
  BY Numbers
<1>2. \A c : Made(c, block) \in Nat /\ Made(c, last_block) \in Nat
  BY <1>1
<1> SUFFICES ASSUME exporter' = "moonbeam", result' # None
             PROVE  \E h \in since' .. head' : Doubled(h)'
  BY DEF MoonbeamInv
<1>3. exporter = "moonbeam"
  BY ExporterStays
<1>4. ASSUME result # None PROVE \E h \in since .. head : h \in Nat /\ Doubled(h)
  BY <1>1, <1>3, <1>4 DEF MoonbeamInv
<1>5. CASE \E a \in Collators : Author(a)
  <2>1. PICK a \in Collators : Author(a)
    BY <1>5
  <2>2. UNCHANGED <<pc, block, last_block, result, since, failures>>
    BY <2>1 DEF Author
  <2>3. PICK h \in since .. head : h \in Nat /\ Doubled(h)
    BY <1>4, <2>2
  <2>4. \A c, m : m \in 0 .. head => Count(authors', since', c, m) = Made(c, m)
    BY <2>1, <2>2, AuthorKeepsMade
  <2>5. h \in 0 .. head /\ block \in 0 .. head /\ last_block \in 0 .. head
    BY <1>1, <2>3
  <2>6. \A c : /\ Count(authors', since', c, h) = Count(authors, since, c, h)
               /\ Count(authors', since', c, block) = Count(authors, since, c, block)
               /\ Count(authors', since', c, last_block) = Count(authors, since, c, last_block)
    BY <2>4, <2>5 DEF Made
  <2>7. h \in since' .. head'
    BY <1>1, <2>1, <2>2, <2>3, AuthorKeepsMade
  <2>8. Doubled(h)'
    BY <2>2, <2>3, <2>6 DEF Doubled, InHand, Made
  <2>9. QED
    BY <2>7, <2>8
<1>6. CASE ReadPeriod \/ ReadProgress \/ Clear \/ Scrape \/ UNCHANGED vars
  <2>1. /\ UNCHANGED <<authors, since, block, last_block, failures>>
        /\ InHand' = InHand /\ (pc' = "author" <=> pc = "author")
    BY <1>3, <1>6 DEF ReadPeriod, ReadProgress, Clear, Scrape, vars, InHand
  <2>2. result # None /\ result'.count = result.count
    <3>1. CASE ReadProgress
      <4>1. IsResult(result) /\ result.blocks + 1 \in Nat /\ result # None
        BY <1>1, <3>1, ResultFields DEF ReadProgress
      <4>2. [result EXCEPT !.blocks = result.blocks + 1].count = result.count
        BY <4>1, Counting
      <4>3. QED
        BY <3>1, <4>1, <4>2 DEF ReadProgress
    <3>2. CASE ~ReadProgress
      BY <1>6, <3>2 DEF ReadPeriod, Clear, Scrape, vars
    <3>3. QED
      BY <3>1, <3>2
  <2>3. PICK h \in since .. head : Doubled(h)
    BY <1>4, <2>2
  <2>4. h \in since' .. head' /\ Doubled(h)'
    BY <2>1, <2>2, <2>3 DEF Doubled, Made, head
  <2>5. QED
    BY <2>4
<1>7. CASE ReadActive
  <2>1. /\ since' = head /\ head' = head /\ UNCHANGED <<authors, block, failures>> /\ pc' = "head"
        /\ \A c \in DOMAIN result'.count : result'.count[c] = 0
    BY <1>3, <1>7, StartsAtZero DEF ReadActive
  <2>2. PICK g : g = head
    OBVIOUS
  <2>3. \A c, m : m \in Nat => Count(authors', since', c, m) \in Nat
    BY <1>1, <2>1, CountIsNumber
  <2>4. \A c \in DOMAIN result'.count :
          result'.count[c] <= Count(authors', since', c, g) + Count(authors', since', c, block') + failures'
    BY <1>1, <2>1, <2>2, <2>3
  <2>5. g \in since' .. head' /\ Doubled(g)'
    BY <1>1, <2>1, <2>2, <2>4 DEF Doubled, InHand, Made
  <2>6. QED
    BY <2>5
<1>8. CASE ReadHead
  <2>1. /\ UNCHANGED <<authors, since, failures, result>> /\ head' = head
        /\ ~InHand /\ ~InHand'
        /\ block' = block \/ block' = head
        /\ pc' = "author" => last_block' = head
    BY <1>3, <1>8 DEF ReadHead, InHand, head
  <2>2. PICK h \in since .. head : h \in Nat /\ Doubled(h)
    BY <1>4, <2>1
  <2>3. ASSUME NEW c \in DOMAIN result.count
        PROVE  result.count[c] <= Made(c, h) + Count(authors, since, c, block') + failures
    <3>1. /\ Made(c, block) <= Count(authors, since, c, block')
          /\ Count(authors, since, c, block') \in Nat
      BY <1>1, <2>1, CountGrows DEF Made
    <3>2. result.count[c] \in Nat /\ result.count[c] <= Made(c, h) + Made(c, block) + failures
      BY <1>1, <2>1, <2>2 DEF Doubled
    <3>3. Made(c, h) \in Nat /\ Made(c, block) \in Nat
      BY <1>1, <1>2, <2>2
    <3>4. QED
      BY <1>1, <3>1, <3>2, <3>3
  <2>4. h \in since' .. head' /\ Doubled(h)'
    BY <1>1, <2>1, <2>2, <2>3 DEF Doubled, Made
  <2>5. QED
    BY <2>4
<1>9. CASE ReadAuthor
  <2>1. PICK g : g = head
    OBVIOUS
  <2>2. QED
    BY <1>3, <1>9, <2>1, CreditIsDoubled
<1>10. CASE Publish
  <2>1. /\ UNCHANGED <<authors, since, failures, result>> /\ block' = last_block
        /\ InHand /\ ~InHand' /\ pc' # "author"
    BY <1>10 DEF Publish, InHand
  <2>2. PICK h \in since .. head : Doubled(h)
    BY <1>4, <2>1
  <2>3. h \in since' .. head' /\ Doubled(h)'
    BY <2>1, <2>2 DEF Doubled, Made, head
  <2>4. QED
    BY <2>3
<1>11. CASE Fail
  <2>1. /\ UNCHANGED <<authors, since, result, block>> /\ failures' = failures + 1
        /\ ~InHand' /\ pc' # "author"
    BY <1>11 DEF Fail, InHand
  <2>2. PICK h \in since .. head : h \in Nat /\ Doubled(h)
    BY <1>4, <2>1
  <2>3. \A c \in DOMAIN result.count :
          /\ result.count[c] <= Made(c, h) + Made(c, block) + failures + 1
          /\ {result.count[c], Made(c, h), Made(c, block)} \subseteq Nat
    <3> SUFFICES ASSUME NEW c \in DOMAIN result.count
                 PROVE  /\ result.count[c] <= Made(c, h) + Made(c, block) + failures + 1
                        /\ {result.count[c], Made(c, h), Made(c, block)} \subseteq Nat
      OBVIOUS
    <3>1. result.count[c] \in Nat /\ Made(c, h) \in Nat /\ Made(c, block) \in Nat /\ failures \in Nat
      BY <1>1, <1>2, <2>1, <2>2
    <3>2. \/ result.count[c] <= Made(c, h) + Made(c, block) + failures
          \/ result.count[c] <= Made(c, h) + Made(c, block) + failures + 1
      BY <2>2 DEF Doubled
    <3>3. QED
      BY <3>1, <3>2
  <2>4. h \in since' .. head'
    BY <2>1, <2>2 DEF head
  <2>5. \A c \in DOMAIN result.count : result.count[c] <= Made(c, h) + Made(c, block) + failures'
    <3>1. failures \in Nat /\ failures' = failures + 1
      BY <1>1, <2>1
    <3>2. QED
      BY <2>3, <3>1
  <2>6. Doubled(h)'
    BY <2>1, <2>5 DEF Doubled, Made
  <2>7. QED
    BY <2>4, <2>6
<1>12. QED
  BY <1>3, <1>5, <1>6, <1>7, <1>8, <1>9, <1>10, <1>11 DEF Next, Main, Moonbeam, Astar, Acala

(* However slow the requests and wherever they fail: a collator is not     *)
(* credited with more than it has made since the result was started, but   *)
(* for one credit with every failure, and twice with a block of moonbeam.  *)
THEOREM CreditsAreEarned == Spec => []NoOvercount
<1>1. Init => Ways /\ AstarInv /\ MoonbeamInv
  BY DEF Init, Ways, AstarInv, MoonbeamInv
<1>2. TypeInv /\ CountInv /\ Ways /\ AstarInv /\ MoonbeamInv => NoOvercount
  <2> SUFFICES ASSUME TypeInv, CountInv, Ways, AstarInv, MoonbeamInv, result # None,
                      exporter # "acala", NEW c \in DOMAIN result.count
               PROVE  result.count[c] <= (IF exporter = "moonbeam" THEN 2 ELSE 1)
                                           * AuthoredIn(c, since .. head) + failures
    BY DEF NoOvercount
  <2> DEFINE all == AuthoredIn(c, since .. head)
  <2>1. all = Made(c, head)
    BY DEF AuthoredIn, Made, Count
  <2>2. /\ authors \in Seq(Collators) /\ head \in Nat
        /\ {block, last_block, since, failures} \subseteq Nat
        /\ block <= head /\ last_block <= head
        /\ result.count[c] \in Nat /\ failures \in Nat
        /\ \A m \in Nat : Made(c, m) \in Nat
    BY Numbers
  <2>3. all \in Nat /\ \A m \in Nat : m <= head => Made(c, m) <= all
    <3>1. all \in Nat
      BY <2>1, <2>2
    <3>2. \A m \in Nat : m <= head =>
            Count(authors, since, c, m) <= Count(authors, since, c, head)
      <4> HIDE DEF all
      <4>1. authors \in Seq(Collators) /\ since \in Nat /\ head \in Nat
        BY <2>2
      <4>2. QED
        BY <4>1, CountGrows
    <3>3. QED
      BY <2>1, <3>1, <3>2 DEF Made
  <2> HIDE DEF all
  <2>4. CASE exporter = "astar"
    <3>1. result.count[c] <= Made(c, block) + failures
                             + IF Looked(c) /\ authors[last_block] = c THEN 1 ELSE 0
      BY <2>4 DEF AstarInv
    <3>2. Looked(c) /\ authors[last_block] = c => Made(c, block) + 1 <= Made(c, last_block)
      <4>1. Looked(c) => block < last_block /\ since <= last_block
        BY <2>4 DEF Looked, CountInv, PlaceInv
      <4>2. ASSUME block < last_block, since <= last_block, authors[last_block] = c
            PROVE  Made(c, block) + 1 <= Made(c, last_block)
        BY <2>2, <4>2, CountOneMore DEF Made
      <4>3. QED
        BY <4>1, <4>2
    <3>3. /\ Made(c, block) \in Nat /\ Made(c, last_block) \in Nat
          /\ Made(c, block) <= all /\ Made(c, last_block) <= all
      BY <2>2, <2>3
    <3>4. result.count[c] \in Nat /\ failures \in Nat /\ all \in Nat
      BY <2>2, <2>3
    <3>5. result.count[c] <= 1 * all + failures
      BY <3>1, <3>2, <3>3, <3>4
    <3>6. QED
      BY <2>4, <3>5 DEF all
  <2>5. CASE exporter = "moonbeam"
    <3>1. PICK h \in since .. head : Doubled(h)
      BY <2>5 DEF MoonbeamInv
    <3>2. \/ result.count[c] <= Made(c, h) + Made(c, block) + failures
          \/ result.count[c] <= Made(c, h) + Made(c, last_block) + failures
      BY <3>1 DEF Doubled
    <3>3. h \in Nat /\ h <= head
      BY <2>2, <3>1
    <3>4. /\ Made(c, h) \in Nat /\ Made(c, h) <= all
          /\ Made(c, block) \in Nat /\ Made(c, block) <= all
          /\ Made(c, last_block) \in Nat /\ Made(c, last_block) <= all
      BY <2>2, <2>3, <3>3
    <3>5. result.count[c] \in Nat /\ failures \in Nat /\ all \in Nat
      BY <2>2, <2>3
    <3>6. result.count[c] <= 2 * all + failures
      BY <3>2, <3>4, <3>5
    <3>7. QED
      BY <2>5, <3>6 DEF all
  <2>6. QED
    BY <2>4, <2>5 DEF TypeInv, ChainOK
<1>3. TypeInv /\ CountInv /\ WholeInv /\ Ways /\ AstarInv /\ MoonbeamInv /\ [Next]_vars
        => (Ways /\ AstarInv /\ MoonbeamInv)'
  BY WaysStep, AstarStep, MoonbeamStep
<1>4. QED
  BY <1>1, <1>2, <1>3, TypeInvariant, CountInvariant, WholeInvariant, PTL DEF Spec

-----------------------------------------------------------------------------
(* y is not older than x: of a later period, or of the same one, with no   *)
(* smaller counts, which acala does not promise once the chain is past it. *)
Le(e, p, x, y) ==
  \/ x.period < y.period
  \/ /\ x.period = y.period
     /\ \/ e = "acala" /\ x.period < p
        \/ \A c \in DOMAIN x.count : c \in DOMAIN y.count /\ x.count[c] <= y.count[c]

Counted(x) == x.period \in Nat /\ \A c \in DOMAIN x.count : x.count[c] \in Nat

LEMMA LeReflexive ==
  ASSUME NEW e, NEW p, NEW x, Counted(x)
  PROVE  Le(e, p, x, x)
BY DEF Le, Counted

LEMMA LeTransitive ==
  ASSUME NEW e, NEW p, NEW x, NEW y, NEW z, Counted(x), Counted(y), Counted(z),
         Le(e, p, x, y), Le(e, p, y, z)
  PROVE  Le(e, p, x, z)
<1>1. {x.period, y.period, z.period} \subseteq Nat
  BY DEF Counted
<1>2. CASE x.period < y.period \/ y.period < z.period
  <2>1. x.period <= y.period /\ y.period <= z.period
    BY <1>1 DEF Le
  <2>2. x.period < z.period
    BY <1>1, <1>2, <2>1
  <2>3. QED
    BY <2>2 DEF Le
<1>3. CASE ~(x.period < y.period \/ y.period < z.period)
  <2>1. x.period = y.period /\ y.period = z.period
    BY <1>3 DEF Le
  <2>2. CASE e = "acala" /\ x.period < p
    BY <2>1, <2>2 DEF Le
  <2>3. CASE ~(e = "acala" /\ x.period < p)
    <3>1. /\ \A c \in DOMAIN x.count : c \in DOMAIN y.count /\ x.count[c] <= y.count[c]
          /\ \A c \in DOMAIN y.count : c \in DOMAIN z.count /\ y.count[c] <= z.count[c]
      BY <1>3, <2>1, <2>3 DEF Le
    <3>2. ASSUME NEW c \in DOMAIN x.count
          PROVE  c \in DOMAIN z.count /\ x.count[c] <= z.count[c]
      <4>1. /\ c \in DOMAIN y.count /\ c \in DOMAIN z.count
            /\ x.count[c] <= y.count[c] /\ y.count[c] <= z.count[c]
        BY <3>1
      <4>2. x.count[c] \in Nat /\ y.count[c] \in Nat /\ z.count[c] \in Nat
        BY <4>1 DEF Counted
      <4>3. QED
        BY <4>1, <4>2
    <3>3. QED
      BY <2>1, <3>2 DEF Le
  <2>4. QED
    BY <2>2, <2>3
<1>4. QED
  BY <1>2, <1>3

(* The page, the metrics a scrape holds, those that are published and the  *)
(* result are in this order.                                               *)
Deref(res, ref) == IF ref = Live THEN res ELSE ref

Sorted(e, p, res, q, v, pg) ==
  /\ \A ref \in {q, v} \ {None} : Le(e, p, Deref(res, ref), res)
  /\ pg # None =>
       /\ Le(e, p, pg, res)
       /\ \A ref \in {q, v} \ {None} : Le(e, p, pg, Deref(res, ref))
  /\ v # None /\ q # None => Le(e, p, Deref(res, v), Deref(res, q))

LEMMA SortedLater ==
  ASSUME NEW e, NEW p \in Nat, NEW n \in Nat, p <= n, NEW res, NEW q, NEW v, NEW pg,
         Sorted(e, p, res, q, v, pg),
         pg # None => pg.period \in Nat, \A ref \in {q, v} \ {None} : Deref(res, ref).period \in Nat
  PROVE  Sorted(e, n, res, q, v, pg)
<1>1. ASSUME NEW x, NEW y, x.period \in Nat, Le(e, p, x, y) PROVE Le(e, n, x, y)
  BY <1>1 DEF Le
<1>2. QED
  BY <1>1 DEF Sorted

(* The worker counts on.                                                   *)
LEMMA SortedGrows ==
  ASSUME NEW e, NEW p, NEW res, NEW q, NEW v, NEW pg, NEW new, Sorted(e, p, res, q, v, pg),
         Counted(res), Counted(new), Le(e, p, res, new),
         pg # None => Counted(pg), \A x \in {q, v} \ {None, Live} : Counted(x),
         v = Live => q \in {None, Live}, Live # None
  PROVE  Sorted(e, p, new, q, v, pg)
<1>1. ASSUME NEW x, Counted(x), Le(e, p, x, res) PROVE Le(e, p, x, new)
  BY <1>1, LeTransitive
<1>2. Le(e, p, new, new)
  BY LeReflexive
<1>3. \A ref \in {q, v} \ {None} : Le(e, p, Deref(new, ref), new)
  BY <1>1, <1>2 DEF Sorted, Deref
<1>4. ASSUME pg # None
      PROVE  /\ Le(e, p, pg, new)
             /\ \A ref \in {q, v} \ {None} : Le(e, p, pg, Deref(new, ref))
  <2>1. Counted(pg) /\ Le(e, p, pg, res)
    BY <1>4 DEF Sorted
  <2>2. Le(e, p, pg, new)
    BY <1>1, <2>1
  <2>3. QED
    BY <1>4, <2>2 DEF Sorted, Deref
<1>5. ASSUME v # None, q # None PROVE Le(e, p, Deref(new, v), Deref(new, q))
  <2>1. CASE q = Live
    BY <1>3, <1>5, <2>1 DEF Deref
  <2>2. CASE q # Live
    BY <1>5, <2>2 DEF Sorted, Deref
  <2>3. QED
    BY <2>1, <2>2
<1>6. QED
  BY <1>3, <1>4, <1>5 DEF Sorted

(* A new result, of a later period than all that is published.             *)
LEMMA SortedAnew ==
  ASSUME NEW e, NEW p, NEW res, NEW q, NEW v, NEW pg, NEW new, Sorted(e, p, res, q, v, pg),
         \A x \in {pg, Deref(res, q), Deref(res, v)} \ {None} : x.period < new.period,
         Live \notin {Deref(res, q), Deref(res, v)}, None # Live,
         q # None => Deref(res, q) # None, v # None => Deref(res, v) # None
  PROVE  Sorted(e, p, new, Deref(res, q), Deref(res, v), pg)
<1> DEFINE r == Deref(res, q)
           w == Deref(res, v)
<1>1. r # None => q # None
  BY DEF Deref
<1>2. w # None => v # None
  BY DEF Deref
<1>3. Deref(new, r) = r /\ Deref(new, w) = w
  BY DEF Deref
<1>4. \A x \in {pg, r, w} \ {None} : Le(e, p, x, new)
  BY DEF Le
<1>5. pg # None /\ r # None => Le(e, p, pg, r)
  BY <1>1 DEF Sorted
<1>6. pg # None /\ w # None => Le(e, p, pg, w)
  BY <1>2 DEF Sorted
<1>7. r # None /\ w # None => Le(e, p, w, r)
  BY <1>1, <1>2 DEF Sorted
<1> HIDE DEF r, w
<1>8. Sorted(e, p, new, r, w, pg)
  BY <1>3, <1>4, <1>5, <1>6, <1>7 DEF Sorted
<1>9. QED
  BY <1>8 DEF r, w

(* Metrics are published, taken, and written to a page.                    *)
LEMMA SortedMoves ==
  ASSUME NEW e, NEW p, NEW res, NEW q, NEW v, NEW pg, Sorted(e, p, res, q, v, pg),
         Counted(res), \A x \in {q, v} \ {None, Live} : Counted(x), None # Live
  PROVE  /\ Sorted(e, p, res, None, v, pg)
         /\ Sorted(e, p, res, Live, v, pg)
         /\ Sorted(e, p, res, q, None, pg)
         /\ q # None => Sorted(e, p, res, q, q, pg)
         /\ \A new : v # None /\ new.period = Deref(res, v).period /\ new.count = Deref(res, v).count =>
              Sorted(e, p, res, q, None, new)
<1>1. Le(e, p, res, res) /\ (q # None => Le(e, p, Deref(res, q), Deref(res, q)))
  BY LeReflexive DEF Deref
<1>2. Deref(res, Live) = res
  BY DEF Deref
<1>3. Sorted(e, p, res, None, v, pg) /\ Sorted(e, p, res, q, None, pg)
  BY DEF Sorted
<1>4. Sorted(e, p, res, Live, v, pg)
  BY <1>1, <1>2 DEF Sorted
<1>5. q # None => Sorted(e, p, res, q, q, pg)
  BY <1>1 DEF Sorted
<1>6. ASSUME NEW new, v # None, new.period = Deref(res, v).period, new.count = Deref(res, v).count
      PROVE  Sorted(e, p, res, q, None, new)
  <2>1. \A y : Le(e, p, Deref(res, v), y) => Le(e, p, new, y)
    BY <1>6 DEF Le
  <2>2. QED
    BY <1>6, <2>1 DEF Sorted
<1>7. QED
  BY <1>3, <1>4, <1>5, <1>6

-----------------------------------------------------------------------------
(* What is published is of the period that is remembered; a result of a    *)
(* later period is not published yet.                                      *)
Remembered ==
  /\ pc = "active" => period < current
  /\ result # None =>
       /\ period <= result.period /\ result.period <= PeriodOf(head)
       /\ pc \notin {"period", "active"} => result.period = current
       /\ Live \in {q_metrics, view} => result.period = period

Published ==
  /\ \A x \in {q_metrics, view} \ {None, Live} : x.period <= period
  /\ spc = "counts" => label = Shown(view).period
  /\ view = Live => q_metrics \in {None, Live}
  /\ page # None => result # None /\ page.period <= period

(* As long as the chain is in its period, acala has read no more points    *)
(* than there are now.                                                     *)
Points ==
  exporter = "acala" /\ result # None /\ result.period = PeriodOf(head) =>
    \A c \in DOMAIN result.count : result.count[c] <= SessionPoints(c)

Ordered == Sorted(exporter, PeriodOf(head), result, q_metrics, view, page)

PageInv == Remembered /\ Published /\ Points /\ Ordered

LEMMA AllCounted ==
  ASSUME TypeInv
  PROVE  /\ result # None => Counted(result)
         /\ \A x \in {q_metrics, view} \ {None, Live} : Counted(x)
         /\ page # None => Counted(page)
         /\ \A ref : Shown(ref) = Deref(result, ref)
<1>1. \A x : IsResult(x) => Counted(x)
  BY ResultFields DEF Counted, Periods
<1>2. page # None => Counted(page)
  BY DEF TypeInv, ScrapeOK, Counted, Periods
<1>3. QED
  BY <1>1, <1>2 DEF TypeInv, ResultOK, ScrapeOK, Shown, Deref

LEMMA PeriodNumbers ==
  ASSUME TypeInv, WholeInv, [Next]_vars
  PROVE  /\ {period, current, PeriodOf(head), PeriodOf(head')} \subseteq Nat
         /\ period <= PeriodOf(head) /\ current <= PeriodOf(head)
         /\ PeriodOf(head) <= PeriodOf(head')
         /\ result # None => result.period \in Nat
         /\ pc \notin {"period", "active"} => result # None
<1>1. TypeInv' /\ PeriodOf(head) <= PeriodOf(head')
  BY TypeStep, PeriodStep DEF WholeInv
<1>2. head \in Nat \ {0} /\ head' \in Nat \ {0}
  BY <1>1 DEF TypeInv, ChainOK
<1>3. result # None => result.period \in Nat
  BY ResultFields DEF TypeInv, ResultOK, Periods
<1>4. PeriodOf(head) \in Nat /\ PeriodOf(head') \in Nat
  BY <1>2, PeriodIsPositive
<1>5. {period, current} \subseteq Nat /\ (pc \notin {"period", "active"} => result # None)
  BY DEF TypeInv, PassOK, ResultOK, Periods
<1>6. period <= PeriodOf(head) /\ current <= PeriodOf(head)
  BY DEF WholeInv, PeriodInv
<1>7. QED
  BY <1>1, <1>3, <1>4, <1>5, <1>6

(* The steps that count.                                                   *)
Counts ==
  \/ exporter = "moonbeam" /\ (ReadAuthor \/ ReadProgress)
  \/ exporter = "astar" /\ ReadAuthored
  \/ exporter = "acala" /\ ReadPoints

LEMMA CountingGrows ==
  ASSUME TypeInv, WholeInv, Remembered, Points, [Next]_vars, Counts
  PROVE  /\ result # None /\ Counted(result) /\ Counted(result')
         /\ result'.period = result.period
         /\ UNCHANGED <<exporter, authors, period, current, q_metrics, view, spc, label, page>>
         /\ pc \notin {"period", "active"} /\ pc' \notin {"period", "active"}
         /\ Le(exporter, PeriodOf(head), result, result')
         /\ exporter = "acala" =>
              \A c \in DOMAIN result'.count :
                result'.count[c] = SessionPoints(c)
                \/ (c \in DOMAIN result.count /\ result'.count[c] = result.count[c])
<1> USE DEF Step, Leaves, chainVars, passVars, resultVars
<1>1. /\ pc \notin {"period", "active"} /\ pc' \notin {"period", "active"}
      /\ UNCHANGED <<exporter, authors, period, current, q_metrics, view, spc, label, page>>
  BY DEF Counts, ReadAuthor, ReadProgress, ReadAuthored, ReadPoints, NextCollator
<1>2. result # None /\ IsResult(result) /\ Counted(result)
  BY <1>1, AllCounted DEF TypeInv, ResultOK
<1>3. /\ DOMAIN result.count \in SUBSET Collators
      /\ \A c \in DOMAIN result.count : result.count[c] \in Nat
  BY <1>2, ResultFields
<1>4. IsResult(result')
  <2>1. TypeInv'
    BY TypeStep
  <2>2. QED
    BY <1>1, <2>1 DEF TypeInv, ResultOK
<1>5. Counted(result')
  BY <1>4, ResultFields DEF Counted, Periods
<1>6. \A x : x.period = result.period /\ DOMAIN x.count = DOMAIN result.count
             /\ (\A c \in DOMAIN result.count : x.count[c] >= result.count[c])
             /\ Counted(x)
             => Le(exporter, PeriodOf(head), result, x)
  BY <1>2 DEF Le, Counted
<1>7. CASE exporter = "moonbeam" /\ ReadAuthor
  <2>1. /\ result'.period = result.period /\ DOMAIN result'.count = DOMAIN result.count
        /\ \A c \in DOMAIN result.count : result'.count[c] >= result.count[c]
    <3>1. CASE result' = result
      BY <1>3, <3>1
    <3>2. CASE result' = Credit(authors[head])
      <4> DEFINE d == authors[head]
      <4>1. Credit(d).period = result.period /\ DOMAIN Credit(d).count = DOMAIN result.count
        BY <1>2, Crediting DEF Credit
      <4>2. \A c \in DOMAIN result.count :
              Credit(d).count[c] = result.count[c] + IF c = d THEN 1 ELSE 0
        BY <1>2, CreditCounts DEF Credit
      <4>3. QED
        BY <1>3, <3>2, <4>1, <4>2
    <3>3. QED
      BY <1>7, <3>1, <3>2 DEF ReadAuthor
  <2>2. QED
    BY <1>1, <1>2, <1>5, <1>6, <1>7, <2>1
<1>8. CASE exporter = "moonbeam" /\ ReadProgress
  <2>1. result'.period = result.period /\ result'.count = result.count
    <3>1. result.blocks + 1 \in Nat
      BY <1>2, ResultFields
    <3>2. [result EXCEPT !.blocks = result.blocks + 1].count = result.count
          /\ [result EXCEPT !.blocks = result.blocks + 1].period = result.period
      BY <1>2, <3>1, Counting
    <3>3. QED
      BY <1>8, <3>2 DEF ReadProgress
  <2>2. QED
    BY <1>1, <1>2, <1>3, <1>5, <1>6, <1>8, <2>1
<1>9. CASE exporter = "astar" /\ ReadAuthored
  <2> DEFINE d == active_collators[i]
             looked   == [result EXCEPT !.seen = @ \cup {d}]
             credited == IF d \in result.seen /\ LastAuthoredBlock(d) = last_block
                         THEN Credit(d) ELSE looked
  <2>1. d \in Collators
    BY <1>1, <1>9 DEF ReadAuthored, TypeInv, PassOK
  <2>2. IsResult(looked) /\ looked.count = result.count /\ looked.period = result.period
    BY <1>2, <2>1, Looking
  <2>3. /\ IsResult(Credit(d)) /\ DOMAIN Credit(d).count = DOMAIN result.count
        /\ Credit(d).period = result.period
    BY <1>2, Crediting DEF Credit
  <2>4. \A c \in DOMAIN result.count : Credit(d).count[c] = result.count[c] + IF c = d THEN 1 ELSE 0
    BY <1>2, CreditCounts DEF Credit
  <2>5. /\ IsResult(credited) /\ DOMAIN credited.count = DOMAIN result.count
        /\ credited.period = result.period
        /\ \A c \in DOMAIN result.count : credited.count[c] >= result.count[c]
    BY <1>3, <2>2, <2>3, <2>4
  <2>6. result'.count = credited.count /\ result'.period = credited.period
    <3>1. result' = [credited EXCEPT !.blocks = IF i = Len(active_collators) THEN @ + 1 ELSE @]
      BY <1>9 DEF ReadAuthored
    <3> HIDE DEF credited
    <3>2. (IF i = Len(active_collators) THEN credited.blocks + 1 ELSE credited.blocks) \in Nat
      BY <2>5, ResultFields
    <3>3. QED
      BY <2>5, <3>1, <3>2, Counting
  <2> HIDE DEF credited
  <2>7. QED
    BY <1>1, <1>2, <1>5, <1>6, <1>9, <2>5, <2>6
<1>10. CASE exporter = "acala" /\ ReadPoints
  <2> DEFINE d == active_collators[i]
  <2>1. d \in Collators
    BY <1>1, <1>10 DEF ReadPoints, TypeInv, PassOK
  <2>2. SessionPoints(d) \in Nat
    BY PointsAreCounts DEF TypeInv, ChainOK
  <2>3. result' = Entered(result, d, SessionPoints(d))
    BY <1>10 DEF ReadPoints, Entered
  <2>4. /\ result'.period = result.period
        /\ result'.count = [x \in DOMAIN result.count \cup {d} |->
                              IF x = d THEN SessionPoints(d) ELSE result.count[x]]
    BY <1>2, <2>1, <2>2, <2>3, Entering
  <2>5. \A c \in DOMAIN result'.count :
          result'.count[c] = SessionPoints(c)
          \/ (c \in DOMAIN result.count /\ result'.count[c] = result.count[c])
    BY <2>4
  <2>6. Le(exporter, PeriodOf(head), result, result')
    <3>1. result.period <= PeriodOf(head) /\ result.period \in Nat /\ PeriodOf(head) \in Nat
      BY <1>2, PeriodNumbers DEF Remembered, Counted
    <3>2. CASE result.period < PeriodOf(head)
      BY <1>10, <2>4, <3>2 DEF Le
    <3>3. CASE result.period = PeriodOf(head)
      <4>1. \A c \in DOMAIN result.count : result.count[c] <= SessionPoints(c)
        BY <1>2, <1>10, <3>3 DEF Points
      <4>2. \A c \in DOMAIN result.count : c \in DOMAIN result'.count /\ result.count[c] <= result'.count[c]
        BY <1>3, <2>4, <4>1
      <4>3. QED
        BY <2>4, <4>2 DEF Le
    <3>4. QED
      BY <3>1, <3>2, <3>3
  <2>7. QED
    BY <1>1, <1>2, <1>5, <2>4, <2>5, <2>6
<1>11. QED
  BY <1>7, <1>8, <1>9, <1>10 DEF Counts

(* A new result is of a later period than all that has been published.     *)
LEMMA ActiveIsLater ==
  ASSUME TypeInv, WholeInv, PageInv, [Next]_vars, ReadActive
  PROVE  /\ result' # None /\ Counted(result') /\ result'.period = current /\ period < current
         /\ pc = "active" /\ pc' \notin {"period", "active"}
         /\ UNCHANGED <<exporter, authors, period, current, spc, label, page>>
         /\ q_metrics' = Deref(result, q_metrics) /\ view' = Deref(result, view)
         /\ Live \notin {q_metrics', view'}
         /\ q_metrics # None => q_metrics' # None
         /\ view # None => view' # None
         /\ \A x \in {page, q_metrics', view'} \ {None} : x.period <= period
         /\ exporter = "acala" => DOMAIN result'.count = {}
<1>1. /\ pc = "active" /\ pc' \notin {"period", "active"}
      /\ UNCHANGED <<exporter, authors, period, current, spc, label, page>>
      /\ q_metrics' = Deref(result, q_metrics) /\ view' = Deref(result, view)
  BY AllCounted DEF ReadActive, Step, Leaves, chainVars
<1>2. result' # None /\ Counted(result') /\ result'.period = current
      /\ (exporter = "acala" => DOMAIN result'.count = {})
  <2>1. active_collators' \in Seq(Collators)
    BY HeadPeriod, ConstantsAssumption DEF ConstantsAssumption, TypeInv, ChainOK, ReadActive
  <2>2. Range(active_collators') \in SUBSET Collators /\ current \in Periods
    BY <1>1, <2>1 DEF Range, TypeInv, PassOK
  <2>3. result' = NewResult(Range(active_collators'))
    BY DEF ReadActive
  <2>4. IsResult(result') /\ result'.period = current /\ (exporter = "acala" => DOMAIN result'.count = {})
    BY <2>2, <2>3, Starting
  <2>5. QED
    BY <2>4, ResultFields DEF Counted, Periods
<1>3. period < current
  BY <1>1 DEF PageInv, Remembered
<1>4. \A ref \in {q_metrics, view} \ {None} : IsResult(Deref(result, ref))
  BY AllCounted, ShownIsResult
<1>5. \A ref \in {q_metrics, view} \ {None} :
        Deref(result, ref) \notin {None, Live} /\ Deref(result, ref).period <= period
  <2> TAKE ref \in {q_metrics, view} \ {None}
  <2>1. Deref(result, ref) \notin {None, Live} /\ result # None
    BY <1>4, ResultFields DEF TypeInv, ResultOK
  <2>2. CASE ref = Live
    BY <1>4, <2>1, <2>2, ResultFields DEF PageInv, Remembered, Deref, Periods
  <2>3. CASE ref # Live
    BY <2>1, <2>3 DEF PageInv, Published, Deref
  <2>4. QED
    BY <2>2, <2>3
<1>6. None # Live
  BY ConstantsAssumption DEF ConstantsAssumption
<1>7. /\ q_metrics = None => q_metrics' = None
      /\ view = None => view' = None
  BY <1>1, <1>6 DEF Deref
<1>8. page # None => page.period <= period
  BY DEF PageInv, Published
<1>9. QED
  BY <1>1, <1>2, <1>3, <1>5, <1>6, <1>7, <1>8

LEMMA RememberedStep ==
  ASSUME TypeInv, WholeInv, PageInv, [Next]_vars
  PROVE  Remembered'
<1> USE DEF Step, Leaves, chainVars, passVars, resultVars, scrapeVars, NextPass
<1>1. /\ {period, current, PeriodOf(head), PeriodOf(head')} \subseteq Nat
      /\ period <= PeriodOf(head) /\ current <= PeriodOf(head) /\ PeriodOf(head) <= PeriodOf(head')
      /\ result # None => result.period \in Nat
      /\ pc \notin {"period", "active"} => result # None
      /\ None # Live
  BY PeriodNumbers, ConstantsAssumption DEF ConstantsAssumption
<1>2. Remembered
  BY DEF PageInv
<1>3. /\ result # None => period <= result.period /\ result.period <= PeriodOf(head')
      /\ result # None /\ PeriodOf(head) = period => result.period = period
  BY <1>1, <1>2 DEF Remembered
<1>4. CASE (\E c \in Collators : Author(c)) \/ Scrape \/ UNCHANGED vars
  <2>1. /\ UNCHANGED <<pc, period, current, result>>
        /\ {q_metrics', view'} \subseteq {q_metrics, view, None}
    BY <1>4 DEF Author, Scrape, MoonbeamScrape, AstarScrape, AcalaScrape, ScrapeTest, ScrapeGet,
                ScrapePeriod, ScrapeCounts, vars
  <2>2. QED
    BY <1>1, <1>2, <1>3, <2>1 DEF Remembered
<1>5. CASE ReadPeriod
  <2>1. /\ UNCHANGED <<period, result, q_metrics, view>> /\ current' = PeriodOf(head)
        /\ pc' = "active" => PeriodOf(head) # period
        /\ pc' # "period" /\ (pc' # "active" => PeriodOf(head) = period /\ period # 0)
    <3>1. PeriodOf(head) # 0
      BY PeriodIsPositive DEF TypeInv, ChainOK
    <3>2. QED
      BY <1>5, <3>1 DEF ReadPeriod, IsNew
  <2>2. QED
    BY <1>1, <1>2, <1>3, <2>1 DEF Remembered
<1>6. CASE ReadActive
  <2>1. /\ result' # None /\ result'.period = current /\ period < current
        /\ pc' \notin {"period", "active"} /\ UNCHANGED <<period, current>>
        /\ Live \notin {q_metrics', view'}
    BY <1>6, ActiveIsLater
  <2>2. QED
    BY <1>1, <2>1 DEF Remembered
<1>7. CASE ReadHead
  <2>1. /\ pc = "head" /\ pc' # "active" /\ UNCHANGED <<result, q_metrics, view>>
        /\ \/ pc' # "period" /\ UNCHANGED <<period, current>>
           \/ pc' = "period" /\ period' = current
    BY <1>7 DEF ReadHead
  <2>2. result # None /\ result.period = current
    BY <1>1, <1>2, <2>1 DEF Remembered
  <2>3. QED
    BY <1>1, <1>2, <1>3, <2>1, <2>2 DEF Remembered
<1>8. CASE Counts
  <2>1. /\ result # None /\ result'.period = result.period
        /\ UNCHANGED <<period, current, q_metrics, view>>
        /\ pc \notin {"period", "active"} /\ pc' \notin {"period", "active"}
    BY <1>2, <1>8, CountingGrows DEF PageInv
  <2>2. QED
    BY <1>1, <1>2, <1>3, <2>1 DEF Remembered
<1>9. CASE Clear
  <2>1. /\ pc \notin {"period", "active"} /\ pc' \notin {"period", "active"}
        /\ UNCHANGED <<period, current, result, view>> /\ q_metrics' = None
    BY <1>9 DEF Clear
  <2>2. QED
    BY <1>1, <1>2, <1>3, <2>1 DEF Remembered
<1>10. CASE Publish
  <2>1. pc = "append" /\ pc' = "period" /\ UNCHANGED result /\ period' = current
    BY <1>10 DEF Publish
  <2>2. result # None /\ result.period = current
    BY <1>1, <1>2, <2>1 DEF Remembered
  <2>3. QED
    BY <1>1, <1>3, <2>1, <2>2 DEF Remembered
<1>11. CASE Fail
  <2>1. pc' = "period" /\ UNCHANGED <<period, result, q_metrics, view>>
    BY <1>11 DEF Fail
  <2>2. QED
    BY <1>1, <1>2, <1>3, <2>1 DEF Remembered
<1>12. QED
  BY <1>4, <1>5, <1>6, <1>7, <1>8, <1>9, <1>10, <1>11 DEF Next, Main, Moonbeam, Astar, Acala, Counts

LEMMA PublishedStep ==
  ASSUME TypeInv, WholeInv, PageInv, [Next]_vars
  PROVE  Published'
<1> USE DEF Step, Leaves, chainVars, passVars, resultVars, scrapeVars, NextPass
<1>1. /\ {period, current} \subseteq Nat /\ None # Live
      /\ result # None => result.period \in Nat
      /\ pc \notin {"period", "active"} => result # None
      /\ \A ref : Shown(ref) = Deref(result, ref)
  BY PeriodNumbers, AllCounted, ConstantsAssumption DEF ConstantsAssumption
<1>2. Remembered /\ Published
  BY DEF PageInv
<1>3. /\ \A x \in {q_metrics, view} \ {None, Live} : x.period \in Nat
      /\ page # None => page.period \in Nat
  BY AllCounted DEF Counted
<1>4. ASSUME UNCHANGED <<result, view, spc, label, page>>, period' \in Nat, period <= period',
             q_metrics' \in {q_metrics, None, Live}
      PROVE  Published'
  <2>1. \A x \in {q_metrics', view'} \ {None, Live} : x.period <= period'
    BY <1>1, <1>2, <1>3, <1>4 DEF Published
  <2>2. page' # None => result' # None /\ page'.period <= period'
    BY <1>1, <1>2, <1>3, <1>4 DEF Published
  <2>3. spc' = "counts" => label' = Shown(view)'.period
    BY <1>2, <1>4 DEF Published, Shown
  <2>4. QED
    BY <1>2, <1>4, <2>1, <2>2, <2>3 DEF Published
<1>5. CASE (\E c \in Collators : Author(c)) \/ ReadPeriod \/ Clear \/ Fail \/ UNCHANGED vars
  BY <1>1, <1>4, <1>5 DEF Author, ReadPeriod, Clear, Fail, vars
<1>6. CASE ReadHead \/ Publish
  <2>1. period' \in {period, current} /\ result # None /\ result.period = current
    BY <1>1, <1>2, <1>6 DEF ReadHead, Publish, Remembered
  <2>2. period' \in Nat /\ period <= period'
    BY <1>1, <1>2, <2>1 DEF Remembered
  <2>3. QED
    BY <1>4, <1>6, <2>2 DEF ReadHead, Publish
<1>7. CASE ReadActive
  <2>1. /\ result' # None /\ UNCHANGED <<period, spc, label, page>>
        /\ view' = Deref(result, view) /\ Live \notin {q_metrics', view'}
        /\ \A x \in {page, q_metrics', view'} \ {None} : x.period <= period
    BY <1>7, ActiveIsLater
  <2>2. spc' = "counts" => label' = Shown(view)'.period
    BY <1>1, <1>2, <2>1 DEF Published, Shown
  <2>3. QED
    BY <2>1, <2>2 DEF Published
<1>8. CASE Counts
  <2>1. /\ result # None /\ result'.period = result.period
        /\ UNCHANGED <<period, q_metrics, view, spc, label, page>>
    BY <1>2, <1>8, CountingGrows DEF PageInv
  <2>2. result' # None
    <3>1. TypeInv' /\ pc' \notin {"period", "active"}
      BY <1>2, <1>8, TypeStep, CountingGrows DEF PageInv
    <3>2. QED
      BY <3>1 DEF TypeInv, ResultOK
  <2>3. spc' = "counts" => label' = Shown(view)'.period
    BY <1>2, <2>1 DEF Published, Shown
  <2>4. QED
    BY <1>2, <2>1, <2>2, <2>3 DEF Published
<1>9. CASE Scrape
  <2>1. UNCHANGED <<period, result, q_metrics>>
    BY <1>9 DEF Scrape
  <2>2. CASE ScrapeTest \/ ScrapeGet("get") \/ ScrapeGet("idle")
    <3>1. view' \in {view, q_metrics, None} /\ UNCHANGED <<label, page>> /\ spc' # "counts"
      BY <2>2 DEF ScrapeTest, ScrapeGet
    <3>2. QED
      BY <1>1, <1>2, <2>1, <3>1 DEF Published
  <2>3. CASE ScrapePeriod
    <3>1. UNCHANGED <<view, page>> /\ label' = Shown(view)'.period
      BY <2>1, <2>3 DEF ScrapePeriod, Shown
    <3>2. QED
      BY <1>2, <2>1, <3>1 DEF Published
  <2>4. CASE ScrapeCounts
    <3>1. view' = None /\ page'.period = label /\ spc' # "counts"
          /\ spc = "counts" /\ label = Shown(view).period
      BY <1>2, <2>4 DEF ScrapeCounts, Published
    <3>2. view # None /\ result # None
      BY <3>1 DEF TypeInv, ScrapeOK, ResultOK
    <3>3. label <= period
      BY <1>1, <1>2, <3>1, <3>2 DEF Shown, Remembered, Published
    <3>4. QED
      BY <1>1, <1>2, <2>1, <3>1, <3>2, <3>3 DEF Published
  <2>5. QED
    BY <1>9, <2>2, <2>3, <2>4 DEF Scrape, MoonbeamScrape, AstarScrape, AcalaScrape
<1>10. QED
  BY <1>5, <1>6, <1>7, <1>8, <1>9 DEF Next, Main, Moonbeam, Astar, Acala, Counts

LEMMA SessionPointsGrow ==
  ASSUME TypeInv, NEW a \in Collators, Author(a), PeriodOf(head') = PeriodOf(head), NEW c
  PROVE  SessionPoints(c) \in Nat /\ SessionPoints(c)' \in Nat /\ SessionPoints(c) <= SessionPoints(c)'
<1> DEFINE before == {b \in {b \in 1 .. head : PeriodOf(b) = PeriodOf(head)} : authors[b] = c}
           after  == {b \in {b \in 1 .. head' : PeriodOf(b) = PeriodOf(head')} : authors'[b] = c}
<1>1. /\ head \in Nat /\ head' = head + 1
      /\ \A b \in 1 .. head : authors'[b] = authors[b]
  BY Numbers DEF Author, head
<1>2. before \subseteq after /\ after \subseteq 1 .. head'
  BY <1>1
<1>3. IsFiniteSet(after)
  <2>1. IsFiniteSet(1 .. head')
    BY <1>1, FS_Interval
  <2>2. QED
    BY <1>2, <2>1, FS_Subset
<1>4. /\ IsFiniteSet(before)
      /\ Cardinality(before) \in Nat /\ Cardinality(after) \in Nat
      /\ Cardinality(before) <= Cardinality(after)
  BY <1>2, <1>3, FS_Subset, FS_CardinalityType
<1>5. SessionPoints(c) = Cardinality(before) /\ SessionPoints(c)' = Cardinality(after)
  BY DEF SessionPoints, AuthoredIn
<1> HIDE DEF before, after
<1>6. QED
  BY <1>4, <1>5

LEMMA PointsStep ==
  ASSUME TypeInv, WholeInv, PageInv, [Next]_vars
  PROVE  Points'
<1> USE DEF Step, Leaves, chainVars, passVars, resultVars, scrapeVars
<1>1. /\ {PeriodOf(head), PeriodOf(head')} \subseteq Nat /\ PeriodOf(head) <= PeriodOf(head')
      /\ result # None => result.period \in Nat /\ result.period <= PeriodOf(head)
                          /\ \A c \in DOMAIN result.count : result.count[c] \in Nat
  BY PeriodNumbers, Numbers DEF PageInv, Remembered
<1>2. Points
  BY DEF PageInv
<1>3. ASSUME UNCHANGED <<exporter, authors, result>> PROVE Points'
  BY <1>2, <1>3 DEF Points, SessionPoints, AuthoredIn, head
<1>4. CASE \E a \in Collators : Author(a)
  <2>1. PICK a \in Collators : Author(a)
    BY <1>4
  <2>2. UNCHANGED <<exporter, result>>
    BY <2>1 DEF Author
  <2>3. ASSUME exporter = "acala", result # None, result.period = PeriodOf(head'),
               NEW c \in DOMAIN result.count
        PROVE  result.count[c] <= SessionPoints(c)'
    <3>1. PeriodOf(head') = PeriodOf(head) /\ result.count[c] \in Nat
      BY <1>1, <2>3
    <3>2. result.count[c] <= SessionPoints(c)
      BY <1>2, <2>3, <3>1 DEF Points
    <3>3. SessionPoints(c) \in Nat /\ SessionPoints(c)' \in Nat /\ SessionPoints(c) <= SessionPoints(c)'
      BY <2>1, <3>1, SessionPointsGrow
    <3>4. QED
      BY <3>1, <3>2, <3>3
  <2>4. QED
    BY <2>2, <2>3 DEF Points
<1>5. CASE ReadActive
  <2>1. exporter' = exporter /\ (exporter = "acala" => DOMAIN result'.count = {})
    BY <1>5, ActiveIsLater
  <2>2. QED
    BY <2>1 DEF Points
<1>6. CASE Counts
  <2>1. /\ result # None /\ result'.period = result.period /\ UNCHANGED <<exporter, authors>>
        /\ exporter = "acala" =>
             \A c \in DOMAIN result'.count :
               result'.count[c] = SessionPoints(c)
               \/ (c \in DOMAIN result.count /\ result'.count[c] = result.count[c])
    BY <1>6, CountingGrows DEF PageInv
  <2>2. \A c : SessionPoints(c)' = SessionPoints(c) /\ SessionPoints(c) \in Nat
    <3>1. \A c : SessionPoints(c) \in Nat
      BY PointsAreCounts DEF TypeInv, ChainOK
    <3>2. \A c : SessionPoints(c)' = SessionPoints(c)
      BY <2>1 DEF SessionPoints, AuthoredIn, head
    <3>3. QED
      BY <3>1, <3>2
  <2>3. ASSUME exporter = "acala", result.period = PeriodOf(head), NEW c \in DOMAIN result'.count
        PROVE  result'.count[c] <= SessionPoints(c)
    <3>1. c \in DOMAIN result.count => result.count[c] <= SessionPoints(c)
      BY <1>2, <2>1, <2>3 DEF Points
    <3>2. QED
      BY <2>1, <2>2, <2>3, <3>1
  <2>4. PeriodOf(head') = PeriodOf(head)
    BY <2>1 DEF head
  <2>5. QED
    BY <2>1, <2>2, <2>3, <2>4 DEF Points
<1>7. CASE ReadPeriod \/ ReadHead \/ Clear \/ Publish \/ Fail \/ Scrape \/ UNCHANGED vars
  BY <1>3, <1>7 DEF ReadPeriod, ReadHead, Clear, Publish, Fail, Scrape, vars
<1>8. QED
  BY <1>4, <1>5, <1>6, <1>7 DEF Next, Main, Moonbeam, Astar, Acala, Counts

LEMMA OrderedStep ==
  ASSUME TypeInv, WholeInv, PageInv, [Next]_vars
  PROVE  Ordered'
<1> USE DEF Step, Leaves, chainVars, passVars, resultVars, scrapeVars
<1> DEFINE Now(res, q, v, pg) == Sorted(exporter, PeriodOf(head), res, q, v, pg)
<1>1. Now(result, q_metrics, view, page) /\ Published /\ Remembered /\ Points
  BY DEF PageInv, Ordered
<1>2. /\ None # Live
      /\ result # None => Counted(result)
      /\ \A x \in {q_metrics, view} \ {None, Live} : Counted(x)
      /\ page # None => Counted(page)
      /\ \A ref : Shown(ref) = Deref(result, ref)
      /\ result = None => {q_metrics, view, page} = {None}
  BY <1>1, AllCounted, ConstantsAssumption
     DEF ConstantsAssumption, TypeInv, ResultOK, Published
<1>3. ASSUME UNCHANGED <<exporter, authors>>, Now(result', q_metrics', view', page') PROVE Ordered'
  BY <1>3 DEF Ordered, head
<1>4. CASE \E c \in Collators : Author(c)
  <2>1. UNCHANGED <<exporter, result, q_metrics, view, page>>
    BY <1>4 DEF Author
  <2>2. PeriodOf(head) \in Nat /\ PeriodOf(head') \in Nat /\ PeriodOf(head) <= PeriodOf(head')
    BY PeriodNumbers
  <2>3. /\ page # None => page.period \in Nat
        /\ \A ref \in {q_metrics, view} \ {None} : Deref(result, ref).period \in Nat
    BY <1>2 DEF Counted, Deref
  <2>4. Sorted(exporter, PeriodOf(head'), result, q_metrics, view, page)
    BY <1>1, <2>2, <2>3, SortedLater
  <2>5. QED
    BY <2>1, <2>4 DEF Ordered
<1>5. CASE ReadActive
  <2>1. /\ result'.period = current /\ period < current
        /\ UNCHANGED <<exporter, authors, page>>
        /\ q_metrics' = Deref(result, q_metrics) /\ view' = Deref(result, view)
        /\ Live \notin {q_metrics', view'}
        /\ q_metrics # None => q_metrics' # None
        /\ view # None => view' # None
        /\ \A x \in {page, q_metrics', view'} \ {None} : x.period <= period
    BY <1>5, ActiveIsLater
  <2>2. \A x \in {page, q_metrics', view'} \ {None} : x.period < result'.period
    <3>1. period \in Nat /\ current \in Nat
      BY PeriodNumbers
    <3>2. \A ref \in {q_metrics, view} \ {None} : Deref(result, ref).period \in Nat
      BY <1>2 DEF Counted, Deref
    <3>3. \A x \in {page, q_metrics', view'} \ {None} : x.period \in Nat
      BY <1>2, <2>1, <3>2 DEF Counted, Deref
    <3>4. QED
      BY <2>1, <3>1, <3>3
  <2>3. Now(result', Deref(result, q_metrics), Deref(result, view), page)
    BY <1>1, <1>2, <2>1, <2>2, SortedAnew
  <2>4. QED
    BY <1>3, <2>1, <2>3
<1>6. CASE Counts
  <2>1. /\ Counted(result) /\ Counted(result')
        /\ UNCHANGED <<exporter, authors, q_metrics, view, page>>
        /\ Le(exporter, PeriodOf(head), result, result')
    BY <1>1, <1>6, CountingGrows
  <2>2. view = Live => q_metrics \in {None, Live}
    BY <1>1 DEF Published
  <2>3. Now(result', q_metrics, view, page)
    BY <1>1, <1>2, <2>1, <2>2, SortedGrows
  <2>4. QED
    BY <1>3, <2>1, <2>3
<1>7. result # None =>
        /\ Now(result, None, view, page) /\ Now(result, Live, view, page)
        /\ Now(result, q_metrics, None, page)
        /\ q_metrics # None => Now(result, q_metrics, q_metrics, page)
        /\ \A new : view # None /\ new.period = Shown(view).period /\ new.count = Shown(view).count =>
             Now(result, q_metrics, None, new)
  BY <1>1, <1>2, SortedMoves
<1>8. CASE Clear \/ Publish
  <2>1. result # None /\ UNCHANGED <<exporter, authors, result, view, page>>
    BY <1>8, PeriodNumbers DEF Clear, Publish
  <2>2. QED
    BY <1>3, <1>7, <1>8, <2>1 DEF Clear, Publish
<1>9. CASE Scrape
  <2>1. UNCHANGED <<exporter, authors, result, q_metrics>>
    BY <1>9 DEF Scrape
  <2>2. CASE ScrapeTest \/ ScrapePeriod
    BY <1>1, <1>3, <2>1, <2>2 DEF ScrapeTest, ScrapePeriod
  <2>3. CASE ScrapeGet("get") \/ ScrapeGet("idle")
    <3>1. UNCHANGED page /\ (IF q_metrics = None THEN view' = None ELSE view' = q_metrics)
      BY <2>3 DEF ScrapeGet
    <3>2. CASE result = None
      BY <1>1, <1>2, <1>3, <2>1, <3>1, <3>2
    <3>3. CASE result # None
      BY <1>3, <1>7, <2>1, <3>1, <3>3
    <3>4. QED
      BY <3>2, <3>3
  <2>4. CASE ScrapeCounts
    <3>1. /\ view' = None /\ page'.period = label /\ page'.count = Shown(view).count
          /\ label = Shown(view).period /\ view # None
      BY <1>1, <2>4 DEF ScrapeCounts, Published, TypeInv, ScrapeOK
    <3>2. result # None
      BY <1>2, <3>1
    <3>3. QED
      BY <1>3, <1>7, <2>1, <3>1, <3>2
  <2>5. QED
    BY <1>9, <2>2, <2>3, <2>4 DEF Scrape, MoonbeamScrape, AstarScrape, AcalaScrape
<1>10. CASE ReadPeriod \/ ReadHead \/ Fail \/ UNCHANGED vars
  BY <1>1, <1>3, <1>10 DEF ReadPeriod, ReadHead, Fail, vars
<1>11. QED
  BY <1>4, <1>5, <1>6, <1>8, <1>9, <1>10 DEF Next, Main, Moonbeam, Astar, Acala, Counts

(* Whatever a scrape reads while the worker counts on, gives a pass up or  *)
(* starts anew, and whatever the chain does meanwhile: the pages do not go *)
(* back, but for the counts of acala once their session is over.           *)
THEOREM PagesOnlyGrow == Spec => PagesGrow
<1>1. Init => PageInv
  <2> SUFFICES ASSUME Init PROVE PageInv
    OBVIOUS
  <2>1. None # Live
    BY ConstantsAssumption DEF ConstantsAssumption
  <2>2. QED
    BY <2>1 DEF Init, PageInv, Remembered, Published, Points, Ordered, Sorted
<1>2. TypeInv /\ WholeInv /\ PageInv /\ [Next]_vars => PageInv'
  BY RememberedStep, PublishedStep, PointsStep, OrderedStep DEF PageInv
<1>3. TypeInv /\ WholeInv /\ PageInv /\ [Next]_vars =>
        [page # None =>
           /\ page'.period >= page.period
           /\ page'.period = page.period =>
                \/ \A c \in DOMAIN page.count : c \in DOMAIN page'.count /\ page'.count[c] >= page.count[c]
                \/ exporter = "acala" /\ PeriodOf(head) > page.period]_page
  <2> SUFFICES ASSUME TypeInv, WholeInv, PageInv, [Next]_vars, page' # page, page # None
               PROVE  /\ page'.period >= page.period
                      /\ page'.period = page.period =>
                           \/ \A c \in DOMAIN page.count :
                                c \in DOMAIN page'.count /\ page'.count[c] >= page.count[c]
                           \/ exporter = "acala" /\ PeriodOf(head) > page.period
    OBVIOUS
  <2>1. ScrapeCounts
    <3>1. CASE (\E c \in Collators : Author(c)) \/ UNCHANGED vars
      BY <3>1 DEF Author, vars, scrapeVars
    <3>2. CASE Main
      BY <3>2 DEF Main, Moonbeam, Astar, Acala, ReadPeriod, ReadActive, ReadHead, ReadAuthor,
                  ReadProgress, ReadAuthored, ReadPoints, Clear, Publish, Fail, Leaves, scrapeVars
    <3>3. CASE Scrape
      BY <3>3 DEF Scrape, MoonbeamScrape, AstarScrape, AcalaScrape, ScrapeTest, ScrapeGet, ScrapePeriod
    <3>4. QED
      BY <3>1, <3>2, <3>3 DEF Next
  <2>2. /\ page'.period = label /\ page'.count = Shown(view).count
        /\ label = Shown(view).period /\ view # None
    BY <2>1 DEF ScrapeCounts, PageInv, Published, TypeInv, ScrapeOK
  <2>3. PICK shown : shown = Shown(view)
    OBVIOUS
  <2>4. Le(exporter, PeriodOf(head), page, shown)
    BY <2>2, <2>3, AllCounted DEF PageInv, Ordered, Sorted
  <2>5. Counted(page) /\ Counted(shown)
    BY <2>2, <2>3, AllCounted, ShownIsResult, ResultFields DEF Counted, Periods
  <2>6. PeriodOf(head) \in Nat
    BY PeriodNumbers
  <2>7. /\ shown.period >= page.period
        /\ shown.period = page.period =>
             \/ \A c \in DOMAIN page.count : c \in DOMAIN shown.count /\ shown.count[c] >= page.count[c]
             \/ exporter = "acala" /\ PeriodOf(head) > page.period
    BY <2>4, <2>5, <2>6 DEF Le, Counted
  <2>8. QED
    BY <2>2, <2>3, <2>7
<1>4. QED
  BY <1>1, <1>2, <1>3, TypeInvariant, WholeInvariant, PTL DEF Spec, PagesGrow
=============================================================================
