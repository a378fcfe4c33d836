----------------------------- MODULE Collators -----------------------------
(***************************************************************************)
(* The exporters of the parachains: exporters/moonbeam, exporters/astar    *)
(* and exporters/acala (exporter.py).                                      *)
(*                                                                         *)
(* Their workers share one loop.  It reads the period of the chain (a      *)
(* round of moonbeam, a session of the others); in a new one it reads the  *)
(* active collators and starts a new result.  moonbeam and astar then      *)
(* count the blocks they happen to see, one for each head; acala copies    *)
(* the points the chain counts itself.  The result is published and goes   *)
(* on being written: q_metrics and the scrapes hold a reference to it.  A  *)
(* request that fails ends the pass, and the next one starts with what the *)
(* worker remembers of the pass before.                                    *)
(*                                                                         *)
(* The chain is the environment, and nothing is assumed of its pace: a     *)
(* request may take as long as it likes.  exporter, chosen at the start,   *)
(* says which of the three runs.                                           *)
(*                                                                         *)
(* A definition X_Y is X with the bug Y: no action uses it, the mutation   *)
(* runs put it in the place of X.                                          *)
(***************************************************************************)
EXTENDS Integers, FiniteSets, FiniteSetsExt, Functions, SequencesExt

CONSTANTS Collators,
          Active,        \* Active[p]: the active collators of period p, listed
          PeriodLength,  \* blocks of a period
          MaxBlock,      \* bound: blocks of the chain
          MaxFailures,   \* bound: failed requests
          None,          \* no metrics, no page
          Live           \* a reference to the result of the worker

PeriodOf(b) == (b + PeriodLength - 1) \div PeriodLength
Periods     == 1 .. PeriodOf(MaxBlock)

(* What the worker keeps for a period: blocks seen, collators astar has    *)
(* looked at, and how many blocks the collators cs have made.              *)
Results(cs) == [period : Periods, blocks : Nat, seen : SUBSET Collators, count : [cs -> Nat]]

IsResult(r) == \E cs \in SUBSET Collators : r \in Results(cs)

ASSUME ConstantsAssumption ==
  /\ ~IsResult(None) /\ ~IsResult(Live) /\ None # Live
  /\ PeriodLength \in Nat \ {0}
  /\ MaxBlock \in Nat \ {0}
  /\ MaxFailures \in Nat
  /\ \A p \in Periods : Active[p] \in Seq(Collators) \ {<<>>} /\ IsInjective(Active[p])

VARIABLES exporter,
          authors,       \* the chain: authors[b] made block b
          pc, period, block,                        \* main: rnd or session, block
          current, last_block, active_collators, i, \* main: what a pass has read
          result, q_metrics,
          spc, view, label, page,  \* a scrape, and the last page it gave
          failures,
          since          \* for the properties: the head when result was started

chainVars  == <<exporter, authors>>
passVars   == <<current, last_block, active_collators, i>>
resultVars == <<result, since>>
scrapeVars == <<spc, view, label, page>>
vars == <<chainVars, pc, period, block, passVars, resultVars, q_metrics, scrapeVars, failures>>

head == Len(authors)

AuthoredIn(c, blocks) == Cardinality({b \in blocks : authors[b] = c})

(* What a reference stands for.  A new result leaves the old one to those  *)
(* that hold it.                                                           *)
Shown(ref) == IF ref = Live THEN result ELSE ref

Init ==
  /\ exporter \in {"moonbeam", "astar", "acala"}
  /\ authors \in [{1} -> Range(Active[1])]
  /\ pc = "period" /\ period = 0 /\ block = 0
  /\ current = 0 /\ last_block = 0 /\ active_collators = <<>> /\ i = 1
  /\ result = None /\ since = 0
  /\ q_metrics = None
  /\ spc = "idle" /\ view = None /\ label = 0 /\ page = None
  /\ failures = 0

-----------------------------------------------------------------------------
(* The chain.                                                              *)
Author(c) ==
  /\ head < MaxBlock
  /\ c \in Range(Active[PeriodOf(head + 1)])
  /\ authors' = Append(authors, c)
  /\ UNCHANGED <<exporter, pc, period, block, passVars, resultVars, q_metrics, scrapeVars, failures>>

LastAuthoredBlock(c) == Max({0} \cup {b \in 1 .. head : authors[b] = c})

SessionPoints(c) == AuthoredIn(c, {b \in 1 .. head : PeriodOf(b) = PeriodOf(head)})

-----------------------------------------------------------------------------
(* main.                                                                   *)
Step(from, to) == pc = from /\ pc' = to

Leaves == UNCHANGED <<chainVars, spc, label, page, failures>>

(* The next pass reads everything again but the collators of the period.   *)
NextPass ==
  /\ current' = 0 /\ last_block' = 0 /\ i' = 1
  /\ UNCHANGED active_collators

(* A period is new when it is not the one remembered.                      *)
IsNew == PeriodOf(head) # period

ReadPeriod_Once ==
  /\ Step("period", IF period = 0 THEN "active" ELSE IF exporter = "acala" THEN "collator" ELSE "head")
  /\ current' = PeriodOf(head)
  /\ UNCHANGED <<period, block, last_block, active_collators, i, resultVars, q_metrics, view>>
  /\ Leaves

ReadPeriod ==
  /\ Step("period", IF IsNew THEN "active" ELSE IF exporter = "acala" THEN "collator" ELSE "head")
  /\ current' = PeriodOf(head)
  /\ UNCHANGED <<period, block, last_block, active_collators, i, resultVars, q_metrics, view>>
  /\ Leaves

(* acala enters a collator into its result with the points.                *)
NewResult_Old(collators) ==
  [period |-> period, blocks |-> 0, seen |-> {},
   count |-> [c \in IF exporter = "acala" THEN {} ELSE collators |-> 0]]

NewResult(collators) ==
  [period |-> current, blocks |-> 0, seen |-> {},
   count |-> [c \in IF exporter = "acala" THEN {} ELSE collators |-> 0]]

ReadActive ==
  /\ Step("active", IF exporter = "acala" THEN "collator" ELSE "head")
  /\ active_collators' = Active[PeriodOf(head)]
  /\ result' = NewResult(Range(active_collators'))
  /\ since' = head
  /\ q_metrics' = Shown(q_metrics)
  /\ view' = Shown(view)
  /\ UNCHANGED <<period, block, current, last_block, i>>
  /\ Leaves

(* moonbeam, astar: is there a block that was not there the last time?     *)
ReadHead ==
  /\ IF head # block
     THEN /\ Step("head", IF exporter = "astar" THEN "collator" ELSE "author")
          /\ last_block' = head
          /\ UNCHANGED <<period, block, current, active_collators, i>>
     ELSE /\ Step("head", "period")
          /\ period' = current
          /\ block' = head
          /\ NextPass
  /\ UNCHANGED <<resultVars, q_metrics, view>>
  /\ Leaves

Credit(c) == [result EXCEPT !.count[c] = @ + 1]

(* moonbeam: the author of the block that is the head by now.              *)
ReadAuthor ==
  /\ Step("author", "round")
  /\ result' = IF authors[head] \in DOMAIN result.count THEN Credit(authors[head]) ELSE result
  /\ UNCHANGED <<period, block, passVars, since, q_metrics, view>>
  /\ Leaves

(* get_round_progress: two more requests.                                  *)
ReadProgress ==
  /\ \/ Step("round", "number") /\ UNCHANGED result
     \/ Step("number", "clear") /\ result' = [result EXCEPT !.blocks = @ + 1]
  /\ UNCHANGED <<period, block, passVars, since, q_metrics, view>>
  /\ Leaves

NextCollator ==
  IF i < Len(active_collators) THEN pc' = pc /\ i' = i + 1 ELSE pc' = "clear" /\ i' = 1

(* astar: whose last block is it?  When a collator is looked at for the    *)
(* first time in a session it gets no credit.                              *)
ReadAuthored_Near ==
  LET c == active_collators[i]
      looked   == [result EXCEPT !.seen = @ \cup {c}]
      credited == IF c \in result.seen /\ LastAuthoredBlock(c) >= last_block - 1
                  THEN Credit(c) ELSE looked
  IN /\ pc = "collator"
     /\ result' = [credited EXCEPT !.blocks = IF i = Len(active_collators) THEN @ + 1 ELSE @]
     /\ NextCollator
     /\ UNCHANGED <<period, block, current, last_block, active_collators, since, q_metrics, view>>
     /\ Leaves

ReadAuthored ==
  LET c == active_collators[i]
      looked   == [result EXCEPT !.seen = @ \cup {c}]
      credited == IF c \in result.seen /\ LastAuthoredBlock(c) = last_block
                  THEN Credit(c) ELSE looked
  IN /\ pc = "collator"
     /\ result' = [credited EXCEPT !.blocks = IF i = Len(active_collators) THEN @ + 1 ELSE @]
     /\ NextCollator
     /\ UNCHANGED <<period, block, current, last_block, active_collators, since, q_metrics, view>>
     /\ Leaves

(* acala: the points of a collator.                                        *)
ReadPoints_First ==
  LET c == active_collators[i]
  IN /\ Step("collator", "clear")
     /\ result' = [result EXCEPT !.count = [x \in DOMAIN @ \cup {c} |->
                                              IF x = c THEN SessionPoints(c) ELSE @[x]]]
     /\ UNCHANGED <<period, block, passVars, since, q_metrics, view>>
     /\ Leaves

ReadPoints ==
  LET c == active_collators[i]
  IN /\ pc = "collator"
     /\ result' = [result EXCEPT !.count = [x \in DOMAIN @ \cup {c} |->
                                              IF x = c THEN SessionPoints(c) ELSE @[x]]]
     /\ NextCollator
     /\ UNCHANGED <<period, block, current, last_block, active_collators, since, q_metrics, view>>
     /\ Leaves

Clear ==
  /\ Step("clear", "append")
  /\ q_metrics' = None
  /\ UNCHANGED <<period, block, passVars, resultVars, view>>
  /\ Leaves

(* Only now does the worker remember what it has dealt with.               *)
Publish_Forgets ==
  /\ Step("append", "period")
  /\ q_metrics' = Live
  /\ period' = current
  /\ NextPass
  /\ UNCHANGED <<block, resultVars, view>>
  /\ Leaves

Publish ==
  /\ Step("append", "period")
  /\ q_metrics' = Live
  /\ period' = current
  /\ block' = last_block
  /\ NextPass
  /\ UNCHANGED <<resultVars, view>>
  /\ Leaves

(* The pass is given up: nothing of what it did is undone.                 *)
Fail ==
  /\ pc \notin {"clear", "append"}
  /\ failures < MaxFailures
  /\ failures' = failures + 1
  /\ pc' = "period"
  /\ NextPass
  /\ UNCHANGED <<chainVars, period, block, resultVars, q_metrics, scrapeVars>>

Moonbeam ==
  /\ exporter = "moonbeam"
  /\ \/ ReadPeriod \/ ReadActive \/ ReadHead \/ ReadAuthor \/ ReadProgress
     \/ Clear \/ Publish \/ Fail

Astar ==
  /\ exporter = "astar"
  /\ ReadPeriod \/ ReadActive \/ ReadHead \/ ReadAuthored \/ Clear \/ Publish \/ Fail

Acala ==
  /\ exporter = "acala"
  /\ ReadPeriod \/ ReadActive \/ ReadPoints \/ Clear \/ Publish \/ Fail

Main == Moonbeam \/ Astar \/ Acala

-----------------------------------------------------------------------------
(* The handlers of /metrics write the page while the worker goes on: the   *)
(* period first, the counts last.  That of astar does not look whether     *)
(* there are metrics, and fails when there are none.                       *)
ScrapeTest ==
  /\ spc = "idle" /\ q_metrics # None
  /\ spc' = "get"
  /\ UNCHANGED <<view, label, page>>

ScrapeGet(from) ==
  /\ spc = from
  /\ IF q_metrics = None THEN spc' = "idle" /\ view' = None
                         ELSE spc' = "period" /\ view' = q_metrics
  /\ UNCHANGED <<label, page>>

ScrapePeriod ==
  /\ spc = "period" /\ spc' = "counts"
  /\ label' = Shown(view).period
  /\ UNCHANGED <<view, page>>

ScrapeCounts_Latest ==
  /\ spc = "counts" /\ spc' = "idle"
  /\ page' = [period |-> label, count |-> Shown(IF q_metrics = None THEN view ELSE q_metrics).count]
  /\ view' = None /\ label' = 0

ScrapeCounts ==
  /\ spc = "counts" /\ spc' = "idle"
  /\ page' = [period |-> label, count |-> Shown(view).count]
  /\ view' = None /\ label' = 0

MoonbeamScrape ==
  /\ exporter = "moonbeam"
  /\ ScrapeTest \/ ScrapeGet("get") \/ ScrapePeriod \/ ScrapeCounts

AstarScrape ==
  /\ exporter = "astar"
  /\ ScrapeGet("idle") \/ ScrapePeriod \/ ScrapeCounts

AcalaScrape ==
  /\ exporter = "acala"
  /\ ScrapeTest \/ ScrapeGet("get") \/ ScrapePeriod \/ ScrapeCounts

Scrape ==
  /\ MoonbeamScrape \/ AstarScrape \/ AcalaScrape
  /\ UNCHANGED <<chainVars, pc, period, block, passVars, resultVars, q_metrics, failures>>

-----------------------------------------------------------------------------
Next == (\E c \in Collators : Author(c)) \/ Main \/ Scrape

Spec == Init /\ [][Next]_vars

(* The worker thread goes on; nothing is assumed of the chain.             *)
FairSpec == Spec /\ WF_vars(Main)

-----------------------------------------------------------------------------
(* Every variable has its type.                                            *)
TypeOK ==
  /\ exporter \in {"moonbeam", "astar", "acala"}
  /\ authors \in Seq(Collators)
  /\ pc \in {"period", "active", "head", "author", "round", "number", "collator", "clear", "append"}
  /\ {period, current} \subseteq {0} \cup Periods
  /\ {block, last_block, since} \subseteq 0 .. MaxBlock
  /\ active_collators \in Seq(Collators)
  /\ i \in 1 .. Len(active_collators) + 1
  /\ \A r \in {result, q_metrics, view} \ {None, Live} : IsResult(r)
  /\ result # Live
  /\ result = None => {q_metrics, view} = {None}
  /\ spc \in {"idle", "get", "period", "counts"}
  /\ label \in {0} \cup Periods
  /\ page # None => page.period \in Periods /\ \E cs \in SUBSET Collators : page.count \in [cs -> Nat]
  /\ failures \in 0 .. MaxFailures

(* A collator is credited with blocks it made in this period's time.       *)
(* moonbeam asks for the author after the head (exporter.py:136-140), so   *)
(* that one block may count twice, and a pass that fails has counted       *)
(* already (:144-147, astar:95): no block counts more often than that.     *)
NoOvercount ==
  result # None /\ exporter # "acala" =>
    \A c \in DOMAIN result.count :
      result.count[c] <= (IF exporter = "moonbeam" THEN 2 ELSE 1) * AuthoredIn(c, since .. head)
                         + failures

(* However often a pass is repeated, a block counts once as a block of the *)
(* period: after a failure its block is not counted yet, and after a       *)
(* success it is remembered (moonbeam:148-157, astar:100-106).             *)
BlocksAreDistinct ==
  result # None =>
    result.blocks <= Cardinality({b \in since .. head : b <= Max({block, last_block})})

(* What is published never changes size under a scrape that goes through   *)
(* it, also where the collators are entered one after the other            *)
(* (acala:78-82).  It lists all the collators of its period; when the      *)
(* period turns between the two requests (moonbeam:121-124, astar:67-70,   *)
(* acala:67-70), those of the later period, under the name of the earlier  *)
(* one.  It never lists those of a period before its own, or of two.       *)
PublishedIsWhole ==
  \A ref \in {q_metrics, view} \ {None} :
    \E p \in Periods :
      /\ DOMAIN Shown(ref).count = Range(Active[p])
      /\ p >= Shown(ref).period
      /\ ref = Live => p = PeriodOf(since)

(* The pages never go back to an earlier period, nor do the counts of the  *)
(* same one fall or a collator of it disappear, failed passes or not; they *)
(* may in acala when the session has changed between two requests          *)
(* (acala:67-79).                                                          *)
PagesGrow ==
  [][page # None =>
       /\ page'.period >= page.period
       /\ page'.period = page.period =>
            \/ \A c \in DOMAIN page.count :
                 c \in DOMAIN page'.count /\ page'.count[c] >= page.count[c]
            \/ exporter = "acala" /\ PeriodOf(head) > page.period]_page

(* A period, or one after it that the worker finds instead, is shown in    *)
(* the end, unless all of its blocks have been counted to the one before:  *)
(* a new result waits for a new block (moonbeam:136, astar:82).            *)
PeriodIsShown ==
  \A p \in Periods :
    PeriodOf(head) = p ~> \/ q_metrics # None /\ Shown(q_metrics).period >= p
                          \/ result # None /\ result.period >= p /\ result.blocks = 0 /\ block = head
=============================================================================
