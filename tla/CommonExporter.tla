--------------------------- MODULE CommonExporter ---------------------------
(***************************************************************************)
(* exporters/common/common_exporter.py and the requests of functions.py.   *)
(*                                                                         *)
(* The worker thread (main) reads the era, the session, the points of the  *)
(* era and the paravalidators every 15 s, one request after the other from *)
(* a chain that goes on meanwhile.  The chain counts points per era; the   *)
(* exporter wants them per session and keeps, for every paravalidator, the *)
(* points of each session of the era (q_state): what the earlier sessions  *)
(* do not account for belongs to the current one.  A fresh process guesses *)
(* the earlier sessions (warmup_state).  The HTTP thread answers scrapes   *)
(* from q_metrics, which the worker clears and fills again.                *)
(*                                                                         *)
(* A session is hours long and a pass of the worker a matter of seconds:   *)
(* the next session starts only after a pass that lies within this one, or *)
(* while the process is down (NextSession).                                *)
(*                                                                         *)
(* A definition X_Y is X with the bug Y: no action uses it, the mutation   *)
(* runs put it in the place of X.                                          *)
(***************************************************************************)
EXTENDS Integers, FiniteSets, FiniteSetsExt, SequencesExt

CONSTANTS Validators,
          Era,           \* Era[s]: the era session s belongs to
          Para,          \* Para[s]: the paravalidators of session s
          Active,        \* Active[s]: the validators of session s
          Unapplied,     \* Unapplied[e]: the slashes to be applied in era e
          SlashDepth,    \* how many eras ahead slashes are looked for
          SessionLength, \* slots of a session
          MaxSession,    \* bound: sessions of the chain
          MaxPoints,     \* bound: points that are earned
          None           \* no points read

Sessions == 1 .. MaxSession
Eras     == {Era[s] : s \in Sessions}

ASSUME ConstantsAssumption ==
  /\ MaxSession \in Nat \ {0}
  /\ MaxPoints \in Nat
  /\ SessionLength \in Nat \ {0}
  /\ SlashDepth \in Nat
  /\ Era \in [Sessions -> Nat \ {0}]
  /\ \A s, u \in Sessions : s < u => Era[s] <= Era[u]
  /\ Para \in [Sessions -> SUBSET Validators]
  /\ Active \in [Sessions -> SUBSET Validators]
  /\ \A e \in DOMAIN Unapplied : Unapplied[e] \in Seq(Validators)

VARIABLES session, slot,
          earned,          \* the chain; earned[e][v]: the points of v in era e
          pc, era, current_session,    \* main
          session_progress, era_points, session_validators, paravalidators,
          slashed_validators, first_iter, q_state, q_metrics,
          spc,             \* the handler of /metrics
          began, settled,  \* the session the pass began in; see NextSession
          account_era      \* for the properties: the era of each account

chainVars  == <<session, slot, earned>>
setVars    == <<session_validators, paravalidators, slashed_validators>>
readVars   == <<era, current_session, session_progress, era_points, setVars>>
paceVars   == <<began, settled>>
ledgerVars == <<first_iter, q_state, account_era>>
vars == <<chainVars, pc, readVars, paceVars, ledgerVars, q_metrics, spc>>

-----------------------------------------------------------------------------
StartOf(e) == Min({s \in Sessions : Era[s] = e})

(* An account, a dict of Python: the points of each of its sessions, and   *)
(* the sessions that were in it before that one.                           *)
NoAccount == [s \in {} |-> [points |-> 0, after |-> {}]]

IsNewest(account, s) == s \in DOMAIN account /\ DOMAIN account \ {s} \subseteq account[s].after

Total(account) ==
  LET upto[s \in 0 .. MaxSession] ==
        IF s = 0 THEN 0
        ELSE upto[s - 1] + IF s \in DOMAIN account THEN account[s].points ELSE 0
  IN upto[MaxSession]

Init ==
  /\ session = 1 /\ slot = 0
  /\ earned = [e \in Eras |-> [v \in Validators |-> 0]]
  /\ pc = "era"
  /\ era = 0 /\ current_session = 0 /\ session_progress = 0
  /\ era_points = None
  /\ session_validators = {} /\ paravalidators = {} /\ slashed_validators = 0
  /\ first_iter = TRUE
  /\ q_state = [v \in Validators |-> NoAccount]
  /\ q_metrics = <<>>
  /\ spc = "idle"
  /\ began = 1 /\ settled = FALSE
  /\ account_era = [v \in Validators |-> 0]

-----------------------------------------------------------------------------
(* The chain.                                                              *)
EarnedSoFar == MapThenSumSet(LAMBDA e : MapThenSumSet(LAMBDA v : earned[e][v], Validators), Eras)

Earn(v) ==
  /\ EarnedSoFar < MaxPoints
  /\ earned' = [earned EXCEPT ![Era[session]][v] = @ + 1]
  /\ UNCHANGED <<session, slot, settled>>

NextSlot ==
  /\ slot < SessionLength - 1
  /\ slot' = slot + 1
  /\ UNCHANGED <<session, earned, settled>>

NextSession ==
  /\ session < MaxSession
  /\ settled \/ pc = "down"
  /\ session' = session + 1
  /\ slot' = 0
  /\ settled' = FALSE
  /\ UNCHANGED earned

Chain ==
  /\ NextSlot \/ NextSession \/ \E v \in Validators : Earn(v)
  /\ UNCHANGED <<pc, readVars, began, ledgerVars, q_metrics, spc>>

-----------------------------------------------------------------------------
(* main: one pass of its loop.                                             *)
Step(from, to) == pc = from /\ pc' = to

Leaves == UNCHANGED <<chainVars, settled, spc>>

(* What a pass has read is read again before the next one uses it.         *)
ForgetReads ==
  /\ era' = 0 /\ current_session' = 0 /\ session_progress' = 0
  /\ era_points' = None
  /\ session_validators' = {} /\ paravalidators' = {} /\ slashed_validators' = 0

(* interrupt_main(): the process is over before another pass begins.       *)
Interrupted(from) ==
  /\ Step(from, "down")
  /\ ForgetReads
  /\ first_iter' = TRUE
  /\ q_state' = [v \in Validators |-> NoAccount]
  /\ account_era' = [v \in Validators |-> 0]
  /\ q_metrics' = <<>>
  /\ spc' = "idle"
  /\ UNCHANGED <<chainVars, began, settled>>

ReadEra_Planned ==
  /\ Step("era", "session")
  /\ era' = Era[IF session < MaxSession THEN session + 1 ELSE session]
  /\ began' = session
  /\ UNCHANGED <<current_session, session_progress, era_points, setVars>>
  /\ UNCHANGED <<ledgerVars, q_metrics>>
  /\ Leaves

ReadEra ==
  /\ Step("era", "session")
  /\ era' = Era[session]
  /\ began' = session
  /\ UNCHANGED <<current_session, session_progress, era_points, setVars>>
  /\ UNCHANGED <<ledgerVars, q_metrics>>
  /\ Leaves

ReadSession_EraStart ==
  /\ Step("session", "slot")
  /\ current_session' = StartOf(era)
  /\ UNCHANGED <<era, session_progress, era_points, setVars>>
  /\ UNCHANGED <<began, ledgerVars, q_metrics>>
  /\ Leaves

ReadSession ==
  /\ Step("session", "slot")
  /\ current_session' = session
  /\ UNCHANGED <<era, session_progress, era_points, setVars>>
  /\ UNCHANGED <<began, ledgerVars, q_metrics>>
  /\ Leaves

(* Both in slots: the code divides by session_length, era_length.          *)
start_session == StartOf(era)
era_sessions  == start_session .. current_session

ReadSlot_Backwards ==
  /\ Step("slot", "points")
  /\ session_progress' = (current_session - session) * SessionLength - slot
  /\ UNCHANGED <<era, current_session, era_points, setVars>>
  /\ UNCHANGED <<began, ledgerVars, q_metrics>>
  /\ Leaves

(* The slot of the moment, counted from the start of current_session.      *)
ReadSlot ==
  /\ Step("slot", "points")
  /\ session_progress' = (session - current_session) * SessionLength + slot
  /\ UNCHANGED <<era, current_session, era_points, setVars>>
  /\ UNCHANGED <<began, ledgerVars, q_metrics>>
  /\ Leaves

ReadPoints ==
  /\ Step("points", "sets")
  /\ era_points' = earned[era]
  /\ UNCHANGED <<era, current_session, session_progress, setVars>>
  /\ UNCHANGED <<began, ledgerVars, q_metrics>>
  /\ Leaves

(* How many slashes wait in the next SlashDepth eras.                      *)
UnappliedSlashes(e) ==
  Cardinality(UNION {{n} \X DOMAIN Unapplied[n] : n \in (e .. e + SlashDepth - 1) \cap DOMAIN Unapplied})

ReadSets_Latest ==
  /\ Step("sets", IF first_iter THEN "warmup" ELSE "calculate")
  /\ session_validators' = Active[session]
  /\ paravalidators' = Para[session]
  /\ slashed_validators' = UnappliedSlashes(era)
  /\ UNCHANGED <<era, current_session, session_progress, era_points>>
  /\ UNCHANGED <<began, ledgerVars, q_metrics>>
  /\ Leaves

ReadSets ==
  /\ Step("sets", IF first_iter THEN "warmup" ELSE "calculate")
  /\ session_validators' = Active[session]
  /\ paravalidators' = Para[current_session]
  /\ slashed_validators' = UnappliedSlashes(era)
  /\ UNCHANGED <<era, current_session, session_progress, era_points>>
  /\ UNCHANGED <<began, ledgerVars, q_metrics>>
  /\ Leaves

(* A request that fails gives None, and None.value an exception.           *)
ReadFail ==
  \E at \in {"era", "session", "slot", "points", "sets", "warmup"} : Interrupted(at)

(* The sessions of the era so far; just the current one of a long era.     *)
WarmSessions ==
  IF current_session - start_session > 7 THEN {current_session} ELSE era_sessions

Warm(v) == {s \in WarmSessions : v \in Para[s]}

(* The era points of v, evenly over the sessions it was a paravalidator    *)
(* in.  The current one, the newest if it is one of them, counts for the   *)
(* part that has passed.  Slots times points divided by slots: the code    *)
(* divides floats and drops the fraction.                                  *)
Guess(v) ==
  LET points   == era_points[v]
      sessions == Cardinality(Warm(v))
      slots    == (sessions - 1) * SessionLength + session_progress
      share(s) == IF current_session \notin Warm(v) THEN points \div sessions
                  ELSE IF s = current_session THEN (points * session_progress) \div slots
                  ELSE (points * SessionLength) \div slots
  IN [s \in Warm(v) |-> [points |-> share(s), after |-> {t \in Warm(v) : t < s}]]

(* At the very start of its first session a validator has no slots to      *)
(* share the points over: division by zero.                                *)
DividesByZero ==
  /\ session_progress = 0
  /\ \E v \in Validators : Warm(v) = {current_session}

WarmupState ==
  \/ /\ Step("warmup", "calculate")
     /\ ~DividesByZero
     /\ q_state' = [v \in Validators |-> Guess(v)]
     /\ account_era' = [v \in Validators |-> IF Warm(v) # {} THEN era ELSE 0]
     /\ first_iter' = FALSE
     /\ UNCHANGED <<readVars, began, q_metrics>>
     /\ Leaves
  \/ Interrupted("warmup") /\ DividesByZero

(* calculate_session_points: an account that lacks the current session is  *)
(* opened, sessions of other eras are dropped, and the current session has *)
(* what the others do not account for.                                     *)
Opened(v) ==
  LET account == q_state[v]
  IN [s \in DOMAIN account \cup {current_session} |->
        IF s \in DOMAIN account THEN account[s] ELSE [points |-> 0, after |-> DOMAIN account]]

Kept_Everything(v) == Opened(v)
Kept(v) ==
  [s \in DOMAIN Opened(v) \cap era_sessions |-> [Opened(v)[s] EXCEPT !.after = @ \cap era_sessions]]

Recount_Twice(v) ==
  [Kept(v) EXCEPT ![current_session].points = era_points[v] - Total(Kept(v))]

Recount(v) ==
  [Kept(v) EXCEPT ![current_session].points = era_points[v] - Total(Kept(v)) + @]

(* The current session is never dropped: see SessionIsInEra.               *)
Calculate ==
  /\ Step("calculate", "construct")
  /\ q_state' = [v \in Validators |->
                   IF v \in paravalidators THEN Recount(v) ELSE q_state[v]]
  /\ account_era' = [v \in Validators |->
                       IF v \in paravalidators THEN era ELSE account_era[v]]
  /\ UNCHANGED <<first_iter, readVars, began, q_metrics>>
  /\ Leaves

(* construct_metrics, and q_metrics.clear().  The median of no points at   *)
(* all is not a number, which int() refuses.                               *)
Reported == {v \in Validators : IsNewest(q_state[v], current_session)}

Construct ==
  \/ /\ Step("construct", "publish")
     /\ Reported # {}
     /\ q_metrics' = <<>>
     /\ UNCHANGED <<readVars, began, ledgerVars>>
     /\ Leaves
  \/ Interrupted("construct") /\ Reported = {}

(* What is not derived from these is left out of the metrics.              *)
Metrics ==
  [session |-> current_session,
   sessionValidators |-> session_validators,
   slashedValidatorsCount |-> slashed_validators,
   pv_eraPoints |-> [v \in Reported |-> q_state[v][current_session].points]]

Publish ==
  /\ Step("publish", "era")
  /\ q_metrics' = <<Metrics>>
  /\ settled' = (began = session)
  /\ ForgetReads
  /\ UNCHANGED <<chainVars, began, ledgerVars, spc>>

Main ==
  \/ ReadEra \/ ReadSession \/ ReadSlot \/ ReadPoints \/ ReadSets \/ ReadFail
  \/ WarmupState \/ Calculate \/ Construct \/ Publish

-----------------------------------------------------------------------------
(* The handler of /metrics looks whether there are metrics, then takes     *)
(* them, an IndexError if they are gone.  They are not changed once they   *)
(* are published: what is made of them is the same whenever it is made.    *)
ScrapeTest_None == spc = "idle" /\ pc # "down"
ScrapeTest == spc = "idle" /\ pc # "down" /\ q_metrics # <<>>

ScrapeFinds == ScrapeTest /\ spc' = "get"
ScrapeGets  == spc = "get" /\ spc' = "idle"

Scrape ==
  /\ ScrapeFinds \/ ScrapeGets
  /\ UNCHANGED <<chainVars, pc, readVars, paceVars, ledgerVars, q_metrics>>

-----------------------------------------------------------------------------
(* The container is started again, whoever does it.                        *)
Restart ==
  /\ Step("down", "era")
  /\ began' = session
  /\ settled' = FALSE
  /\ UNCHANGED <<chainVars, readVars, ledgerVars, q_metrics, spc>>

Next == Chain \/ Main \/ Scrape \/ Restart

Spec == Init /\ [][Next]_vars

(* The worker thread goes on; nothing is assumed of the chain.             *)
FairSpec == Spec /\ WF_vars(Main)

-----------------------------------------------------------------------------
IsAccount(a) ==
  /\ DOMAIN a \subseteq Sessions
  /\ a \in [DOMAIN a -> [points : Int, after : SUBSET DOMAIN a]]

(* Every variable has its type.                                            *)
TypeOK ==
  /\ session \in Sessions
  /\ slot \in 0 .. SessionLength - 1
  /\ earned \in [Eras -> [Validators -> Nat]]
  /\ pc \in {"era", "session", "slot", "points", "sets", "warmup", "calculate",
             "construct", "publish", "down"}
  /\ era \in Eras \cup {0}
  /\ current_session \in Sessions \cup {0}
  /\ session_progress \in Nat
  /\ era_points \in [Validators -> Nat] \cup {None}
  /\ session_validators \subseteq Validators
  /\ paravalidators \subseteq Validators
  /\ slashed_validators \in Nat
  /\ first_iter \in BOOLEAN
  /\ \A v \in Validators : IsAccount(q_state[v])
  /\ account_era \in [Validators -> Eras \cup {0}]
  /\ q_metrics # <<>> =>
       /\ q_metrics[1].session \in Sessions
       /\ q_metrics[1].pv_eraPoints \in [DOMAIN q_metrics[1].pv_eraPoints -> Int]
  /\ spc \in {"idle", "get"}
  /\ began \in Sessions
  /\ settled \in BOOLEAN

(* The era is read before the session: the session the points are asked    *)
(* for is never one before the start of that era, although the chain goes  *)
(* on between the two requests (functions.py:68-71).  Otherwise its own    *)
(* account would be dropped as one of another era.                         *)
SessionIsInEra ==
  pc \in {"slot", "points", "sets", "warmup", "calculate", "construct", "publish"}
    => current_session \in era_sessions

(* After a pass the sessions of every paravalidator account for all of its *)
(* era points, and none of them is a session from before that era          *)
(* (common_exporter.py:270-280).                                           *)
PointsAddUp ==
  pc \in {"construct", "publish"} =>
    \A v \in paravalidators :
      /\ Total(q_state[v]) = era_points[v]
      /\ DOMAIN q_state[v] \subseteq era_sessions

(* The newest key of an account tells whether its validator is a           *)
(* paravalidator now (common_exporter.py:334): session points are shown    *)
(* for the paravalidators of the session shown and for nobody else.        *)
ShowsParavalidators ==
  q_metrics # <<>> => DOMAIN q_metrics[1].pv_eraPoints = Para[q_metrics[1].session]

(* A scrape that has found metrics misses them only between clear and      *)
(* append (common_exporter.py:382-383), never for as long as a pass lasts. *)
MissesOnlyWhilePublishing ==
  spc = "get" /\ q_metrics = <<>> => pc = "publish"

(* The session points are the accounts PointsLedger describes.             *)
Ledger ==
  INSTANCE PointsLedger
    WITH account <- [v \in Validators |-> [s \in DOMAIN q_state[v] |-> q_state[v][s].points]]
LedgerSpec == Ledger!Spec

(* A session that lasts is shown in the end, unless the process stops.     *)
SessionIsShown ==
  \A s \in Sessions :
    session = s ~> (q_metrics # <<>> /\ q_metrics[1].session >= s) \/ pc = "down"
=============================================================================
