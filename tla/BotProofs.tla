------------------------------ MODULE BotProofs ------------------------------
(***************************************************************************)
(* Proofs about Bot: the database connection, the types, and what becomes  *)
(* of forms, rules and the portfolio.                                      *)
(***************************************************************************)
EXTENDS Bot, TLAPS

-----------------------------------------------------------------------------
(* The connection.                                                         *)

(* How often a query can be lost depends on what is left to go wrong.      *)
LostInv ==
  /\ DatabaseTypeOK
  /\ ~server => lost = 0
  /\ conn # "live" => lost = 0
  /\ ~cursor => lost <= 1
  /\ lost <= 2

DatabaseNext ==
  \/ QueryFinds \/ QueryFindsNothing \/ QueryRaises \/ QueryExits
  \/ DatabaseInit \/ DatabaseGone \/ ServerDown \/ ServerUp
  \/ UNCHANGED dbVars

(* The connection keeps its invariant whatever is done with it.            *)
LEMMA DatabaseStep == LostInv /\ DatabaseNext => LostInv'
<1> SUFFICES ASSUME LostInv, DatabaseNext PROVE LostInv'
  OBVIOUS
<1> USE DEF LostInv, DatabaseTypeOK, DatabaseNext, QueryFinds, QueryFindsNothing, QueryRaises,
            QueryExits, DatabaseInit, DatabaseGone, ServerDown, ServerUp, dbVars, Works,
            Reset, Connects, Unreachable
<1>1. server' \in BOOLEAN
  OBVIOUS
<1>2. cursor' \in BOOLEAN
  OBVIOUS
<1>3. conn' \in {"none", "live", "broken"}
  OBVIOUS
<1>4. conn' = "live" => server'
  OBVIOUS
<1>5. lost' \in Nat
  OBVIOUS
<1>6. ~server' => lost' = 0
  OBVIOUS
<1>7. conn' # "live" => lost' = 0
  OBVIOUS
<1>8. ~cursor' => lost' <= 1
  OBVIOUS
<1>9. lost' <= 2
  OBVIOUS
<1>10. QED
  BY ONLY <1>1, <1>2, <1>3, <1>4, <1>5, <1>6, <1>7, <1>8, <1>9, Zenon DEF LostInv, DatabaseTypeOK

(* The bot does nothing else with the connection.                          *)
LEMMA DatabaseOnly == [Next]_vars => DatabaseNext
<1> SUFFICES ASSUME [Next]_vars PROVE DatabaseNext
  OBVIOUS
<1> USE DEF DatabaseNext
<1>1. CASE \E t \in Tasks : Handler(t)
  <2> PICK t \in Tasks : Handler(t)
    BY <1>1
  <2>1. Shows(t) \/ QueryFails(t) \/ Passes(t) \/ Reads(t) => DatabaseNext
    BY DEF Shows, QueryFails, Passes, Reads, QueryAnswers
  <2>2. CASE SubMenu(t) \/ AccMenu(t) \/ AccSave(t) \/ AccDelete(t) \/ CommandStart(t)
             \/ MainMenuFromCb(t)
    BY <2>1, <2>2 DEF SubMenu, AccMenu, AccSave, AccDelete, CommandStart, MainMenuFromCb, MainMenu
  <2>3. CASE AnswerFails(t) \/ PromalertSet(t) \/ Update(t)
    BY <2>1, <2>3 DEF AnswerFails, PromalertSet, Update, QueryAnswers
  <2>4. CASE SaveRow(t)
    BY <2>4 DEF SaveRow, Commits, CommitFails
  <2>5. CASE AccAdd(t) \/ SupportSendMessage(t) \/ FindAccount(t) \/ FindSupport(t)
    BY <2>1, <2>5 DEF AccAdd, SupportSendMessage, FindAccount, FindSupport, OpensForm, ClearsForm
  <2>6. CASE SubEdit(t)
    BY <2>1, <2>6 DEF SubEdit, Edits, QueryAnswers
  <2>7. CASE StoreForm(t) \/ SubSetLabels(t) \/ SubSetInterval(t) \/ SubSetThreshold(t)
    BY <2>1, <2>7 DEF StoreForm, SubSetLabels, SubSetInterval, SubSetThreshold, Gives
  <2>8. CASE ClearState(t) \/ SubManage(t) \/ SubSave(t) \/ SubDelete(t) \/ SaveRules(t)
    BY <2>1, <2>8 DEF ClearState, SubManage, ClearsForm, SubSave, SubDelete, WritesRules, SaveRules
  <2>9. QED
    BY <2>2, <2>3, <2>4, <2>5, <2>6, <2>7, <2>8 DEF Handler
<1>2. CASE \E t \in Tasks, e \in Updates : Check(t, e)
  BY <1>2 DEF Check, QueryAnswers, QueryFails
<1>3. CASE SubView \/ SupportMenu \/ DeleteMessage \/ PromAlert
  BY <1>3 DEF SubView, SupportMenu, DeleteMessage, PromAlert, Looks, QueryAnswers
<1>4. CASE Crash \/ Start \/ Environment \/ UNCHANGED vars
  BY <1>4 DEF Crash, Start, Environment, vars
<1>5. QED
  BY <1>1, <1>2, <1>3, <1>4 DEF Next

LEMMA LostInvariant == Spec => []LostInv
<1>1. Init => LostInv
  BY DEF Init, LostInv, DatabaseTypeOK
<1>2. LostInv /\ [Next]_vars => LostInv'
  BY DatabaseStep, DatabaseOnly
<1>3. QED
  BY <1>1, <1>2, PTL DEF Spec

(* However often the server goes away and comes back, and whatever the     *)
(* tasks ask it, at most two queries in a row are lost while it is there.  *)
THEOREM FewAreLost == Spec => []LostAtMostTwice
<1>1. LostInv => LostAtMostTwice
  BY DEF LostInv, LostAtMostTwice
<1>2. QED
  BY <1>1, LostInvariant, PTL

-----------------------------------------------------------------------------
(* The chat.                                                               *)

(* While a task has the loop, the row and the form stay as it found them.  *)
Steady ==
  \A t \in Tasks :
    /\ HasLoop(t, "edit") /\ data = None => event[t].id \in Templates
    /\ HasLoop(t, "write") =>
         /\ event[t].dst \in {"sub_save", "sub_delete"}
         /\ event[t].dst = "sub_save" => data \in Objects
    /\ HasLoop(t, "update") \/ HasLoop(t, "commit") =>
         /\ event[t].dst = "acc_save" => read[t] \in {None, validators}
         /\ event[t].dst = "acc_delete" => read[t] = validators

ChatInv == ControlTypeOK /\ RowTypeOK /\ FormTypeOK /\ FiltersFitTemplate /\ Steady

Places == {"idle", "edit", "handle", "update", "commit", "nothing", "write",
           "form", "support", "manage"}

(* A task that leaves the loop.                                            *)
LEMMA LeavingKeeps ==
  ASSUME ChatInv, NEW t \in Tasks, NEW to \in Places, Leaves(t, to), UNCHANGED up
  PROVE  ControlTypeOK' /\ Steady'
<1>1. ControlTypeOK'
  BY DEF ChatInv, ControlTypeOK, Leaves, Places
<1>2. Steady'
  BY ConstantsAssumption DEF ConstantsAssumption, Steady, HasLoop, Leaves
<1>3. QED
  BY <1>1, <1>2

(* Forms and rules that nobody touches.                                    *)
LEMMA UntouchedForms ==
  ASSUME ChatInv, UNCHANGED formVars, UNCHANGED rules
  PROVE  FormTypeOK' /\ FiltersFitTemplate'
BY DEF ChatInv, FormTypeOK, FiltersFitTemplate, formVars

(* Check lists that fit are kept, or dropped when nobody refers to them.   *)
LEMMA KeptForms ==
  ASSUME ChatInv, UNCHANGED rules,
         NEW lists \in [Objects -> CheckListType \cup {None}],
         \A o \in Objects : lists[o] # None => DOMAIN lists[o].filters = Variables[lists[o].id],
         FormsAre(lists),
         state' \in {None, "subscriptions", "validators", "support"},
         data' \in Objects \cup {None, "other"},
         held' \in [Tasks -> Objects \cup {None}],
         data' \in Objects => lists[data'] # None,
         \A t \in Tasks : held'[t] # None => lists[held'[t]] # None
  PROVE  FormTypeOK' /\ FiltersFitTemplate'
<1>1. FormTypeOK'
  BY DEF ChatInv, FormTypeOK, FormsAre
<1>2. \A o \in Objects : forms'[o] # None => forms'[o] = lists[o]
  BY DEF FormsAre
<1>3. \A o \in Objects : forms'[o] # None => DOMAIN forms'[o].filters = Variables[forms'[o].id]
  BY <1>2
<1>4. data' \in Objects => forms'[data'] # None
  BY DEF FormsAre
<1>5. \A t \in Tasks : held'[t] # None => forms'[held'[t]] # None
  BY DEF FormsAre
<1>6. \A r \in rules' : r.filters = Variables[r.id]
  BY DEF ChatInv, FiltersFitTemplate
<1>7. QED
  BY <1>1, <1>3, <1>4, <1>5, <1>6 DEF FiltersFitTemplate

(* The form is replaced by one without check list, or dropped.             *)
LEMMA NewFormKeeps ==
  ASSUME ChatInv, UNCHANGED rules, NEW s, NEW d, FormIs(s, d),
         s \in {None, "validators", "support"}, d \in {None, "other"}
  PROVE  FormTypeOK' /\ FiltersFitTemplate'
<1>1. d \notin Objects
  BY ConstantsAssumption DEF ConstantsAssumption
<1>2. QED
  BY <1>1, KeptForms DEF ChatInv, FormIs, FormTypeOK, FiltersFitTemplate

(* What a handler that changes neither row nor form leaves.                *)
LEMMA PassingKeeps ==
  ASSUME ChatInv, NEW t \in Tasks, Ends(t), UNCHANGED formVars, KeepsData,
         UNCHANGED read \/ Forgets(t)
  PROVE  ChatInv'
<1>1. ControlTypeOK' /\ Steady'
  BY LeavingKeeps DEF Ends, Places, KeepsData
<1>2. RowTypeOK'
  BY DEF ChatInv, RowTypeOK, KeepsData, row, Forgets
<1>3. QED
  BY <1>1, <1>2, UntouchedForms DEF ChatInv, KeepsData

(* The end of the process.                                                 *)
LEMMA DyingKeeps ==
  ASSUME ChatInv, Dies, UNCHANGED row, rules' \in {{}, rules}
  PROVE  ChatInv'
<1>1. ControlTypeOK'
  BY DEF Dies, ControlTypeOK, NoEvent
<1>2. RowTypeOK'
  BY DEF ChatInv, RowTypeOK, Dies, row
<1>3. FormTypeOK' /\ FiltersFitTemplate'
  BY ConstantsAssumption DEF ConstantsAssumption, ChatInv, FormTypeOK, FiltersFitTemplate, Dies
<1>4. Steady'
  BY ConstantsAssumption DEF ConstantsAssumption, Steady, HasLoop, Dies
<1>5. QED
  BY <1>1, <1>2, <1>3, <1>4 DEF ChatInv

LEMMA FailingKeeps ==
  ASSUME ChatInv, NEW t \in Tasks, QueryFails(t)
  PROVE  ChatInv'
BY PassingKeeps, DyingKeeps DEF QueryFails

LEMMA ShowingKeeps ==
  ASSUME ChatInv, NEW t \in Tasks, Shows(t) \/ Passes(t)
  PROVE  ChatInv'
BY PassingKeeps, FailingKeeps DEF Shows, Passes

(* Check: another task takes the loop.                                     *)
LEMMA CheckKeeps ==
  ASSUME ChatInv, NEW t \in Tasks, NEW e \in Updates, Check(t, e)
  PROVE  ChatInv'
<1>1. CASE QueryFails(t)
  BY <1>1, FailingKeeps
<1>2. CASE Ends(t) /\ UNCHANGED <<formVars, read>> /\ KeepsData
  BY <1>2, PassingKeeps
<1>3. CASE /\ loop' = t
           /\ pc' = [pc EXCEPT ![t] = IF e.dst = "sub_edit" THEN "edit" ELSE "handle"]
           /\ event' = [event EXCEPT ![t] = e]
           /\ UNCHANGED <<formVars, read>>
           /\ KeepsData
  <2>1. ControlTypeOK'
    BY <1>3 DEF ChatInv, ControlTypeOK, KeepsData
  <2>2. RowTypeOK'
    BY <1>3 DEF ChatInv, RowTypeOK, KeepsData, row
  <2>3. e.dst = "sub_edit" => e.id \in Templates
    BY DEF Updates
  <2>4. Steady'
    BY <1>3, <2>3 DEF ChatInv, ControlTypeOK, Steady, HasLoop
  <2>5. QED
    BY <1>3, <2>1, <2>2, <2>4, UntouchedForms DEF ChatInv, KeepsData
<1>4. QED
  BY <1>1, <1>2, <1>3 DEF Check

(* A task goes on to change the row: with the portfolio it has just read,  *)
(* which acc_delete has found its account in, or with none at all.         *)
LEMMA ReadingKeeps ==
  ASSUME ChatInv, NEW t \in Tasks, Reads(t),
         event[t].dst = "acc_delete" => Answer # None
  PROVE  ChatInv'
<1>1. ControlTypeOK'
  BY DEF ChatInv, ControlTypeOK, Reads, Goto, KeepsData
<1>2. Answer \in {None, validators}
  BY DEF Answer
<1>3. RowTypeOK'
  BY <1>2 DEF ChatInv, RowTypeOK, Reads, KeepsData, row
<1>4. Steady'
  BY <1>2 DEF ChatInv, ControlTypeOK, RowTypeOK, Steady, HasLoop, Reads, Goto, KeepsData, row
<1>5. QED
  BY <1>1, <1>3, <1>4, UntouchedForms DEF ChatInv, Reads, KeepsData

LEMMA PromalertSetKeeps ==
  ASSUME ChatInv, NEW t \in Tasks, PromalertSet(t)
  PROVE  ChatInv'
<1>1. ControlTypeOK'
  BY DEF ChatInv, ControlTypeOK, PromalertSet, Goto, KeepsData
<1>2. RowTypeOK'
  BY DEF ChatInv, RowTypeOK, PromalertSet, KeepsData, row
<1>3. Steady'
  BY DEF ChatInv, ControlTypeOK, Steady, Handles, HasLoop, PromalertSet, Goto
<1>4. QED
  BY <1>1, <1>2, <1>3, UntouchedForms DEF ChatInv, PromalertSet, KeepsData

LEMMA UpdateKeeps ==
  ASSUME ChatInv, NEW t \in Tasks, Update(t)
  PROVE  ChatInv'
<1>1. CASE QueryFails(t)
  BY <1>1, FailingKeeps
<1>2. CASE /\ Goto(t, IF Works THEN "commit" ELSE "nothing")
           /\ UNCHANGED <<formVars, read>>
           /\ KeepsData
  <2>1. ControlTypeOK'
    BY <1>2 DEF ChatInv, ControlTypeOK, Goto, KeepsData
  <2>2. RowTypeOK'
    BY <1>2 DEF ChatInv, RowTypeOK, KeepsData, row
  <2>3. Steady'
    BY <1>2 DEF ChatInv, ControlTypeOK, Steady, HasLoop, Update, Goto, KeepsData, row
  <2>4. QED
    BY <1>2, <2>1, <2>2, <2>3, UntouchedForms DEF ChatInv, KeepsData
<1>3. QED
  BY <1>1, <1>2 DEF Update

(* commit(): the portfolio becomes what was read, with or without one      *)
(* account.                                                                *)
LEMMA SaveRowKeeps ==
  ASSUME ChatInv, NEW t \in Tasks, SaveRow(t)
  PROVE  ChatInv'
<1>1. ControlTypeOK' /\ Steady'
  BY LeavingKeeps DEF SaveRow, Ends, Places
<1>2. status' \in {None, "on", "off"} /\ validators' \subseteq Accounts
  <2>1. CASE UNCHANGED row
    BY <2>1 DEF row, ChatInv, RowTypeOK
  <2>2. CASE HasLoop(t, "commit") /\ RowChanges(t)
    <3>1. event[t].dst = "acc_save" => event[t].arg \in Accounts
      BY DEF ChatInv, ControlTypeOK, Updates, NoEvent
    <3>2. event[t].dst = "acc_save" => Added(read[t], event[t].arg) \subseteq Accounts
      BY <3>1, <2>2 DEF Added, ChatInv, Steady, RowTypeOK
    <3>3. event[t].dst = "acc_delete" => read[t] \ {event[t].arg} \subseteq Accounts
      BY <2>2 DEF ChatInv, Steady, RowTypeOK
    <3>4. QED
      BY <2>2, <3>2, <3>3 DEF RowChanges, ChatInv, RowTypeOK
  <2>3. QED
    BY <2>1, <2>2 DEF SaveRow
<1>3. RowTypeOK'
  BY <1>2 DEF RowTypeOK, SaveRow, Forgets, ChatInv
<1>4. QED
  BY <1>1, <1>3, UntouchedForms DEF ChatInv, SaveRow

LEMMA FormlessKeeps ==
  ASSUME ChatInv, NEW t \in Tasks,
         \/ AccAdd(t) \/ SupportSendMessage(t) \/ FindAccount(t) \/ FindSupport(t) \/ SubManage(t)
  PROVE  ChatInv'
<1>1. ASSUME NEW s \in {None, "validators", "support"}, NEW d \in {None, "other"},
             FormIs(s, d), Ends(t), UNCHANGED read, KeepsData
      PROVE  ChatInv'
  <2>1. ControlTypeOK' /\ Steady'
    BY <1>1, LeavingKeeps DEF Ends, Places, KeepsData
  <2>2. RowTypeOK'
    BY <1>1 DEF ChatInv, RowTypeOK, KeepsData, row
  <2>3. FormTypeOK' /\ FiltersFitTemplate'
    BY <1>1, NewFormKeeps DEF KeepsData
  <2>4. QED
    BY <2>1, <2>2, <2>3 DEF ChatInv
<1>2. CASE Leaves(t, "support") /\ UNCHANGED <<formVars, read>> /\ KeepsData
  <2>1. ControlTypeOK' /\ Steady'
    BY <1>2, LeavingKeeps DEF Places, KeepsData
  <2>2. RowTypeOK'
    BY <1>2 DEF ChatInv, RowTypeOK, KeepsData, row
  <2>3. QED
    BY <1>2, <2>1, <2>2, UntouchedForms DEF ChatInv, KeepsData
<1>3. CASE Passes(t)
  BY <1>3, ShowingKeeps
<1>4. QED
  BY <1>1, <1>2, <1>3 DEF AccAdd, SupportSendMessage, OpensForm, FindAccount, FindSupport,
                          ClearsForm, SubManage

(* A new check list has the filters of its template, and one that is there *)
(* is taken as it is.                                                      *)
LEMMA CheckListFits ==
  ASSUME ChatInv, NEW t \in Tasks, HasLoop(t, "edit"), NEW o \in CheckLists
  PROVE  /\ o \in Objects
         /\ CheckList(t, o) \in CheckListType
         /\ DOMAIN CheckList(t, o).filters = Variables[CheckList(t, o).id]
<1>1. CASE data = None
  <2>1. event[t].id \in Templates
    BY <1>1 DEF ChatInv, Steady
  <2>2. Variables[event[t].id] \in SUBSET Filters
    BY <2>1, ConstantsAssumption DEF ConstantsAssumption
  <2>3. [f \in Variables[event[t].id] |-> "undefined"] \in [Variables[event[t].id] -> Values]
    BY DEF Values
  <2>4. [f \in Variables[event[t].id] |-> "undefined"] \in UNION {[fs -> Values] : fs \in SUBSET Filters}
    BY <2>2, <2>3
  <2>5. QED
    BY <1>1, <2>1, <2>4 DEF CheckLists, CheckList, NewForm, CheckListType
<1>2. CASE data # None
  BY <1>2 DEF CheckLists, CheckList, ChatInv, FormTypeOK, FiltersFitTemplate
<1>3. QED
  BY <1>1, <1>2

(* A filter is given: the others stay.                                     *)
LEMMA GivenFits ==
  ASSUME NEW l \in CheckListType, DOMAIN l.filters = Variables[l.id], NEW f \in DOMAIN l.filters
  PROVE  /\ Given(l, f) \in CheckListType
         /\ DOMAIN Given(l, f).filters = Variables[Given(l, f).id]
<1>1. PICK fs \in SUBSET Filters : l.filters \in [fs -> Values]
  BY DEF CheckListType
<1>2. [l.filters EXCEPT ![f] = "given"] \in [fs -> Values]
  BY <1>1 DEF Values
<1>3. Given(l, f) = [id |-> l.id, filters |-> [l.filters EXCEPT ![f] = "given"]]
  BY DEF Given, CheckListType
<1>4. DOMAIN [l.filters EXCEPT ![f] = "given"] = DOMAIN l.filters
  OBVIOUS
<1>5. [l.filters EXCEPT ![f] = "given"] \in UNION {[gs -> Values] : gs \in SUBSET Filters}
  BY <1>2
<1>6. l.id \in Templates
  BY DEF CheckListType
<1>7. QED
  BY <1>3, <1>4, <1>5, <1>6 DEF CheckListType

(* sub_edit stores a check list, or keeps it for later.                    *)
LEMMA SubEditKeeps ==
  ASSUME ChatInv, NEW t \in Tasks, SubEdit(t)
  PROVE  ChatInv'
<1>1. CASE Passes(t)
  BY <1>1, ShowingKeeps
<1>2. CASE Dies /\ UNCHANGED <<row, rules>>
  BY <1>2, DyingKeeps
<1>3. ASSUME NEW o \in CheckLists, Edits(t, o) PROVE ChatInv'
  <2>1. /\ o \in Objects
        /\ CheckList(t, o) \in CheckListType
        /\ DOMAIN CheckList(t, o).filters = Variables[CheckList(t, o).id]
    BY CheckListFits DEF SubEdit
  <2>2. state' \in {None, "subscriptions", "validators", "support"}
    BY <1>3 DEF Edits, ChatInv, FormTypeOK
  <2>3. ControlTypeOK' /\ Steady'
    BY <1>3, LeavingKeeps DEF Edits, Ends, Places, KeepsData
  <2>4. RowTypeOK'
    BY <1>3 DEF Edits, ChatInv, RowTypeOK, KeepsData, row
  <2>5. UNCHANGED rules
    BY <1>3 DEF Edits, KeepsData
  <2>6. ASSUME NEW l \in CheckListType, DOMAIN l.filters = Variables[l.id],
               FormsAre([forms EXCEPT ![o] = l]),
               \/ data' = o /\ UNCHANGED held
               \/ held' = [held EXCEPT ![t] = o] /\ UNCHANGED data
        PROVE  FormTypeOK' /\ FiltersFitTemplate'
    <3> DEFINE lists == [forms EXCEPT ![o] = l]
    <3>1. l # None
      BY ConstantsAssumption DEF ConstantsAssumption
    <3>2. lists \in [Objects -> CheckListType \cup {None}]
      BY <2>1 DEF ChatInv, FormTypeOK
    <3>3. \A x \in Objects : lists[x] # None => DOMAIN lists[x].filters = Variables[lists[x].id]
      BY <2>1, <2>6 DEF ChatInv, FormTypeOK, FiltersFitTemplate
    <3>4. data' \in Objects \cup {None, "other"} /\ held' \in [Tasks -> Objects \cup {None}]
      BY <2>1, <2>6 DEF ChatInv, FormTypeOK
    <3>5. data' \in Objects => lists[data'] # None
      BY <2>1, <2>6, <3>1 DEF ChatInv, FormTypeOK, FiltersFitTemplate
    <3>6. \A u \in Tasks : held'[u] # None => lists[held'[u]] # None
      BY <2>1, <2>6, <3>1 DEF ChatInv, FormTypeOK, FiltersFitTemplate
    <3>7. QED
      BY <2>2, <2>5, <2>6, <3>2, <3>3, <3>4, <3>5, <3>6, KeptForms
  <2>7. FormTypeOK' /\ FiltersFitTemplate'
    <3>1. CASE data' = o /\ UNCHANGED held /\ FormsAre([forms EXCEPT ![o] = CheckList(t, o)])
      BY <3>1, <2>1, <2>6
    <3>2. CASE /\ "accounts" \in DOMAIN CheckList(t, o).filters
               /\ data' = o /\ UNCHANGED held
               /\ FormsAre([forms EXCEPT ![o] = Given(CheckList(t, o), "accounts")])
      BY <3>2, <2>1, <2>6, GivenFits
    <3>3. CASE /\ held' = [held EXCEPT ![t] = o] /\ UNCHANGED data
               /\ FormsAre([forms EXCEPT ![o] = CheckList(t, o)])
      BY <3>3, <2>1, <2>6
    <3>4. QED
      BY <1>3, <3>1, <3>2, <3>3 DEF Edits
  <2>8. QED
    BY <2>3, <2>4, <2>7 DEF ChatInv
<1>4. QED
  BY <1>1, <1>2, <1>3 DEF SubEdit

(* Two that let go of a check list: the task that stores it, and one that  *)
(* fails.                                                                  *)
LEMMA ReleaseKeeps ==
  ASSUME ChatInv, NEW t \in Tasks, StoreForm(t) \/ AnswerFails(t)
  PROVE  ChatInv'
<1>1. ControlTypeOK' /\ Steady'
  BY LeavingKeeps DEF StoreForm, AnswerFails, Ends, Places, KeepsData
<1>2. RowTypeOK'
  BY DEF StoreForm, AnswerFails, ChatInv, RowTypeOK, KeepsData, row
<1>3. /\ FormsAre(forms)
      /\ held' = [held EXCEPT ![t] = None]
      /\ data' \in {data, held[t]}
      /\ UNCHANGED <<state, rules>>
  BY DEF StoreForm, AnswerFails, KeepsData
<1>4. data' \in Objects \cup {None, "other"} /\ held' \in [Tasks -> Objects \cup {None}]
  BY <1>3 DEF ChatInv, FormTypeOK
<1>5. data' \in Objects => forms[data'] # None
  BY <1>3, ConstantsAssumption DEF ConstantsAssumption, ChatInv, FormTypeOK, FiltersFitTemplate
<1>6. \A u \in Tasks : held'[u] # None => forms[held'[u]] # None
  BY <1>3 DEF ChatInv, FormTypeOK, FiltersFitTemplate
<1>7. FormTypeOK' /\ FiltersFitTemplate'
  BY <1>3, <1>4, <1>5, <1>6, KeptForms DEF ChatInv, FormTypeOK, FiltersFitTemplate
<1>8. QED
  BY <1>1, <1>2, <1>7 DEF ChatInv

(* A filter of the form is given.                                          *)
LEMMA GivingKeeps ==
  ASSUME ChatInv, NEW t \in Tasks, SubSetLabels(t) \/ SubSetInterval(t) \/ SubSetThreshold(t)
  PROVE  ChatInv'
<1>1. CASE Passes(t)
  BY <1>1, ShowingKeeps
<1>2. ASSUME NEW f, HasFilter(f), Gives(f), Ends(t) \/ Goto(t, "edit"), loop = t PROVE ChatInv'
  <2>1. ControlTypeOK'
    BY <1>2, LeavingKeeps DEF Gives, Ends, Goto, Places, KeepsData, ChatInv, ControlTypeOK
  <2>2. data' # None
    BY <1>2, ConstantsAssumption DEF ConstantsAssumption, HasFilter, Gives
  <2>3. Steady'
    BY <1>2, <2>2, LeavingKeeps DEF Gives, Ends, Goto, Places, KeepsData, ChatInv, ControlTypeOK,
                               Steady, HasLoop
  <2>4. RowTypeOK'
    BY <1>2 DEF Gives, ChatInv, RowTypeOK, KeepsData, row
  <2>5. forms[data] \in CheckListType /\ DOMAIN forms[data].filters = Variables[forms[data].id]
    BY <1>2 DEF HasFilter, ChatInv, FormTypeOK, FiltersFitTemplate
  <2>6. /\ Given(forms[data], f) \in CheckListType
        /\ DOMAIN Given(forms[data], f).filters = Variables[Given(forms[data], f).id]
    BY <1>2, <2>5, GivenFits DEF HasFilter
  <2>7. Given(forms[data], f) # None
    BY <2>6, ConstantsAssumption DEF ConstantsAssumption
  <2>8. forms' = [forms EXCEPT ![data] = Given(forms[data], f)]
    BY <1>2 DEF Gives
  <2>9. FormTypeOK' /\ FiltersFitTemplate'
    BY <1>2, <2>6, <2>7, <2>8 DEF HasFilter, Gives, ChatInv, FormTypeOK, FiltersFitTemplate, KeepsData
  <2>10. QED
    BY <2>1, <2>3, <2>4, <2>9 DEF ChatInv
<1>3. QED
  BY <1>1, <1>2 DEF SubSetLabels, SubSetInterval, SubSetThreshold, Handles, HasLoop

LEMMA ClearStateKeeps ==
  ASSUME ChatInv, NEW t \in Tasks, ClearState(t)
  PROVE  ChatInv'
<1>1. ControlTypeOK'
  BY DEF ChatInv, ControlTypeOK, ClearState, Goto, KeepsData
<1>2. event[t].id \in Templates
  BY DEF ClearState, Handles, ChatInv, ControlTypeOK, Updates, NoEvent
<1>3. Steady'
  BY <1>2 DEF ChatInv, ControlTypeOK, Steady, HasLoop, ClearState, Goto
<1>4. RowTypeOK'
  BY DEF ClearState, ChatInv, RowTypeOK, KeepsData, row
<1>5. QED
  BY <1>1, <1>3, <1>4, NewFormKeeps DEF ClearState, ChatInv, KeepsData

(* The rules.                                                              *)
LEMMA RulesKeep ==
  ASSUME ChatInv, NEW t \in Tasks, SubSave(t) \/ SubDelete(t) \/ SaveRules(t)
  PROVE  ChatInv'
<1>1. CASE Passes(t)
  BY <1>1, ShowingKeeps
<1>2. CASE /\ WritesRules(t)
           /\ event[t].dst \in {"sub_save", "sub_delete"}
           /\ event[t].dst = "sub_save" => data \in Objects
  <2>1. ControlTypeOK'
    BY <1>2 DEF ChatInv, ControlTypeOK, WritesRules, Goto, KeepsData
  <2>2. Steady'
    BY <1>2 DEF ChatInv, ControlTypeOK, Steady, HasLoop, WritesRules, Goto, formVars
  <2>3. RowTypeOK'
    BY <1>2 DEF WritesRules, ChatInv, RowTypeOK, KeepsData, row
  <2>4. QED
    BY <1>2, <2>1, <2>2, <2>3, UntouchedForms DEF WritesRules, ChatInv, KeepsData
<1>3. CASE SaveRules(t)
  <2>1. ControlTypeOK' /\ Steady'
    BY <1>3, LeavingKeeps DEF SaveRules, Places
  <2>2. RowTypeOK'
    BY <1>3 DEF SaveRules, ChatInv, RowTypeOK, row
  <2>3. \A r \in rules' : r \in rules \/ (data \in Objects /\ r = Rule(forms[data]))
    BY <1>3 DEF SaveRules, AddRule, DeleteRule, RulesBut, ChatInv, Steady
  <2>4. data \in Objects =>
          /\ forms[data] \in CheckListType
          /\ DOMAIN forms[data].filters = Variables[forms[data].id]
    BY DEF ChatInv, FormTypeOK, FiltersFitTemplate
  <2>5. data \in Objects =>
          /\ Rule(forms[data]) \in RuleType
          /\ Rule(forms[data]).filters = Variables[Rule(forms[data]).id]
    BY <2>4, ConstantsAssumption DEF ConstantsAssumption, Rule, RuleType, CheckListType
  <2>6. FormTypeOK' /\ FiltersFitTemplate'
    BY <1>3, <2>3, <2>5 DEF SaveRules, ChatInv, FormTypeOK, FiltersFitTemplate, formVars
  <2>7. QED
    BY <2>1, <2>2, <2>6 DEF ChatInv
<1>4. QED
  BY <1>1, <1>2, <1>3 DEF SubSave, SubDelete, Handles

(* Handlers that look the portfolio up, to show it or to change it.        *)
LEMMA LookingUpKeeps ==
  ASSUME ChatInv, NEW t \in Tasks,
         \/ SubMenu(t) \/ AccMenu(t) \/ AccSave(t) \/ AccDelete(t)
         \/ CommandStart(t) \/ MainMenuFromCb(t)
  PROVE  ChatInv'
<1>1. CASE Shows(t) \/ Passes(t)
  BY <1>1, ShowingKeeps
<1>2. CASE QueryFails(t)
  BY <1>2, FailingKeeps
<1>3. CASE Reads(t) /\ (event[t].dst = "acc_delete" => Answer # None)
  BY <1>3, ReadingKeeps
<1>4. QED
  BY <1>1, <1>2, <1>3 DEF SubMenu, AccMenu, AccSave, AccDelete, CommandStart, MainMenu,
                          MainMenuFromCb, Handles

LEMMA HandlerKeeps ==
  ASSUME ChatInv, NEW t \in Tasks, Handler(t)
  PROVE  ChatInv'
<1>1. CASE \/ SubMenu(t) \/ AccMenu(t) \/ AccSave(t) \/ AccDelete(t)
           \/ CommandStart(t) \/ MainMenuFromCb(t)
  BY <1>1, LookingUpKeeps
<1>2. CASE PromalertSet(t) \/ Update(t) \/ SaveRow(t)
  BY <1>2, PromalertSetKeeps, UpdateKeeps, SaveRowKeeps
<1>3. CASE AccAdd(t) \/ SupportSendMessage(t) \/ FindAccount(t) \/ FindSupport(t) \/ SubManage(t)
  BY <1>3, FormlessKeeps
<1>4. CASE SubEdit(t) \/ StoreForm(t) \/ AnswerFails(t)
  BY <1>4, SubEditKeeps, ReleaseKeeps
<1>5. CASE SubSetLabels(t) \/ SubSetInterval(t) \/ SubSetThreshold(t) \/ ClearState(t)
  BY <1>5, GivingKeeps, ClearStateKeeps
<1>6. CASE SubSave(t) \/ SubDelete(t) \/ SaveRules(t)
  BY <1>6, RulesKeep
<1>7. QED
  BY <1>1, <1>2, <1>3, <1>4, <1>5, <1>6 DEF Handler

(* Steps that leave the chat alone.                                        *)
LEMMA StutteringKeeps ==
  ASSUME ChatInv, up' \in BOOLEAN,
         UNCHANGED <<row, rules, formVars, loop, pc, event, read>>
  PROVE  ChatInv'
<1>1. ControlTypeOK'
  BY DEF ChatInv, ControlTypeOK
<1>2. RowTypeOK'
  BY DEF ChatInv, RowTypeOK, row
<1>3. Steady'
  BY DEF ChatInv, Steady, HasLoop, row, formVars
<1>4. QED
  BY <1>1, <1>2, <1>3, UntouchedForms DEF ChatInv

LEMMA StepKeeps == ChatInv /\ [Next]_vars => ChatInv'
<1> SUFFICES ASSUME ChatInv, [Next]_vars PROVE ChatInv'
  OBVIOUS
<1>1. CASE \E t \in Tasks : Handler(t)
  BY <1>1, HandlerKeeps
<1>2. CASE \E t \in Tasks, e \in Updates : Check(t, e)
  BY <1>2, CheckKeeps
<1>3. CASE Dies /\ UNCHANGED row /\ rules' \in {{}, rules}
  BY <1>3, DyingKeeps
<1>4. CASE UNCHANGED <<up, row, rules, formVars, loop, pc, event, read>>
  <2>1. up' \in BOOLEAN
    BY <1>4 DEF ChatInv, ControlTypeOK
  <2>2. QED
    BY <1>4, <2>1, StutteringKeeps
<1>5. CASE Start
  BY <1>5, StutteringKeeps DEF Start
<1>6. CASE SubView \/ SupportMenu \/ DeleteMessage \/ PromAlert
  BY <1>3, <1>4, <1>6 DEF SubView, SupportMenu, DeleteMessage, PromAlert, Looks
<1>7. CASE Crash \/ Environment \/ UNCHANGED vars
  BY <1>3, <1>4, <1>7 DEF Crash, Environment, vars
<1>8. QED
  BY <1>1, <1>2, <1>5, <1>6, <1>7 DEF Next

LEMMA ChatInvariant == Spec => []ChatInv
<1>1. Init => ChatInv
  <2> SUFFICES ASSUME Init PROVE ChatInv
    OBVIOUS
  <2>1. ControlTypeOK
    BY DEF Init, ControlTypeOK
  <2>2. RowTypeOK
    BY DEF Init, RowTypeOK
  <2>3. FormTypeOK /\ FiltersFitTemplate
    BY ConstantsAssumption DEF ConstantsAssumption, Init, FormTypeOK, FiltersFitTemplate
  <2>4. Steady
    BY ConstantsAssumption DEF ConstantsAssumption, Init, Steady, HasLoop
  <2>5. QED
    BY <2>1, <2>2, <2>3, <2>4 DEF ChatInv
<1>2. QED
  BY <1>1, StepKeeps, PTL DEF Spec

(* The types hold however many tasks serve the chat.                       *)
THEOREM Typing == Spec => []TypeOK
<1>1. LostInv /\ ChatInv => TypeOK
  BY DEF LostInv, ChatInv, TypeOK
<1>2. QED
  BY <1>1, LostInvariant, ChatInvariant, PTL

(* Whatever the tasks of a chat do with a form they share, and with the    *)
(* buttons of menus long past, a check list and the rules made from it     *)
(* have the filters of their template.                                     *)
THEOREM FormsFit == Spec => []FiltersFitTemplate
<1>1. ChatInv => FiltersFitTemplate
  BY DEF ChatInv
<1>2. QED
  BY <1>1, ChatInvariant, PTL

(* Who changes the row and who changes the rules.                          *)
LEMMA Changers ==
  [Next]_vars => UNCHANGED <<row, rules>> \/ Crash \/ \E t \in Tasks : SaveRow(t) \/ SaveRules(t)
<1> SUFFICES ASSUME [Next]_vars, ~Crash, \A t \in Tasks : ~SaveRow(t) /\ ~SaveRules(t)
             PROVE  UNCHANGED <<row, rules>>
  OBVIOUS
<1>1. CASE \E t \in Tasks : Handler(t)
  <2> PICK t \in Tasks : Handler(t)
    BY <1>1
  <2>1. KeepsData \/ QueryFails(t) \/ Shows(t) \/ Reads(t) \/ Passes(t) => UNCHANGED <<row, rules>>
    BY DEF KeepsData, QueryFails, Shows, Reads, Passes
  <2>2. CASE \/ SubMenu(t) \/ AccMenu(t) \/ AccSave(t) \/ AccDelete(t)
             \/ CommandStart(t) \/ MainMenuFromCb(t)
    BY <2>1, <2>2 DEF SubMenu, AccMenu, AccSave, AccDelete, CommandStart, MainMenu, MainMenuFromCb
  <2>3. CASE AnswerFails(t) \/ PromalertSet(t) \/ Update(t)
    BY <2>1, <2>3 DEF AnswerFails, PromalertSet, Update
  <2>4. CASE AccAdd(t) \/ SupportSendMessage(t) \/ FindAccount(t) \/ FindSupport(t)
    BY <2>1, <2>4 DEF AccAdd, SupportSendMessage, FindAccount, FindSupport, OpensForm, ClearsForm
  <2>5. CASE SubEdit(t)
    BY <2>1, <2>5 DEF SubEdit, Edits
  <2>6. CASE StoreForm(t) \/ SubSetLabels(t) \/ SubSetInterval(t) \/ SubSetThreshold(t)
    BY <2>1, <2>6 DEF StoreForm, SubSetLabels, SubSetInterval, SubSetThreshold, Gives
  <2>7. CASE ClearState(t) \/ SubManage(t) \/ SubSave(t) \/ SubDelete(t)
    BY <2>1, <2>7 DEF ClearState, SubManage, ClearsForm, SubSave, SubDelete, WritesRules
  <2>8. QED
    BY <2>2, <2>3, <2>4, <2>5, <2>6, <2>7 DEF Handler
<1>2. CASE \E t \in Tasks, e \in Updates : Check(t, e)
  BY <1>2 DEF Check, KeepsData, QueryFails
<1>3. CASE SubView \/ SupportMenu \/ DeleteMessage \/ PromAlert
  BY <1>3 DEF SubView, SupportMenu, DeleteMessage, PromAlert, Looks
<1>4. CASE Start \/ Environment \/ UNCHANGED vars
  BY <1>4 DEF Start, Environment, vars
<1>5. QED
  BY <1>1, <1>2, <1>3, <1>4 DEF Next

(* No task overwrites the portfolio with one that another has changed      *)
(* since: from reading it to the commit a task has the loop.               *)
THEOREM AccountsStay == Spec => AccountsLeaveByDelete
<1> DEFINE Deleted == \A v \in validators \ validators' :
                        \E t \in Tasks :
                          /\ HasLoop(t, "commit")
                          /\ \/ event[t].dst = "acc_delete" /\ event[t].arg = v
                             \/ event[t].dst = "acc_save" /\ read[t] = None
<1>1. ChatInv /\ [Next]_vars => Deleted
  <2> SUFFICES ASSUME ChatInv, [Next]_vars, NEW v \in validators \ validators'
               PROVE  \E t \in Tasks :
                        /\ HasLoop(t, "commit")
                        /\ \/ event[t].dst = "acc_delete" /\ event[t].arg = v
                           \/ event[t].dst = "acc_save" /\ read[t] = None
    OBVIOUS
  <2>1. ~UNCHANGED row
    BY DEF row
  <2>2. PICK t \in Tasks : SaveRow(t)
    BY <2>1, Changers DEF Crash, SaveRules
  <2>3. HasLoop(t, "commit") /\ RowChanges(t)
    BY <2>1, <2>2 DEF SaveRow
  <2>4. CASE event[t].dst = "acc_delete"
    BY <2>3, <2>4 DEF ChatInv, Steady, RowChanges
  <2>5. CASE event[t].dst = "acc_save"
    BY <2>3, <2>5 DEF ChatInv, Steady, RowChanges, Added
  <2>6. CASE event[t].dst \notin {"acc_delete", "acc_save"}
    BY <2>3, <2>6 DEF RowChanges
  <2>7. QED
    BY <2>3, <2>4, <2>5, <2>6
<1>2. QED
  BY <1>1, ChatInvariant, PTL DEF Spec, AccountsLeaveByDelete

(* Rules are lost by a crash in the middle of writing, and otherwise only  *)
(* at the wish of the chat.                                                *)
THEOREM RulesStay == Spec => RulesLeaveByDelete
<1> DEFINE Kept == \A r \in rules :
                     \/ \E q \in rules' : q.id = r.id
                     \/ \E t \in Tasks :
                          /\ HasLoop(t, "write")
                          /\ ~up' \/ (event[t].dst = "sub_delete" /\ event[t].id = r.id)
<1>1. ChatInv /\ [Next]_vars => Kept
  <2> SUFFICES ASSUME ChatInv, [Next]_vars PROVE Kept
    OBVIOUS
  <2>1. CASE UNCHANGED rules
    BY <2>1
  <2>2. CASE Crash
    BY <2>2 DEF Crash, Dies
  <2>3. ASSUME NEW t \in Tasks, SaveRules(t) PROVE Kept
    <3>1. HasLoop(t, "write") /\ event[t].dst \in {"sub_save", "sub_delete"}
      BY <2>3 DEF SaveRules, ChatInv, Steady
    <3>2. CASE event[t].dst = "sub_save"
      <4>1. rules' = AddRule(forms[data])
        BY <2>3, <3>2 DEF SaveRules
      <4>2. Rule(forms[data]) \in rules' /\ Rule(forms[data]).id = forms[data].id
        BY <4>1 DEF AddRule, Rule
      <4>3. \A r \in rules : r.id # forms[data].id => r \in rules'
        BY <4>1 DEF AddRule, RulesBut
      <4>4. QED
        BY <4>2, <4>3
    <3>3. CASE event[t].dst = "sub_delete"
      <4>1. rules' = DeleteRule(event[t].id)
        BY <2>3, <3>3 DEF SaveRules
      <4>2. QED
        BY <3>1, <3>3, <4>1 DEF DeleteRule, RulesBut
    <3>4. QED
      BY <3>1, <3>2, <3>3
  <2>4. QED
    BY <2>1, <2>2, <2>3, Changers DEF SaveRow
<1>2. QED
  BY <1>1, ChatInvariant, PTL DEF Spec, RulesLeaveByDelete
=============================================================================
