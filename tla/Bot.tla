-------------------------------- MODULE Bot --------------------------------
(***************************************************************************)
(* The Telegram bot (bot/app) as it serves one chat: its account, its      *)
(* portfolio of validators, its alert rules and the forms it fills in.     *)
(*                                                                         *)
(* Everything runs in one event loop.  An update of the chat is a task of  *)
(* its own; it has the loop from one message it sends to Telegram to the   *)
(* next and nothing else runs meanwhile, for queries and files are         *)
(* synchronous and the storage of the forms never waits.  What a handler   *)
(* does last, after it has changed all it changes, is left out.            *)
(*                                                                         *)
(* The form of the chat is a dictionary that get_data copies at its top    *)
(* level only: the check list within is shared by everyone who has taken   *)
(* it.  It is an object here, the form a reference to it.                  *)
(*                                                                         *)
(* A chat may have any number of menus open, old ones too: any button may  *)
(* be pressed at any time.  The cache of accounts, Prometheus and Telegram *)
(* answer as they like.  Of a filter only matters whether it is undefined, *)
(* as in a new form, or given; the blank a reset leaves is given, too.     *)
(*                                                                         *)
(* A definition X_Y is X with the bug Y: no action uses it, the mutation   *)
(* runs put it in the place of X.                                          *)
(***************************************************************************)
EXTENDS BotDatabase, FiniteSets

CONSTANTS Tasks,
          Templates,   \* the uniqueids of alerts_tmpl.yml
          Variables,   \* Variables[u]: the filters of template u
          Accounts,    \* the accounts the cache may know
          Objects,     \* the check lists that exist at a time
          None

Filters == {"accounts", "label", "interval", "threshold"}
Values  == {"undefined", "given"}

CheckListType == [id : Templates, filters : UNION {[fs -> Values] : fs \in SUBSET Filters}]

ASSUME ConstantsAssumption ==
  /\ Variables \in [Templates -> SUBSET Filters]
  /\ None \notin Objects \cup Tasks
  /\ "other" \notin Objects
  /\ None \notin CheckListType

VARIABLES up,            \* does the process run?
          status, validators,  \* the row of the chat in PostgreSQL
          rules,         \* the rules in the file of the chat
          state, data,   \* the form: None, "other", or a check list
          forms,         \* forms[o]: the template and the filters of o
          loop,          \* the task that has the loop
          pc, event,     \* of each task
          held,          \* check_list in sub_edit
          read           \* validators in acc_save and acc_delete

row      == <<status, validators>>
formVars == <<state, data, forms, held>>
vars == <<dbVars, up, row, rules, formVars, loop, pc, event, read>>

NewForm_Unset(u) == [id |-> u, filters |-> [f \in Variables[u] |-> None]]
NewForm(u) == [id |-> u, filters |-> [f \in Variables[u] |-> "undefined"]]

NoEvent == [dst |-> "none", id |-> None, arg |-> None]

(* What can come from the chat, but for what changes nothing (see Looks):  *)
(* a button names its handler, a template where that matters, and what is  *)
(* chosen with it.                                                         *)
Updates ==
  [dst : {"sub_menu", "sub_manage", "sub_save", "sub_set_labels", "sub_set_interval",
          "sub_set_threshold", "promalert", "acc_menu", "acc_add", "support_send_message", "main_menu",
          "text", "/start"}, id : {None}, arg : {None}]
    \cup [dst : {"sub_edit", "clear_state", "sub_delete"}, id : Templates, arg : {None}]
    \cup [dst : {"acc_save", "acc_delete"}, id : {None}, arg : Accounts]

Init ==
  /\ server = TRUE
  /\ conn = "live" /\ cursor = TRUE /\ lost = 0
  /\ up = TRUE
  /\ status \in {None, "on", "off"} /\ validators = {}
  /\ rules = {}
  /\ state = None /\ data = None
  /\ forms = [o \in Objects |-> None]
  /\ loop = None
  /\ pc = [t \in Tasks |-> "idle"]
  /\ event = [t \in Tasks |-> NoEvent]
  /\ held = [t \in Tasks |-> None]
  /\ read = [t \in Tasks |-> None]

-----------------------------------------------------------------------------
(* Tasks.                                                                  *)
HasLoop(t, at) == loop = t /\ pc[t] = at

Handles(t, dst) == HasLoop(t, "handle") /\ event[t].dst = dst

Resumes(t, at) == up /\ loop = None /\ pc[t] = at

Goto(t, to) == loop' = t /\ pc' = [pc EXCEPT ![t] = to] /\ UNCHANGED event

(* The loop is left, for good or until a message to Telegram is sent.      *)
Leaves(t, to) ==
  /\ loop' = None
  /\ pc' = [pc EXCEPT ![t] = to]
  /\ event' = [event EXCEPT ![t] = NoEvent]

(* The handler has returned, or an exception has ended it.                 *)
Ends(t) == Leaves(t, "idle")

Forgets(t) == read' = [read EXCEPT ![t] = None]

KeepsData == UNCHANGED <<up, row, rules>>

(* Check lists that nobody refers to any more are gone.                    *)
FormsAre(lists) ==
  forms' = [o \in Objects |->
              IF o = data' \/ (\E t \in Tasks : held'[t] = o) THEN lists[o] ELSE None]

FormIs(stateNow, dataNow) ==
  /\ state' = stateNow /\ data' = dataNow
  /\ UNCHANGED held
  /\ FormsAre(forms)

(* The process is over, and what is not in the database or in a file gone. *)
Dies ==
  /\ up' = FALSE
  /\ state' = None /\ data' = None
  /\ forms' = [o \in Objects |-> None]
  /\ loop' = None
  /\ pc' = [t \in Tasks |-> "idle"]
  /\ event' = [t \in Tasks |-> NoEvent]
  /\ held' = [t \in Tasks |-> None]
  /\ read' = [t \in Tasks |-> None]

(* The query at hand ends the handler, or the process.                     *)
QueryFails(t) ==
  \/ QueryRaises /\ Ends(t) /\ Forgets(t) /\ UNCHANGED formVars /\ KeepsData
  \/ QueryExits /\ Dies /\ UNCHANGED <<row, rules>>

(* The portfolio get_records finds: None when the account is not found.    *)
Answer == IF Works /\ status # None THEN validators ELSE None

QueryAnswers == QueryFinds \/ QueryFindsNothing

-----------------------------------------------------------------------------
(* check_if_blocked, before every handler of the chat's updates: who is    *)
(* not found is let in.                                                    *)
Check(t, e) ==
  /\ Resumes(t, "idle")
  /\ \/ /\ QueryAnswers
        /\ IF Works /\ status = "off" THEN Ends(t)
           ELSE /\ loop' = t
                /\ pc' = [pc EXCEPT ![t] = IF e.dst = "sub_edit" THEN "edit" ELSE "handle"]
                /\ event' = [event EXCEPT ![t] = e]
        /\ UNCHANGED <<formVars, read>>
        /\ KeepsData
     \/ QueryFails(t)

(* What is left of a handler is a query for the text of a menu.            *)
Shows(t) ==
  \/ QueryAnswers /\ Ends(t) /\ Forgets(t) /\ UNCHANGED formVars /\ KeepsData
  \/ QueryFails(t)

(* What is left of a handler changes nothing.                              *)
Passes(t) == Ends(t) /\ UNCHANGED <<dbVars, formVars, read>> /\ KeepsData

SubMenu(t) == Handles(t, "sub_menu") /\ Shows(t)
AccMenu(t) == Handles(t, "acc_menu") /\ Shows(t)

(* Telegram refuses a message: that ends the handler that waits for it.    *)
AnswerFails(t) ==
  /\ up /\ loop = None /\ pc[t] # "idle"
  /\ Ends(t)
  /\ held' = [held EXCEPT ![t] = None]
  /\ UNCHANGED <<state, data, dbVars, read>>
  /\ FormsAre(forms)
  /\ KeepsData

(* A query, and then nothing that changes anything.                        *)
Looks ==
  /\ up /\ loop = None
  /\ \/ /\ QueryAnswers \/ QueryRaises
        /\ UNCHANGED <<up, row, rules, formVars, loop, pc, event, read>>
     \/ QueryExits /\ Dies /\ UNCHANGED <<row, rules>>

(* After check_if_blocked these have no query of their own.                *)
SubView       == Looks
SupportMenu   == Looks
DeleteMessage == Looks

(* A call of Alertmanager: promalert_status decides about the message.     *)
PromAlert == Looks

-----------------------------------------------------------------------------
(* The row of the chat.                                                    *)
Reads(t) ==
  /\ QueryAnswers
  /\ read' = [read EXCEPT ![t] = Answer]
  /\ Goto(t, "update")
  /\ UNCHANGED formVars
  /\ KeepsData

PromalertSet(t) ==
  /\ Handles(t, "promalert")
  /\ Goto(t, "update")
  /\ UNCHANGED <<dbVars, formVars, read>>
  /\ KeepsData

(* An account may be unknown to the cache (by now): IndexError.            *)
AccSave(t) == Handles(t, "acc_save") /\ (Reads(t) \/ Shows(t))

AccDelete(t) ==
  /\ Handles(t, "acc_delete")
  /\ Shows(t) \/ (Answer # None /\ event[t].arg \in Answer /\ Reads(t))

(* A text that no form waits for.                                          *)
MainMenu(t) ==
  IF Works /\ status # None THEN Shows(t) ELSE (Reads(t) \/ QueryFails(t))

NoFormWaits == state \notin {"validators", "support"}

CommandStart(t) ==
  /\ NoFormWaits
  /\ \/ Handles(t, "/start") /\ MainMenu(t)
     \/ Handles(t, "text") /\ Passes(t)

(* From a button, the menu looks for the bot's own account and adds that.  *)
MainMenuFromCb(t) == Handles(t, "main_menu") /\ (Shows(t) \/ Reads(t))

(* A query that was lost leaves nothing to commit.                         *)
Update(t) ==
  /\ HasLoop(t, "update")
  /\ \/ /\ QueryAnswers
        /\ Goto(t, IF Works THEN "commit" ELSE "nothing")
        /\ UNCHANGED <<formVars, read>>
        /\ KeepsData
     \/ QueryFails(t)

Added(portfolio, v) == IF portfolio = None THEN {v} ELSE portfolio \cup {v}

RowChanges_Upsert(t) ==
  LET e == event[t]
  IN /\ status' = IF e.dst = "/start" THEN "on" ELSE status
     /\ validators' = IF e.dst = "/start" THEN {}
                      ELSE IF status = None THEN validators
                      ELSE IF e.dst = "acc_save" THEN Added(read[t], e.arg)
                      ELSE IF e.dst = "acc_delete" THEN read[t] \ {e.arg}
                      ELSE validators

(* The handler goes on with a menu, as SubMenu and AccMenu do.             *)
(* An INSERT for an account that is there violates its key, an UPDATE for  *)
(* one that is not changes no row.                                         *)
RowChanges(t) ==
  LET e == event[t]
  IN /\ status' = IF e.dst = "/start" /\ status = None THEN "on" ELSE status
     /\ validators' = IF status = None THEN validators
                      ELSE IF e.dst = "acc_save" THEN Added(read[t], e.arg)
                      ELSE IF e.dst = "acc_delete" THEN read[t] \ {e.arg}
                      ELSE validators

SaveRow(t) ==
  /\ \/ /\ Commits
        /\ \/ HasLoop(t, "commit") /\ RowChanges(t)
           \/ HasLoop(t, "nothing") /\ UNCHANGED row
     \/ /\ CommitFails
        /\ HasLoop(t, "commit") \/ HasLoop(t, "nothing")
        /\ UNCHANGED row
  /\ Ends(t)
  /\ Forgets(t)
  /\ UNCHANGED <<up, rules, formVars>>

-----------------------------------------------------------------------------
(* The forms of accounts and support: a text of the chat goes to them.     *)
OpensForm(t, form) ==
  /\ FormIs(form, "other")
  /\ Ends(t)
  /\ UNCHANGED <<dbVars, read>>
  /\ KeepsData

AccAdd(t) == Handles(t, "acc_add") /\ OpensForm(t, "validators")

SupportSendMessage(t) == Handles(t, "support_send_message") /\ OpensForm(t, "support")

ClearsForm(t) ==
  /\ FormIs(None, None)
  /\ Ends(t)
  /\ UNCHANGED <<dbVars, read>>
  /\ KeepsData

(* /start is no account.                                                   *)
FindAccount(t) ==
  /\ state = "validators"
  /\ \/ Handles(t, "text") /\ ClearsForm(t)
     \/ (Handles(t, "text") \/ Handles(t, "/start")) /\ Passes(t)

FindSupport(t) ==
  \/ /\ state = "support"
     /\ Handles(t, "text") \/ Handles(t, "/start")
     /\ Leaves(t, "support")
     /\ UNCHANGED <<dbVars, formVars, read>>
     /\ KeepsData
  \/ Resumes(t, "support") /\ ClearsForm(t)

-----------------------------------------------------------------------------
(* The form of a subscription.  sub_edit starts one, or takes the one      *)
(* there is, whatever its template.  It has to wait when it tells that     *)
(* there is no portfolio, also when that is the AttributeError of a query  *)
(* without a cursor: it stores the form it has taken before.               *)
CheckLists == IF data = None THEN {o \in Objects : forms[o] = None} ELSE {data} \cap Objects

CheckList_Pressed(t, o) ==
  IF data = None THEN NewForm(event[t].id)
  ELSE IF event[t].id = None THEN forms[o] ELSE [forms[o] EXCEPT !.id = event[t].id]
CheckList(t, o) == IF data = None THEN NewForm(event[t].id) ELSE forms[o]

Given(check_list, f) == [check_list EXCEPT !.filters[f] = "given"]

Edits(t, o) ==
  /\ state' = IF data = None THEN "subscriptions" ELSE state
  /\ \/ /\ "accounts" \notin DOMAIN CheckList(t, o).filters
        /\ data' = o
        /\ UNCHANGED <<dbVars, held>>
        /\ FormsAre([forms EXCEPT ![o] = CheckList(t, o)])
        /\ Ends(t)
     \/ /\ "accounts" \in DOMAIN CheckList(t, o).filters
        /\ \/ /\ QueryAnswers /\ Answer \notin {None, {}}
              /\ data' = o
              /\ UNCHANGED held
              /\ FormsAre([forms EXCEPT ![o] = Given(CheckList(t, o), "accounts")])
              /\ Ends(t)
           \/ /\ (QueryAnswers /\ Answer \in {None, {}}) \/ QueryRaises
              /\ held' = [held EXCEPT ![t] = o]
              /\ UNCHANGED data
              /\ FormsAre([forms EXCEPT ![o] = CheckList(t, o)])
              /\ Leaves(t, "form")
  /\ UNCHANGED read
  /\ KeepsData

SubEdit(t) ==
  /\ HasLoop(t, "edit")
  /\ \/ data = "other" /\ Passes(t)
     \/ QueryExits /\ Dies /\ UNCHANGED <<row, rules>>
     \/ \E o \in CheckLists : Edits(t, o)

StoreForm(t) ==
  /\ Resumes(t, "form")
  /\ data' = held[t]
  /\ held' = [held EXCEPT ![t] = None]
  /\ FormsAre(forms)
  /\ Ends(t)
  /\ UNCHANGED <<state, dbVars, read>>
  /\ KeepsData

(* d['check_list'][f]['data']: a KeyError if there is no such filter.      *)
HasFilter(f) == data \in Objects /\ f \in DOMAIN forms[data].filters

Gives(f) ==
  /\ forms' = [forms EXCEPT ![data] = Given(@, f)]
  /\ UNCHANGED <<state, data, held, dbVars, read>>
  /\ KeepsData

(* Opening the list, a KeyError, or a value that cannot be removed.        *)
SubSetLabels(t) ==
  /\ Handles(t, "sub_set_labels")
  /\ Passes(t) \/ (HasFilter("label") /\ Gives("label") /\ Ends(t))

SubSetInterval(t) ==
  /\ Handles(t, "sub_set_interval")
  /\ Passes(t) \/ (HasFilter("interval") /\ Gives("interval") /\ Goto(t, "edit"))

(* The first press resets; the digits go behind what is given, and none    *)
(* behind 'undefined', which is too long to take one.                      *)
SubSetThreshold(t) ==
  /\ Handles(t, "sub_set_threshold")
  /\ Passes(t) \/ (HasFilter("threshold") /\ Gives("threshold") /\ Ends(t))

ClearState(t) ==
  /\ Handles(t, "clear_state")
  /\ FormIs(None, None)
  /\ Goto(t, "edit")
  /\ UNCHANGED <<dbVars, read>>
  /\ KeepsData

SubManage(t) == (Handles(t, "sub_manage") \/ Resumes(t, "manage")) /\ ClearsForm(t)

-----------------------------------------------------------------------------
(* The file of rules: sub_save and sub_delete write it and go on to        *)
(* sub_manage when they have told so.  While it is written it is empty.    *)
WritesRules(t) ==
  /\ Goto(t, "write")
  /\ UNCHANGED <<dbVars, formVars, read>>
  /\ KeepsData

SubSave(t) ==
  /\ Handles(t, "sub_save")
  /\ IF data \in Objects THEN WritesRules(t) ELSE Passes(t)

SubDelete(t) ==
  /\ Handles(t, "sub_delete")
  /\ \/ WritesRules(t)
     \/ rules = {} /\ Passes(t)

(* A rule has the filters of the check list in its text.                   *)
Rule(l) == [id |-> l.id, filters |-> DOMAIN l.filters]

RulesBut(u) == {r \in rules : r.id # u}

AddRule_Anew(l) == {Rule(l)}
AddRule(l) == RulesBut(l.id) \cup {Rule(l)}

DeleteRule(u) == RulesBut(u)

SaveRules(t) ==
  /\ HasLoop(t, "write")
  /\ rules' = IF event[t].dst = "sub_save" THEN AddRule(forms[data]) ELSE DeleteRule(event[t].id)
  /\ Leaves(t, "manage")
  /\ UNCHANGED <<dbVars, formVars, read, up, row>>

-----------------------------------------------------------------------------
(* The process is killed, or started again.                                *)
Crash ==
  /\ up
  /\ Dies
  /\ DatabaseGone
  /\ rules' = IF \E t \in Tasks : HasLoop(t, "write") THEN {} ELSE rules
  /\ UNCHANGED row

Start ==
  /\ ~up
  /\ up' = TRUE
  /\ DatabaseInit
  /\ UNCHANGED <<row, rules, formVars, loop, pc, event, read>>

Environment ==
  /\ ServerDown \/ ServerUp
  /\ UNCHANGED <<up, row, rules, formVars, loop, pc, event, read>>

Handler(t) ==
  \/ SubMenu(t) \/ AccMenu(t) \/ AnswerFails(t)
  \/ PromalertSet(t) \/ AccSave(t) \/ AccDelete(t) \/ CommandStart(t) \/ MainMenuFromCb(t)
  \/ Update(t) \/ SaveRow(t)
  \/ AccAdd(t) \/ SupportSendMessage(t) \/ FindAccount(t) \/ FindSupport(t)
  \/ SubEdit(t) \/ StoreForm(t) \/ SubSetLabels(t) \/ SubSetInterval(t) \/ SubSetThreshold(t)
  \/ ClearState(t) \/ SubManage(t) \/ SubSave(t) \/ SubDelete(t) \/ SaveRules(t)

Next ==
  \/ \E t \in Tasks : Handler(t)
  \/ \E t \in Tasks, e \in Updates : Check(t, e)
  \/ SubView \/ SupportMenu \/ DeleteMessage \/ PromAlert
  \/ Crash \/ Start \/ Environment

Spec == Init /\ [][Next]_vars

-----------------------------------------------------------------------------
RuleType      == [id : Templates, filters : SUBSET Filters]

ControlTypeOK ==
  /\ up \in BOOLEAN
  /\ loop \in Tasks \cup {None}
  /\ pc \in [Tasks -> {"idle", "edit", "handle", "update", "commit", "nothing", "write",
                       "form", "support", "manage"}]
  /\ event \in [Tasks -> Updates \cup {NoEvent}]

RowTypeOK ==
  /\ status \in {None, "on", "off"}
  /\ validators \subseteq Accounts
  /\ read \in [Tasks -> (SUBSET Accounts) \cup {None}]

FormTypeOK ==
  /\ rules \subseteq RuleType
  /\ state \in {None, "subscriptions", "validators", "support"}
  /\ data \in Objects \cup {None, "other"}
  /\ forms \in [Objects -> CheckListType \cup {None}]
  /\ held \in [Tasks -> Objects \cup {None}]

(* Every variable has its type.                                            *)
TypeOK == DatabaseTypeOK /\ ControlTypeOK /\ RowTypeOK /\ FormTypeOK

(* A rule is made from a template and a check list, and the two must fit:  *)
(* a filter the template asks for and the list lacks is a KeyError         *)
(* (alerts.py:168), however many menus and tasks have had a hand in the    *)
(* form, and however stale it is when sub_edit stores it                   *)
(* (subscriptions.py:157-179).                                             *)
FiltersFitTemplate ==
  /\ \A o \in Objects : forms[o] # None => DOMAIN forms[o].filters = Variables[forms[o].id]
  /\ \A r \in rules : r.filters = Variables[r.id]
  /\ \A o \in {data} \cap Objects : forms[o] # None
  /\ \A t \in Tasks : held[t] # None => forms[held[t]] # None

(* An account leaves the portfolio only when it is deleted, whatever the   *)
(* tasks and the connection do; or when the portfolio was not found        *)
(* because that query was lost: acc_save starts a new one then             *)
(* (accounts.py:80-89).                                                    *)
AccountsLeaveByDelete ==
  [][\A v \in validators \ validators' :
       \E t \in Tasks :
         /\ HasLoop(t, "commit")
         /\ \/ event[t].dst = "acc_delete" /\ event[t].arg = v
            \/ event[t].dst = "acc_save" /\ read[t] = None]_vars

(* A rule is replaced or deleted by the chat only, unless the process      *)
(* dies while it writes the file (alerts.py:20-22, 201-208).               *)
RulesLeaveByDelete ==
  [][\A r \in rules :
       \/ \E q \in rules' : q.id = r.id
       \/ \E t \in Tasks :
            /\ HasLoop(t, "write")
            /\ ~up' \/ (event[t].dst = "sub_delete" /\ event[t].id = r.id)]_vars
=============================================================================
